---------------------------- MODULE DataRelayProofs ----------------------------
(***************************************************************************)
(* Proofs about the frames of the tunnel (module FrameCodec) and about the *)
(* bytes of one request in them (module DataRelay), for every width of a   *)
(* byte, all frames, any buffers and any number of pieces.                 *)
(***************************************************************************)
EXTENDS DataRelay, SequenceTheorems, WellFoundedInduction, TLAPS

------------------------------------------------------------------------------
(* Sequences put one behind another                                        *)

(* Induction over the numbers, as a fact about sets.                       *)
LEMMA SetInduction ==
  ASSUME NEW S \in SUBSET Nat, 0 \in S, \A n \in S : n + 1 \in S
  PROVE  S = Nat
<1> DEFINE D == Nat \ S
           R == OpToRel(<, Nat)
<1>1. IsWellFoundedOn(R, Nat)
  BY NatLessThanWellFounded
<1>2. \A x, y \in Nat : y < x => <<y, x>> \in R
  BY DEF OpToRel
<1> HIDE DEF R
<1>3. SUFFICES ASSUME D # {} PROVE FALSE
  OBVIOUS
<1>4. PICK x \in D : \A y \in D : ~(<<y, x>> \in R)
  BY <1>1, <1>3, WFMin
<1>5. x # 0 /\ x \in Nat /\ x - 1 \in Nat /\ x - 1 < x
  OBVIOUS
<1>6. x - 1 \in S
  BY <1>2, <1>4, <1>5
<1>7. (x - 1) + 1 \in S
  BY <1>6
<1> QED BY <1>5, <1>7

LEMMA Concat ==
  ASSUME NEW a \in Seq(Nat), NEW c \in Seq(Nat)
  PROVE  /\ a \o c \in Seq(Nat) /\ Len(a) \in Nat /\ Len(c) \in Nat
         /\ Len(a \o c) = Len(a) + Len(c)
         /\ \A i \in 1 .. Len(a) : (a \o c)[i] = a[i]
         /\ \A i \in 1 .. Len(c) : (a \o c)[Len(a) + i] = c[i]
  OBVIOUS

AreTexts(e) == e \in Seq(Seq(Nat))

LEMMA TextsTypes ==
  ASSUME NEW e, AreTexts(e)
  PROVE  Len(e) \in Nat /\ \A k \in 1 .. Len(e) : e[k] \in Seq(Nat) /\ Len(e[k]) \in Nat
  BY DEF AreTexts

(* The first m elements of e, put one behind the other one at a time.      *)
Joined(g, e, m) ==
  /\ g \in [0 .. m -> Seq(Nat)] /\ g[0] = <<>>
  /\ \A k \in 1 .. m : g[k] = g[k - 1] \o e[k]

LEMMA JoinedExists ==
  ASSUME NEW e, AreTexts(e) PROVE \E g : Joined(g, e, Len(e))
<1> DEFINE S == {m \in Nat : m <= Len(e) => \E g : Joined(g, e, m)}
<1>1. 0 \in S
  <2>1. Joined([k \in 0 .. 0 |-> <<>>], e, 0)
    BY DEF Joined
  <2> QED BY <2>1
<1>2. ASSUME NEW m \in S PROVE m + 1 \in S
  <2> SUFFICES ASSUME m + 1 <= Len(e) PROVE \E g : Joined(g, e, m + 1)
    OBVIOUS
  <2>1. m \in Nat /\ m <= Len(e)
    OBVIOUS
  <2>2. PICK g : Joined(g, e, m)
    BY <2>1
  <2> DEFINE h == [k \in 0 .. m + 1 |-> IF k = m + 1 THEN g[m] \o e[m + 1] ELSE g[k]]
  <2>3. g[m] \in Seq(Nat) /\ e[m + 1] \in Seq(Nat)
    <3>1. m + 1 \in 1 .. Len(e)
      BY <2>1, TextsTypes
    <3> QED BY <2>1, <2>2, <3>1, TextsTypes DEF Joined
  <2>4. \A k \in 0 .. m : h[k] = g[k] /\ g[k] \in Seq(Nat)
    BY <2>1, <2>2 DEF Joined
  <2>5. h[m + 1] = g[m] \o e[m + 1] /\ g[m] \o e[m + 1] \in Seq(Nat)
    <3>1. g[m] \o e[m + 1] \in Seq(Nat)
      BY <2>3, Concat, Zenon
    <3>2. m + 1 \in 0 .. m + 1
      BY <2>1
    <3> QED BY <3>1, <3>2, Zenon
  <2>6. h \in [0 .. m + 1 -> Seq(Nat)]
    <3>1. \A k \in 0 .. m + 1 : k \in 0 .. m \/ k = m + 1
      BY <2>1
    <3>2. \A k \in 0 .. m + 1 : h[k] \in Seq(Nat)
      BY <2>4, <2>5, <3>1
    <3>3. h = [k \in 0 .. m + 1 |-> h[k]]
      OBVIOUS
    <3> HIDE DEF h
    <3> QED BY <3>2, <3>3
  <2> HIDE DEF h
  <2>7. ASSUME NEW k \in 1 .. m + 1 PROVE h[k] = h[k - 1] \o e[k]
    <3>1. CASE k = m + 1
      <4>1. k - 1 = m /\ m \in 0 .. m
        BY <2>1, <3>1
      <4> QED BY <2>4, <2>5, <3>1, <4>1
    <3>2. CASE k # m + 1
      <4>1. k \in 1 .. m /\ k \in 0 .. m /\ k - 1 \in 0 .. m
        BY <2>1, <3>2
      <4>2. g[k] = g[k - 1] \o e[k]
        BY <2>2, <4>1 DEF Joined
      <4> QED BY <2>4, <4>1, <4>2
    <3> QED BY <3>1, <3>2
  <2>8. h[0] = <<>>
    BY <2>1, <2>2, <2>4 DEF Joined
  <2> QED BY <2>6, <2>7, <2>8 DEF Joined
<1>3. S = Nat
  <2>1. S \subseteq Nat
    OBVIOUS
  <2> HIDE DEF S
  <2> QED BY <1>1, <1>2, <2>1, SetInduction
<1>4. Len(e) \in Nat /\ Len(e) <= Len(e)
  BY TextsTypes
<1>5. Len(e) \in S
  BY <1>3, <1>4
<1> QED BY <1>4, <1>5

(* FlattenSeq is what is behind the last text.                             *)
LEMMA JoinedIsFlat ==
  ASSUME NEW e, AreTexts(e), NEW g, Joined(g, e, Len(e))
  PROVE  FlattenSeq(e) = g[Len(e)]
<1> DEFINE n == Len(e)
<1>1. n \in Nat /\ \A k \in 1 .. n : e[k] \in Seq(Nat)
  BY TextsTypes
<1>2. CASE n = 0
  <2>1. FlattenSeq(e) = e /\ e = <<>>
    BY <1>2 DEF FlattenSeq, AreTexts
  <2> QED BY <1>2, <2>1 DEF Joined
<1>3. CASE n # 0
  <2> DEFINE Defines(f) == f = [i \in 1 .. n |-> IF i = 1 THEN e[i] ELSE f[i - 1] \o e[i]]
             h == [i \in 1 .. n |-> g[i]]
  <2>1. PICK f : FlattenSeq(e) = f[n] /\ f = CHOOSE f1 : Defines(f1)
    BY <1>3 DEF FlattenSeq
  <2> HIDE DEF n
  <2>2. g[1] = e[1]
    <3>1. 1 \in 1 .. n /\ 1 - 1 = 0
      BY <1>1, <1>3
    <3>2. g[1] = g[0] \o e[1] /\ g[0] = <<>> /\ e[1] \in Seq(Nat)
      BY <1>1, <3>1 DEF Joined, n
    <3> QED BY <3>2
  <2>3. \A i \in 1 .. n : i # 1 => i - 1 \in 1 .. n /\ g[i] = g[i - 1] \o e[i]
    <3>1. ASSUME NEW i \in 1 .. n, i # 1 PROVE i - 1 \in 1 .. n
      BY <1>1, <3>1
    <3>2. \A i \in 1 .. n : g[i] = g[i - 1] \o e[i]
      BY DEF Joined, n
    <3> QED BY <3>1, <3>2
  <2>4. Defines(h)
    <3>1. ASSUME NEW i \in 1 .. n
          PROVE  g[i] = IF i = 1 THEN e[i] ELSE h[i - 1] \o e[i]
      BY <2>2, <2>3
    <3> QED BY <3>1
  <2>5. Defines(f)
    <3> HIDE DEF Defines
    <3> QED BY <2>1, <2>4
  <2>6. \A i \in 1 .. n : f[i] = IF i = 1 THEN e[i] ELSE f[i - 1] \o e[i]
    BY <2>5
  <2> HIDE DEF Defines, h
  <2> DEFINE S == {m \in Nat : m + 1 <= n => f[m + 1] = g[m + 1]}
  <2>7. 0 \in S
    <3>1. 1 \in 1 .. n /\ 0 + 1 = 1
      BY <1>1, <1>3
    <3>2. f[1] = e[1]
      BY <2>6, <3>1
    <3> QED BY <2>2, <3>1, <3>2
  <2>8. ASSUME NEW m \in S PROVE m + 1 \in S
    <3> SUFFICES ASSUME (m + 1) + 1 <= n PROVE f[(m + 1) + 1] = g[(m + 1) + 1]
      OBVIOUS
    <3> DEFINE i == (m + 1) + 1
    <3>1. f[m + 1] = g[m + 1] /\ i \in 1 .. n /\ i # 1 /\ i - 1 = m + 1
      BY <1>1
    <3> HIDE DEF i, S
    <3>2. f[i] = f[i - 1] \o e[i]
      BY <2>6, <3>1
    <3>3. g[i] = g[i - 1] \o e[i]
      BY <2>3, <3>1
    <3>4. f[i] = g[i]
      BY <3>1, <3>2, <3>3
    <3> QED BY <3>4 DEF i
  <2>9. S = Nat
    <3>1. S \subseteq Nat
      OBVIOUS
    <3> HIDE DEF S
    <3> QED BY <2>7, <2>8, <3>1, SetInduction
  <2>10. n - 1 \in Nat /\ (n - 1) + 1 = n /\ n <= n
    BY <1>1, <1>3
  <2>11. f[n] = g[n]
    BY <2>9, <2>10
  <2> QED BY <2>1, <2>11 DEF n
<1> QED BY <1>2, <1>3

(* Each of them begins as the ones before it.                              *)
Grows(g, j, m) ==
  Len(g[j]) <= Len(g[m]) /\ \A i \in 1 .. Len(g[j]) : g[m][i] = g[j][i]

IsBehind(b, a, c) ==
  /\ Len(a) \in Nat /\ Len(c) \in Nat /\ Len(b) \in Nat /\ Len(b) = Len(a) + Len(c)
  /\ \A i \in 1 .. Len(a) : b[i] = a[i]
  /\ \A i \in 1 .. Len(c) : b[Len(a) + i] = c[i]

LEMMA JoinedStep ==
  ASSUME NEW e, AreTexts(e), NEW g, Joined(g, e, Len(e)),
         NEW k \in 1 .. Len(e), NEW j, j = k - 1
  PROVE  IsBehind(g[k], g[j], e[k])
<1> DEFINE a == g[j]
           c == e[k]
           b == g[k]
<1>1. j \in 0 .. Len(e) /\ k \in 0 .. Len(e) /\ c \in Seq(Nat)
  BY TextsTypes
<1>2. a \in Seq(Nat) /\ b = a \o c
  BY <1>1 DEF Joined
<1> HIDE DEF a, b, c
<1>3. /\ a \o c \in Seq(Nat) /\ Len(a) \in Nat /\ Len(c) \in Nat /\ Len(a \o c) = Len(a) + Len(c)
      /\ \A i \in 1 .. Len(a) : (a \o c)[i] = a[i]
      /\ \A i \in 1 .. Len(c) : (a \o c)[Len(a) + i] = c[i]
  BY <1>1, <1>2, Concat, Zenon
<1>4. Len(a \o c) \in Nat
  BY <1>3
<1>5. IsBehind(b, a, c)
  BY <1>2, <1>3, <1>4, Zenon DEF IsBehind
<1> QED BY <1>5 DEF a, b, c

LEMMA JoinedGrows ==
  ASSUME NEW e, AreTexts(e), NEW g, Joined(g, e, Len(e))
  PROVE  \A j \in 0 .. Len(e) : Grows(g, j, Len(e))
<1> DEFINE n == Len(e)
           S == {m \in Nat : m <= n => \A j \in 0 .. m : Grows(g, j, m)}
<1>1. n \in Nat
  BY TextsTypes
<1>2. \A k \in 0 .. n : g[k] \in Seq(Nat) /\ Len(g[k]) \in Nat
  BY DEF Joined
<1>3. \A m \in 0 .. n : Grows(g, m, m)
  <2> SUFFICES ASSUME NEW m \in 0 .. n PROVE Len(g[m]) <= Len(g[m])
    BY DEF Grows
  <2> DEFINE a == Len(g[m])
  <2>1. a \in Nat
    BY <1>2
  <2> HIDE DEF a
  <2>2. a <= a
    BY <2>1
  <2> QED BY <2>2 DEF a
<1>4. 0 \in S
  <2>1. \A j \in 0 .. 0 : j = 0
    OBVIOUS
  <2> QED BY <1>1, <1>3, <2>1
<1>5. ASSUME NEW m \in S PROVE m + 1 \in S
  <2> SUFFICES ASSUME m + 1 <= n, NEW j \in 0 .. m + 1 PROVE Grows(g, j, m + 1)
    OBVIOUS
  <2>1. m \in Nat /\ m + 1 \in 1 .. n /\ (m + 1) - 1 = m /\ m + 1 \in 0 .. n
    BY <1>1
  <2>2. \A l \in 0 .. m : Grows(g, l, m)
    BY <2>1
  <2>3. CASE j = m + 1
    BY <1>3, <2>1, <2>3
  <2>4. CASE j # m + 1
    <3> DEFINE x == Len(g[j])
               w == Len(g[m])
               v == Len(e[m + 1])
    <3>1. j \in 0 .. m /\ j \in 0 .. n
      BY <1>1, <2>1, <2>4
    <3>2. x \in Nat /\ x <= w /\ \A i \in 1 .. x : g[m][i] = g[j][i]
      BY <1>2, <2>2, <3>1 DEF Grows
    <3>3. /\ w \in Nat /\ v \in Nat /\ Len(g[m + 1]) = w + v
          /\ \A i \in 1 .. w : g[m + 1][i] = g[m][i]
      <4>1. m + 1 \in 1 .. Len(e) /\ m = (m + 1) - 1
        BY <2>1
      <4>2. IsBehind(g[m + 1], g[m], e[m + 1])
        BY <4>1, JoinedStep, Zenon
      <4> QED BY <4>2, Zenon DEF IsBehind
    <3> HIDE DEF x, w, v
    <3>4. x <= w + v /\ \A i \in 1 .. x : i \in 1 .. w
      BY <3>2, <3>3
    <3> QED BY <3>2, <3>3, <3>4 DEF Grows, x
  <2> QED BY <2>3, <2>4
<1>6. S = Nat
  <2>1. S \subseteq Nat
    OBVIOUS
  <2> HIDE DEF S
  <2> QED BY <1>4, <1>5, <2>1, SetInduction
<1> QED BY <1>1, <1>6

(* Element k of e is found in FlattenSeq(e) where o says that element k - 1*)
(* ends; what comes before the end of element k is that of the first k.    *)
Places(o, e) ==
  /\ o \in [0 .. Len(e) -> Nat] /\ o[0] = 0 /\ o[Len(e)] = Len(FlattenSeq(e))
  /\ \A k \in 1 .. Len(e) : o[k] = o[k - 1] + Len(e[k])
  /\ \A k \in 0 .. Len(e) : o[k] <= o[Len(e)]
  /\ \A k \in 1 .. Len(e) : \A i \in 1 .. Len(e[k]) : FlattenSeq(e)[o[k - 1] + i] = e[k][i]
  /\ \A k \in 0 .. Len(e) : FlattenSeq(SubSeq(e, 1, k)) = SubSeq(FlattenSeq(e), 1, o[k])

(* Where each text of a list is found when they are put one behind another.*)
LEMMA Concatenation ==
  ASSUME NEW e, AreTexts(e)
  PROVE  FlattenSeq(e) \in Seq(Nat) /\ \E o : Places(o, e)
<1>1. PICK g : Joined(g, e, Len(e))
  BY JoinedExists
<1> DEFINE n == Len(e)
           o == [k \in 0 .. n |-> Len(g[k])]
<1>2. n \in Nat /\ n \in 0 .. n /\ FlattenSeq(e) = g[n]
  BY <1>1, TextsTypes, JoinedIsFlat
<1>3. \A k \in 0 .. n : o[k] = Len(g[k]) /\ Len(g[k]) \in Nat /\ g[k] \in Seq(Nat)
  BY <1>1 DEF Joined
<1>4. o \in [0 .. n -> Nat] /\ o[0] = 0 /\ o[n] = Len(g[n])
  BY <1>1, <1>2, <1>3 DEF Joined
<1>5. \A k \in 1 .. n : k - 1 \in 0 .. n /\ k \in 0 .. n
  BY <1>2
<1> HIDE DEF o
<1>6. \A k \in 0 .. n : Grows(g, k, n)
  BY <1>1, JoinedGrows
<1>7. ASSUME NEW k \in 1 .. n PROVE o[k] = o[k - 1] + Len(e[k])
  <2>1. Len(g[k]) = Len(g[k - 1]) + Len(e[k])
    <3>1. IsBehind(g[k], g[k - 1], e[k])
      BY <1>1, JoinedStep, Zenon
    <3> QED BY <3>1, Zenon DEF IsBehind
  <2> QED BY <1>3, <1>5, <2>1
<1>11. ASSUME NEW k \in 0 .. n PROVE o[k] <= o[n]
  BY <1>2, <1>3, <1>6 DEF Grows
<1>8. ASSUME NEW k \in 1 .. n, NEW i \in 1 .. Len(e[k]) PROVE FlattenSeq(e)[o[k - 1] + i] = e[k][i]
  <2> DEFINE x == Len(g[k - 1])
             y == Len(e[k])
             z == Len(g[k])
  <2>1. x \in Nat /\ y \in Nat /\ z = x + y /\ i \in 1 .. y /\ g[k][x + i] = e[k][i]
    <3>1. IsBehind(g[k], g[k - 1], e[k])
      BY <1>1, JoinedStep, Zenon
    <3> QED BY <3>1, Zenon DEF IsBehind
  <2>2. \A j \in 1 .. z : g[n][j] = g[k][j]
    BY <1>5, <1>6 DEF Grows
  <2>3. x = o[k - 1]
    BY <1>3, <1>5
  <2> HIDE DEF x, y, z
  <2>4. x + i \in 1 .. z
    BY <2>1
  <2>5. g[n][x + i] = e[k][i]
    BY <2>1, <2>2, <2>4
  <2> QED BY <1>2, <2>3, <2>5
<1>9. ASSUME NEW k \in 0 .. n PROVE FlattenSeq(SubSeq(e, 1, k)) = SubSeq(FlattenSeq(e), 1, o[k])
  <2> DEFINE p == SubSeq(e, 1, k)
             h == [j \in 0 .. k |-> g[j]]
  <2>1. k \in Nat /\ k <= n /\ AreTexts(p) /\ Len(p) = k /\ \A j \in 1 .. k : p[j] = e[j]
    BY <1>2 DEF AreTexts
  <2> HIDE DEF p
  <2>2. h \in [0 .. k -> Seq(Nat)] /\ h[0] = <<>> /\ h[k] = g[k]
    BY <1>1, <1>2, <1>3, <2>1 DEF Joined
  <2>3. ASSUME NEW j \in 1 .. k PROVE h[j] = h[j - 1] \o p[j]
    <3>1. j \in 1 .. n /\ j - 1 \in 0 .. k /\ j \in 0 .. k
      BY <1>2, <2>1
    <3>2. g[j] = g[j - 1] \o e[j]
      BY <1>1, <3>1 DEF Joined
    <3> QED BY <2>1, <3>1, <3>2
  <2> HIDE DEF h
  <2>4. Joined(h, p, Len(p))
    BY <2>1, <2>2, <2>3 DEF Joined
  <2>5. FlattenSeq(p) = g[k]
    BY <2>1, <2>2, <2>4, JoinedIsFlat
  <2>6. g[k] = SubSeq(g[n], 1, Len(g[k]))
    <3> DEFINE a == g[k]
               c == g[n]
    <3>1. a \in Seq(Nat) /\ c \in Seq(Nat) /\ Len(a) <= Len(c)
      BY <1>2, <1>3, <1>6 DEF Grows
    <3>2. \A i \in 1 .. Len(a) : c[i] = a[i]
      BY <1>6 DEF Grows
    <3> HIDE DEF a, c
    <3>3. a = SubSeq(c, 1, Len(a))
      BY <3>1, <3>2
    <3> QED BY <3>3 DEF a, c
  <2>7. FlattenSeq(p) = SubSeq(FlattenSeq(e), 1, o[k])
    BY <1>2, <1>3, <2>5, <2>6
  <2> QED BY <2>7 DEF p
<1>10. Len(FlattenSeq(e)) = o[n] /\ FlattenSeq(e) \in Seq(Nat)
  BY <1>2, <1>3, <1>4
<1>12. Places(o, e)
  BY <1>4, <1>7, <1>8, <1>9, <1>10, <1>11 DEF n, Places
<1> QED BY <1>10, <1>12

------------------------------------------------------------------------------
(* A frame is decoded to what was encoded                                  *)

(* From offset at on, b shows s.                                           *)
Shows(b, at, s) ==
  at + Len(s) <= Len(b) /\ \A i \in 1 .. Len(s) : b[at + i] = s[i]

LEMMA ShowsAll ==
  ASSUME NEW b \in Seq(Nat) PROVE Shows(b, 0, b)
  BY DEF Shows

ShowsBoth(b, at, s, t, r) ==
  /\ Shows(b, at, s) /\ Shows(b, at + Len(s), t)
  /\ Len(s) \in Nat /\ Len(t) \in Nat /\ Len(r) = Len(s) + Len(t)

LEMMA ShowsParts ==
  ASSUME NEW b \in Seq(Nat), NEW at \in Nat, NEW s \in Seq(Nat), NEW t \in Seq(Nat),
         NEW r, r = s \o t, Shows(b, at, r)
  PROVE  ShowsBoth(b, at, s, t, r)
<1>0. Shows(b, at, s \o t)
  OBVIOUS
<1>1. Len(s) \in Nat /\ Len(t) \in Nat /\ Len(b) \in Nat /\ Len(s \o t) = Len(s) + Len(t)
  BY Concat
<1>2. at + Len(s) + Len(t) <= Len(b)
  BY <1>0, <1>1 DEF Shows
<1>3. ASSUME NEW i \in 1 .. Len(s) PROVE b[at + i] = s[i]
  <2>1. i \in 1 .. Len(s \o t) /\ (s \o t)[i] = s[i]
    BY <1>1
  <2> QED BY <1>0, <2>1, Zenon DEF Shows
<1>4. ASSUME NEW i \in 1 .. Len(t) PROVE b[at + Len(s) + i] = t[i]
  <2>1. Len(s) + i \in 1 .. Len(s \o t) /\ (s \o t)[Len(s) + i] = t[i]
    BY <1>1
  <2>2. b[at + (Len(s) + i)] = t[i]
    BY <1>0, <2>1, Zenon DEF Shows
  <2>3. at + (Len(s) + i) = at + Len(s) + i
    BY <1>1
  <2> QED BY <2>2, <2>3
<1>5. Shows(b, at, s) /\ Shows(b, at + Len(s), t)
  <2>1. at + Len(s) <= Len(b)
    <3> DEFINE x == Len(s)
               y == Len(t)
               z == Len(b)
    <3>1. x \in Nat /\ y \in Nat /\ z \in Nat /\ at + x + y <= z
      BY <1>1, <1>2
    <3> HIDE DEF x, y, z
    <3>2. at + x <= z
      BY <3>1
    <3> QED BY <3>2 DEF x, z
  <2>2. Shows(b, at, s)
    BY <1>3, <2>1, Zenon DEF Shows
  <2>3. Shows(b, at + Len(s), t)
    BY <1>2, <1>4, Zenon DEF Shows
  <2> QED BY <2>2, <2>3
<1> QED BY <1>1, <1>5 DEF ShowsBoth

LEMMA ShowsSlice ==
  ASSUME NEW b \in Seq(Nat), NEW at \in Nat, NEW s \in Seq(Nat), Shows(b, at, s)
  PROVE  /\ Slice(b, at, Len(s)) = s
         /\ at + Len(s) = Len(b) => Rest(b, at) = s
<1>1. Len(s) \in Nat /\ Len(b) \in Nat /\ at + Len(s) <= Len(b)
  BY DEF Shows
<1>2. SubSeq(b, at + 1, at + Len(s)) = s
  <2>1. \A i \in 1 .. Len(s) : SubSeq(b, at + 1, at + Len(s))[i] = b[at + i]
    <3>1. at + 1 \in 1 .. Len(b) + 1 /\ at + Len(s) \in at .. Len(b)
      BY <1>1
    <3> QED BY <1>1, <3>1, SubSeqProperties
  <2>2. \A i \in 1 .. Len(s) : b[at + i] = s[i]
    BY DEF Shows
  <2>3. Len(SubSeq(b, at + 1, at + Len(s))) = Len(s) /\ SubSeq(b, at + 1, at + Len(s)) \in Seq(Nat)
    BY <1>1
  <2>4. \A i \in 1 .. Len(s) : SubSeq(b, at + 1, at + Len(s))[i] = s[i]
    BY <2>1, <2>2
  <2> QED BY <2>3, <2>4, SeqEqual
<1>3. at + Len(s) = IF at + Len(s) < Len(b) THEN at + Len(s) ELSE Len(b)
  BY <1>1
<1> QED BY <1>1, <1>2, <1>3 DEF Slice, Rest

(* Division and remainder; the length of a text that fits in a byte.       *)
LEMMA Division ==
  ASSUME NEW n \in Nat, NEW d \in Nat \ {0}
  PROVE  n \div d \in Nat /\ n % d \in Nat /\ n = d * (n \div d) + (n % d)
  OBVIOUS

LEMMA NoDivision ==
  ASSUME NEW n \in Nat, NEW d \in Nat, n < d PROVE n % d = n
  OBVIOUS

LEMMA Uint16Type ==
  ASSUME NEW n \in Nat
  PROVE  /\ n \div Byte \in Nat /\ n % Byte \in Nat /\ n = Byte * (n \div Byte) + (n % Byte)
         /\ Uint16(n) \in Seq(Nat) /\ Len(Uint16(n)) = 2
         /\ Uint16(n)[1] = n \div Byte /\ Uint16(n)[2] = n % Byte
<1>1. /\ n \div Byte \in Nat /\ n % Byte \in Nat
      /\ n = Byte * (n \div Byte) + (n % Byte)
  <2>1. Byte \in Nat \ {0}
    BY ByteAssumption
  <2> QED BY <2>1, Division, Zenon
<1>2. Uint16(n) \in Seq(Nat) /\ Len(Uint16(n)) = 2 /\ Uint16(n)[1] = n \div Byte /\ Uint16(n)[2] = n % Byte
  BY <1>1 DEF Uint16
<1> QED BY <1>1, <1>2

(* readUInt16BE gives back what writeUInt16BE wrote.                       *)
LEMMA Number16Shown ==
  ASSUME NEW b \in Seq(Nat), NEW at \in Nat, NEW n \in Nat, Shows(b, at, Uint16(n))
  PROVE  Number16(b, at) = n
<1>1. Byte \in Nat
  BY ByteAssumption
<1>2. /\ n \div Byte \in Nat /\ n % Byte \in Nat /\ n = Byte * (n \div Byte) + (n % Byte)
      /\ Uint16(n)[1] = n \div Byte /\ Uint16(n)[2] = n % Byte /\ Len(Uint16(n)) = 2
  BY Uint16Type
<1>3. b[at + 1] = n \div Byte /\ b[at + 2] = n % Byte
  BY <1>2 DEF Shows
<1> QED BY <1>1, <1>2, <1>3 DEF Number16

ShowsText(b, at, s, r) ==
  b[at + 1] = Len(s) /\ Text(b, at) = s /\ Shows(b, at + 1, s) /\ After(b, at) = at + Len(r)

(* A counted text is read, and its end is where the next begins.           *)
LEMMA TextShown ==
  ASSUME NEW b \in Seq(Nat), NEW at \in Nat, NEW s \in ShortTexts,
         NEW r, r = Counted(s), Shows(b, at, r)
  PROVE  ShowsText(b, at, s, r)
<1>1. s \in Seq(Nat) /\ Len(s) \in Nat /\ Len(s) < Byte /\ Byte \in Nat
  BY ByteAssumption DEF ShortTexts
<1>2. Len(s) % Byte = Len(s)
  <2>1. Byte \in Nat \ {0}
    BY ByteAssumption
  <2> DEFINE x == Len(s)
  <2>2. x \in Nat /\ x < Byte
    BY <1>1
  <2> HIDE DEF x
  <2>3. x % Byte = x
    BY <1>1, <2>2, NoDivision, Zenon
  <2> QED BY <2>3 DEF x
<1>3. r = <<Len(s)>> \o s
  BY <1>2 DEF Counted
<1>4. Len(r) = 1 + Len(s)
  BY <1>1, <1>3
<1>5. Shows(b, at, <<Len(s)>>) /\ Shows(b, at + 1, s)
  <2>1. <<Len(s)>> \in Seq(Nat) /\ Len(<<Len(s)>>) = 1
    BY <1>1
  <2>2. ShowsBoth(b, at, <<Len(s)>>, s, r)
    BY <1>1, <1>3, <2>1, ShowsParts, Zenon
  <2> QED BY <2>1, <2>2 DEF ShowsBoth
<1>6. b[at + 1] = Len(s)
  BY <1>5 DEF Shows
<1>7. Text(b, at) = s
  BY <1>1, <1>5, <1>6, ShowsSlice DEF Text
<1>8. After(b, at) = at + Len(r)
  BY <1>1, <1>4, <1>6 DEF After
<1> QED BY <1>5, <1>6, <1>7, <1>8 DEF ShowsText

(* Text k of a list, where the list is shown.                              *)
LEMMA PlacesShown ==
  ASSUME NEW b \in Seq(Nat), NEW at \in Nat, NEW e, AreTexts(e), NEW o, Places(o, e),
         Shows(b, at, FlattenSeq(e)), NEW k \in 1 .. Len(e)
  PROVE  /\ Shows(b, at + o[k - 1], e[k]) /\ at + o[k - 1] \in Nat
         /\ at + o[k] = at + o[k - 1] + Len(e[k])
<1> DEFINE x == o[k - 1]
           y == o[k]
           z == o[Len(e)]
           s == FlattenSeq(e)
           t == e[k]
<1>1. Len(e) \in Nat /\ t \in Seq(Nat) /\ s \in Seq(Nat)
  BY TextsTypes, Concatenation
<1>2. k - 1 \in 0 .. Len(e) /\ k \in 0 .. Len(e) /\ Len(e) \in 0 .. Len(e)
  BY <1>1
<1>3. /\ x \in Nat /\ y \in Nat /\ z \in Nat /\ z = Len(s) /\ y = x + Len(t) /\ y <= z
      /\ \A i \in 1 .. Len(t) : s[x + i] = t[i]
  BY <1>2 DEF Places
<1> HIDE DEF x, y, z, s, t
<1>4. Shows(b, at, s)
  BY DEF s
<1>5. /\ Len(b) \in Nat /\ Len(t) \in Nat /\ at + Len(s) <= Len(b)
      /\ \A i \in 1 .. Len(s) : b[at + i] = s[i]
  BY <1>1, <1>4 DEF Shows
<1>6. ASSUME NEW i \in 1 .. Len(t) PROVE b[at + x + i] = t[i]
  <2>1. x + i \in 1 .. Len(s)
    <3> DEFINE n == Len(s)
               m == Len(t)
    <3>1. n \in Nat /\ m \in Nat /\ x \in Nat /\ x + m <= n
      BY <1>1, <1>3
    <3>2. i \in 1 .. m
      OBVIOUS
    <3> HIDE DEF n, m
    <3>3. x + i \in 1 .. n
      BY <3>1, <3>2
    <3> QED BY <3>3 DEF n
  <2>2. b[at + (x + i)] = s[x + i]
    BY <1>5, <2>1
  <2>3. at + (x + i) = at + x + i
    BY <1>3, <1>5
  <2> QED BY <1>3, <2>2, <2>3
<1>7. at + x + Len(t) <= Len(b) /\ at + x \in Nat /\ at + y = at + x + Len(t)
  BY <1>3, <1>5
<1>8. Shows(b, at + x, t)
  BY <1>6, <1>7 DEF Shows
<1> QED BY <1>7, <1>8 DEF x, y, t

(* What EncodeCapabilities puts one behind the other.                      *)
CountedTexts(c) == [i \in DOMAIN c |-> Counted(c[i])]

LEMMA ListTypes ==
  ASSUME NEW c \in ShortLists
  PROVE  /\ Len(c) \in Nat /\ Len(c) % Byte = Len(c)
         /\ \A i \in 1 .. Len(c) : c[i] \in ShortTexts /\ CountedTexts(c)[i] = Counted(c[i])
         /\ AreTexts(CountedTexts(c)) /\ Len(CountedTexts(c)) = Len(c)
         /\ DOMAIN c = 1 .. Len(c) /\ c = [i \in 1 .. Len(c) |-> c[i]]
<1>1. c \in Seq(ShortTexts) /\ Len(c) \in Nat /\ Len(c) < Byte /\ Byte \in Nat
  BY ByteAssumption DEF ShortLists
<1>2. Len(c) % Byte = Len(c)
  <2> DEFINE x == Len(c)
  <2>1. x \in Nat /\ x < Byte
    BY <1>1
  <2> HIDE DEF x
  <2>2. x % Byte = x
    BY <1>1, <2>1, NoDivision, Zenon
  <2> QED BY <2>2 DEF x
<1>3. \A i \in 1 .. Len(c) : c[i] \in ShortTexts
  BY <1>1
<1>4. DOMAIN c = 1 .. Len(c) /\ c = [i \in 1 .. Len(c) |-> c[i]]
  BY <1>1
<1>5. ASSUME NEW s \in ShortTexts PROVE Counted(s) \in Seq(Nat)
  <2> DEFINE x == Len(s) % Byte
  <2>1. s \in Seq(Nat) /\ x \in Nat
    <3>1. s \in Seq(Nat) /\ Len(s) \in Nat
      BY DEF ShortTexts
    <3>2. Byte \in Nat \ {0}
      BY ByteAssumption
    <3> QED BY <3>1, <3>2, Division, Zenon
  <2> HIDE DEF x
  <2>2. <<x>> \o s \in Seq(Nat)
    BY <2>1
  <2> QED BY <2>2 DEF Counted, x
<1>6. CountedTexts(c) = [i \in 1 .. Len(c) |-> Counted(c[i])]
  BY <1>4 DEF CountedTexts
<1>7. \A i \in 1 .. Len(c) : Counted(c[i]) \in Seq(Nat)
  BY <1>3, <1>5
<1>8. AreTexts(CountedTexts(c)) /\ Len(CountedTexts(c)) = Len(c)
  <2> DEFINE n == Len(c)
             W(i) == Counted(c[i])
  <2>1. n \in Nat /\ (\A i \in 1 .. n : W(i) \in Seq(Nat)) /\ CountedTexts(c) = [i \in 1 .. n |-> W(i)]
    BY <1>1, <1>6, <1>7
  <2> HIDE DEF n, W
  <2>2. CountedTexts(c) \in [1 .. n -> Seq(Nat)]
    BY <2>1
  <2>3. CountedTexts(c) \in Seq(Seq(Nat)) /\ Len(CountedTexts(c)) = n
    BY <2>1, <2>2
  <2> QED BY <2>3 DEF AreTexts, n
<1> QED BY <1>1, <1>2, <1>3, <1>4, <1>6, <1>8

ShowsList(b, at, c, r) ==
  /\ b[at + 1] = Len(c) /\ DecodeCapabilities(b, at) = c
  /\ Offsets(b, at)[b[at + 1]] = at + Len(r)

(* A list of capabilities is read, and its end is found.                   *)
LEMMA ListShown ==
  ASSUME NEW b \in Seq(Nat), NEW at \in Nat, NEW c \in ShortLists,
         NEW r, r = EncodeCapabilities(c), Shows(b, at, r)
  PROVE  ShowsList(b, at, c, r)
<1> DEFINE n == Len(c)
           e == CountedTexts(c)
           s == FlattenSeq(e)
<1>1. n \in Nat /\ Len(e) = n /\ AreTexts(e) /\ n % Byte = n
  BY ListTypes
<1>2. s \in Seq(Nat)
  BY <1>1, Concatenation
<1>3. PICK o : Places(o, e)
  BY <1>1, Concatenation
<1>4. r = <<n>> \o s
  BY <1>1 DEF EncodeCapabilities, CountedTexts
<1>5. \A i \in 1 .. n : c[i] \in ShortTexts /\ e[i] = Counted(c[i])
  BY ListTypes
<1>6. c = [i \in 1 .. n |-> c[i]]
  BY ListTypes
<1> HIDE DEF n, e
<1>7. Len(<<n>> \o s) = 1 + Len(s) /\ <<n>> \in Seq(Nat) /\ Len(<<n>>) = 1
  BY <1>1, <1>2
<1>8. Shows(b, at, <<n>>) /\ Shows(b, at + 1, s)
  <2>2. ShowsBoth(b, at, <<n>>, s, r)
    BY <1>2, <1>4, <1>7, ShowsParts, Zenon
  <2> QED BY <1>7, <2>2 DEF ShowsBoth
<1>9. b[at + 1] = n
  BY <1>1, <1>7, <1>8 DEF Shows
<1>10. at + 1 \in Nat
  OBVIOUS
<1>11. ASSUME NEW i \in 1 .. n
       PROVE  /\ at + 1 + o[i - 1] \in Nat /\ Text(b, at + 1 + o[i - 1]) = c[i]
              /\ After(b, at + 1 + o[i - 1]) = at + 1 + o[i]
  <2> DEFINE x == at + 1 + o[i - 1]
  <2>1. Shows(b, x, e[i]) /\ x \in Nat /\ at + 1 + o[i] = x + Len(e[i])
    <3>1. i \in 1 .. Len(e) /\ Shows(b, at + 1, FlattenSeq(e))
      BY <1>1, <1>8
    <3>2. AreTexts(e) /\ Places(o, e) /\ at + 1 \in Nat
      BY <1>1, <1>3, <1>10
    <3> HIDE DEF s
    <3>3. Shows(b, at + 1 + o[i - 1], e[i])
      BY <3>1, <3>2, PlacesShown, Zenon
    <3>4. at + 1 + o[i - 1] \in Nat
      BY <3>1, <3>2, PlacesShown, Zenon
    <3>5. at + 1 + o[i] = at + 1 + o[i - 1] + Len(e[i])
      <4> DEFINE y == o[i - 1]
                 z == o[i]
                 w == Len(e[i])
      <4>1. y \in Nat /\ w \in Nat /\ z = y + w
        <5>1. i - 1 \in 0 .. Len(e)
          BY <1>1, <3>1
        <5> QED BY <3>1, <3>2, <5>1, TextsTypes DEF Places
      <4> HIDE DEF y, z, w
      <4>2. at + 1 + z = at + 1 + y + w
        BY <4>1
      <4> QED BY <4>2 DEF y, z, w
    <3> QED BY <3>3, <3>4, <3>5
  <2> HIDE DEF x
  <2>2. Text(b, x) = c[i] /\ After(b, x) = x + Len(e[i])
    <3>1. c[i] \in ShortTexts /\ e[i] = Counted(c[i])
      BY <1>5
    <3>2. ShowsText(b, x, c[i], e[i])
      BY <2>1, <3>1, TextShown, Zenon
    <3> QED BY <3>2, Zenon DEF ShowsText
  <2> QED BY <2>1, <2>2 DEF x
<1> DEFINE Defines(f) == f = [i \in 0 .. b[at + 1] |-> IF i = 0 THEN at + 1 ELSE After(b, f[i - 1])]
           h == [i \in 0 .. n |-> at + 1 + o[i]]
           begin == Offsets(b, at)
<1>12. begin = CHOOSE f : Defines(f)
  BY DEF Offsets
<1>13. Defines(h)
  <2>1. \A i \in 0 .. n : h[i] = at + 1 + o[i]
    OBVIOUS
  <2> HIDE DEF h
  <2>2. h[0] = at + 1 /\ o[0] = 0
    <3>1. o[0] = 0 /\ 0 \in 0 .. n
      BY <1>1, <1>3 DEF Places
    <3> QED BY <2>1, <3>1
  <2>3. ASSUME NEW i \in 0 .. n, i # 0 PROVE h[i] = After(b, h[i - 1])
    <3>1. i \in 1 .. n /\ i - 1 \in 0 .. n
      BY <1>1, <2>3
    <3> QED BY <1>11, <2>1, <3>1
  <2>4. ASSUME NEW i \in 0 .. n
        PROVE  at + 1 + o[i] = IF i = 0 THEN at + 1 ELSE After(b, h[i - 1])
    BY <2>1, <2>2, <2>3
  <2>5. h = [i \in 0 .. n |-> IF i = 0 THEN at + 1 ELSE After(b, h[i - 1])]
    BY <2>4 DEF h
  <2> QED BY <1>9, <2>5
<1>14. Defines(begin)
  <2> HIDE DEF Defines, h, begin
  <2> QED BY <1>12, <1>13
<1>15. \A i \in 0 .. n : begin[i] = IF i = 0 THEN at + 1 ELSE After(b, begin[i - 1])
  BY <1>9, <1>14
<1> HIDE DEF begin, h, Defines
<1> DEFINE S == {m \in Nat : m <= n => begin[m] = at + 1 + o[m]}
<1>16. S = Nat
  <2>1. 0 \in S
    <3>1. o[0] = 0 /\ 0 \in 0 .. n
      BY <1>1, <1>3 DEF Places
    <3>2. begin[0] = at + 1
      BY <1>15, <3>1
    <3> QED BY <3>1, <3>2
  <2>2. ASSUME NEW m \in S PROVE m + 1 \in S
    <3> SUFFICES ASSUME m + 1 <= n PROVE begin[m + 1] = at + 1 + o[m + 1]
      OBVIOUS
    <3> DEFINE i == m + 1
    <3>1. m \in Nat /\ i \in 0 .. n /\ i \in 1 .. n /\ i # 0 /\ i - 1 = m /\ begin[m] = at + 1 + o[m]
      BY <1>1
    <3> HIDE DEF i
    <3>2. begin[i] = After(b, begin[m])
      BY <1>15, <3>1
    <3>3. After(b, at + 1 + o[m]) = at + 1 + o[i]
      BY <1>11, <3>1
    <3>4. begin[i] = at + 1 + o[i]
      BY <3>1, <3>2, <3>3
    <3> QED BY <3>4 DEF i
  <2>3. S \subseteq Nat
    OBVIOUS
  <2> HIDE DEF S
  <2> QED BY <2>1, <2>2, <2>3, SetInduction
<1>17. \A i \in 0 .. n : begin[i] = at + 1 + o[i]
  BY <1>1, <1>16
<1> HIDE DEF S
<1>18. begin[n] = at + Len(r)
  <2> DEFINE x == Len(s)
  <2>1. o[n] = x /\ x \in Nat /\ n \in 0 .. n
    BY <1>1, <1>2, <1>3 DEF Places
  <2>2. begin[n] = at + 1 + o[n]
    BY <1>17, <2>1
  <2>3. Len(r) = 1 + x
    BY <1>4, <1>7
  <2> HIDE DEF x
  <2>4. at + 1 + x = at + (1 + x)
    BY <2>1
  <2> QED BY <2>1, <2>2, <2>3, <2>4
<1>19. DecodeCapabilities(b, at) = c
  <2>1. DecodeCapabilities(b, at) = [i \in 1 .. n |-> Text(b, begin[i - 1])]
    BY <1>9 DEF DecodeCapabilities, begin
  <2>2. ASSUME NEW i \in 1 .. n PROVE Text(b, begin[i - 1]) = c[i]
    <3>1. i - 1 \in 0 .. n
      BY <1>1
    <3> QED BY <1>11, <1>17, <3>1
  <2> QED BY <1>6, <2>1, <2>2
<1> QED BY <1>9, <1>18, <1>19 DEF begin, n, ShowsList

LEMMA CountedType ==
  ASSUME NEW s \in ShortTexts
  PROVE  Counted(s) \in Seq(Nat) /\ Len(Counted(s)) = 1 + Len(s) /\ Len(s) \in Nat
<1>1. s \in Seq(Nat) /\ Len(s) \in Nat
  BY DEF ShortTexts
<1> DEFINE x == Len(s) % Byte
<1>2. x \in Nat
  <2>1. Byte \in Nat \ {0}
    BY ByteAssumption
  <2> QED BY <1>1, <2>1, Division, Zenon
<1>3. Counted(s) = <<x>> \o s
  BY DEF Counted
<1> HIDE DEF x
<1> QED BY <1>1, <1>2, <1>3

LEMMA EncodeCapabilitiesType ==
  ASSUME NEW c \in ShortLists PROVE EncodeCapabilities(c) \in Seq(Nat)
<1> DEFINE n == Len(c)
           s == FlattenSeq(CountedTexts(c))
<1>1. n \in Nat /\ n % Byte = n /\ s \in Seq(Nat)
  BY ListTypes, Concatenation
<1>2. EncodeCapabilities(c) = <<n>> \o s
  BY <1>1 DEF EncodeCapabilities, CountedTexts
<1> HIDE DEF n, s
<1> QED BY <1>1, <1>2

------------------------------------------------------------------------------
(* The payload of a frame: its type and its fields                         *)

LEMMA PayloadShown ==
  ASSUME NEW t \in Nat, NEW s \in Seq(Nat), NEW b, b = <<t>> \o s
  PROVE  b \in Seq(Nat) /\ b[1] = t /\ Shows(b, 1, s) /\ Len(b) = 1 + Len(s)
<1>1. b \in Seq(Nat) /\ b[1] = t /\ Len(b) = 1 + Len(s)
  OBVIOUS
<1>2. <<t>> \in Seq(Nat) /\ Len(<<t>>) = 1 /\ 0 \in Nat /\ 0 + 1 = 1
  OBVIOUS
<1>3. Shows(b, 0, <<t>> \o s)
  BY <1>1, ShowsAll, Zenon
<1>4. ShowsBoth(b, 0, <<t>>, s, b)
  BY <1>1, <1>2, <1>3, ShowsParts, Zenon
<1> QED BY <1>1, <1>2, <1>4 DEF ShowsBoth

LEMMA FieldsByType ==
  ASSUME NEW f
  PROVE  /\ f.type = CONNECT => Fields(f) = EncodeConnect(f)
         /\ f.type = DATA => Fields(f) = EncodeData(f)
         /\ f.type \in {CLOSE, CONNECT_OK, CONNECT_FAILED} => Fields(f) = Uint16(f.reqid)
         /\ f.type \in {PING, PONG, PADDING} => Fields(f) = f.data
         /\ f.type \in {AUTH_OK, AUTH_FAIL} => Fields(f) = <<>>
         /\ f.type = AUTH => Fields(f) = EncodeAuth(f)
         /\ f.type = CAPABILITIES => Fields(f) = EncodeCapabilities(f.capabilities)
         /\ f.type = ERROR => Fields(f) = Counted(f.message)
  BY DEF Fields, CONNECT, DATA, CLOSE, CONNECT_OK, PING, PONG, AUTH, AUTH_OK, AUTH_FAIL, ERROR,
         CAPABILITIES, PADDING, CONNECT_FAILED

LEMMA DecodeByType ==
  ASSUME NEW b, NEW t, b[1] = t
  PROVE  /\ t = CONNECT => DecodePayload(b) = DecodeConnect(b)
         /\ t = DATA => DecodePayload(b) = [type |-> DATA, reqid |-> Number16(b, 1), data |-> Rest(b, 3)]
         /\ t \in {CLOSE, CONNECT_OK, CONNECT_FAILED} =>
              DecodePayload(b) = [type |-> t, reqid |-> Number16(b, 1)]
         /\ t \in {PING, PONG, PADDING} => DecodePayload(b) = [type |-> t, data |-> Rest(b, 1)]
         /\ t \in {AUTH_OK, AUTH_FAIL} => DecodePayload(b) = [type |-> t]
         /\ t = AUTH => DecodePayload(b) = DecodeAuth(b)
         /\ t = CAPABILITIES =>
              DecodePayload(b) = [type |-> t, capabilities |-> DecodeCapabilities(b, 1)]
         /\ t = ERROR => DecodePayload(b) = [type |-> t, message |-> Text(b, 1)]
  BY DEF DecodePayload, CONNECT, DATA, CLOSE, CONNECT_OK, PING, PONG, AUTH, AUTH_OK, AUTH_FAIL, ERROR,
         CAPABILITIES, PADDING, CONNECT_FAILED

(* Each kind of frame is decoded to what was encoded.                      *)
LEMMA DecodeRequest ==
  ASSUME NEW f \in RequestFrames, NEW b, b = <<f.type>> \o Fields(f)
  PROVE  Fields(f) \in Seq(Nat) /\ DecodePayload(b) = f
<1> DEFINE n == f.reqid
           t == f.type
<1>1. n \in Nat /\ t \in {CLOSE, CONNECT_OK, CONNECT_FAILED} /\ f = [type |-> t, reqid |-> n]
  BY ByteAssumption DEF RequestFrames, Numbers16, MaxFramePayload
<1>2. Fields(f) = Uint16(n)
  BY <1>1, FieldsByType
<1> HIDE DEF n, t
<1>3. t \in Nat
  BY <1>1 DEF CLOSE, CONNECT_OK, CONNECT_FAILED
<1>4. b = <<t>> \o Uint16(n)
  BY <1>2 DEF t
<1>5. b \in Seq(Nat) /\ b[1] = t /\ Shows(b, 1, Uint16(n))
  BY <1>1, <1>3, <1>4, Uint16Type, PayloadShown
<1>6. Number16(b, 1) = n
  BY <1>1, <1>5, Number16Shown
<1>7. DecodePayload(b) = [type |-> t, reqid |-> Number16(b, 1)]
  BY <1>1, <1>5, DecodeByType
<1> QED BY <1>1, <1>2, <1>5, <1>6, <1>7, Uint16Type

LEMMA DecodeDataFrame ==
  ASSUME NEW f \in DataFrames, NEW b, b = <<f.type>> \o Fields(f)
  PROVE  Fields(f) \in Seq(Nat) /\ DecodePayload(b) = f
<1> DEFINE n == f.reqid
           d == f.data
<1>1. n \in Nat /\ d \in Seq(Nat) /\ f.type = DATA /\ f = [type |-> DATA, reqid |-> n, data |-> d]
  BY ByteAssumption DEF DataFrames, Numbers16, MaxFramePayload
<1>2. Fields(f) = Uint16(n) \o d
  BY <1>1, FieldsByType DEF EncodeData
<1> HIDE DEF n, d
<1>3. DATA \in Nat
  BY DEF DATA
<1>4. b = <<DATA>> \o (Uint16(n) \o d)
  BY <1>1, <1>2
<1>5. Uint16(n) \in Seq(Nat) /\ Len(Uint16(n)) = 2
  BY <1>1, Uint16Type
<1> DEFINE s == Uint16(n) \o d
<1>6. s \in Seq(Nat) /\ Len(s) = 2 + Len(d) /\ Len(d) \in Nat
  <2>1. s \in Seq(Nat) /\ Len(s) = Len(Uint16(n)) + Len(d) /\ Len(d) \in Nat
    BY <1>1, <1>5, Concat, Zenon
  <2> HIDE DEF s
  <2> QED BY <1>5, <2>1
<1>7. b \in Seq(Nat) /\ b[1] = DATA /\ Shows(b, 1, s) /\ Len(b) = 1 + Len(s)
  BY <1>3, <1>4, <1>6, PayloadShown, Zenon
<1>8. Shows(b, 1, Uint16(n)) /\ Shows(b, 1 + Len(Uint16(n)), d)
  <2>1. 1 \in Nat
    OBVIOUS
  <2>2. ShowsBoth(b, 1, Uint16(n), d, s)
    BY <1>1, <1>5, <1>7, <2>1, ShowsParts, Zenon
  <2> QED BY <2>2 DEF ShowsBoth
<1> HIDE DEF s
<1>9. Shows(b, 3, d) /\ 3 + Len(d) = Len(b)
  BY <1>5, <1>6, <1>7, <1>8
<1>10. Rest(b, 3) = d
  BY <1>1, <1>7, <1>9, ShowsSlice
<1>11. Number16(b, 1) = n
  BY <1>1, <1>7, <1>8, Number16Shown
<1>12. DecodePayload(b) = [type |-> DATA, reqid |-> Number16(b, 1), data |-> Rest(b, 3)]
  BY <1>7, DecodeByType
<1> QED BY <1>1, <1>2, <1>6, <1>10, <1>11, <1>12 DEF s

LEMMA DecodeOpaque ==
  ASSUME NEW f \in OpaqueFrames \cup EmptyFrames, NEW b, b = <<f.type>> \o Fields(f)
  PROVE  Fields(f) \in Seq(Nat) /\ DecodePayload(b) = f
<1> DEFINE t == f.type
<1>1. CASE f \in OpaqueFrames
  <2> DEFINE d == f.data
  <2>1. /\ t \in {PING, PONG, PADDING} /\ d \in Seq(Nat) /\ f = [type |-> t, data |-> d]
    BY <1>1 DEF OpaqueFrames
  <2>2. Fields(f) = d
    BY <2>1, FieldsByType
  <2> HIDE DEF t, d
  <2>3. t \in Nat
    BY <2>1 DEF PING, PONG, PADDING
  <2>4. b = <<t>> \o d
    BY <2>2 DEF t
  <2>5. b \in Seq(Nat) /\ b[1] = t /\ Shows(b, 1, d) /\ Len(b) = 1 + Len(d)
    BY <2>1, <2>3, <2>4, PayloadShown, Zenon
  <2>6. Rest(b, 1) = d
    <3>1. 1 \in Nat /\ 1 + Len(d) = Len(b)
      BY <2>5
    <3> QED BY <2>1, <2>5, <3>1, ShowsSlice, Zenon
  <2>7. DecodePayload(b) = [type |-> t, data |-> Rest(b, 1)]
    BY <2>1, <2>5, DecodeByType
  <2> QED BY <2>1, <2>2, <2>6, <2>7
<1>2. CASE f \in EmptyFrames
  <2>1. t \in {AUTH_OK, AUTH_FAIL} /\ f = [type |-> t]
    BY <1>2 DEF EmptyFrames
  <2>2. Fields(f) = <<>>
    BY <2>1, FieldsByType
  <2> HIDE DEF t
  <2>3. t \in Nat
    BY <2>1 DEF AUTH_OK, AUTH_FAIL
  <2>4. b = <<t>> \o <<>>
    BY <2>2 DEF t
  <2>5. b[1] = t
    BY <2>3, <2>4
  <2>6. DecodePayload(b) = [type |-> t]
    BY <2>1, <2>5, DecodeByType
  <2> QED BY <2>1, <2>2, <2>6
<1> QED BY <1>1, <1>2

LEMMA DecodeText ==
  ASSUME NEW f \in ErrorFrames \cup ListFrames, NEW b, b = <<f.type>> \o Fields(f)
  PROVE  Fields(f) \in Seq(Nat) /\ DecodePayload(b) = f
<1>1. CASE f \in ErrorFrames
  <2> DEFINE s == f.message
  <2>1. s \in ShortTexts /\ f.type = ERROR /\ f = [type |-> ERROR, message |-> s]
    BY <1>1 DEF ErrorFrames
  <2>2. Fields(f) = Counted(s)
    BY <2>1, FieldsByType
  <2> HIDE DEF s
  <2>3. ERROR \in Nat /\ Counted(s) \in Seq(Nat) /\ 1 \in Nat
    BY <2>1, CountedType DEF ERROR
  <2>4. b = <<ERROR>> \o Counted(s)
    BY <2>1, <2>2
  <2>5. b \in Seq(Nat) /\ b[1] = ERROR /\ Shows(b, 1, Counted(s))
    BY <2>3, <2>4, PayloadShown, Zenon
  <2>6. Text(b, 1) = s
    <3>1. ShowsText(b, 1, s, Counted(s))
      BY <2>1, <2>3, <2>5, TextShown, Zenon
    <3> QED BY <3>1 DEF ShowsText
  <2>7. DecodePayload(b) = [type |-> ERROR, message |-> Text(b, 1)]
    BY <2>5, DecodeByType
  <2> QED BY <2>1, <2>2, <2>3, <2>6, <2>7
<1>2. CASE f \in ListFrames
  <2> DEFINE c == f.capabilities
  <2>1. c \in ShortLists /\ f.type = CAPABILITIES /\ f = [type |-> CAPABILITIES, capabilities |-> c]
    BY <1>2 DEF ListFrames
  <2>2. Fields(f) = EncodeCapabilities(c)
    BY <2>1, FieldsByType
  <2> HIDE DEF c
  <2>3. CAPABILITIES \in Nat /\ EncodeCapabilities(c) \in Seq(Nat) /\ 1 \in Nat
    BY <2>1, EncodeCapabilitiesType DEF CAPABILITIES
  <2>4. b = <<CAPABILITIES>> \o EncodeCapabilities(c)
    BY <2>1, <2>2
  <2>5. b \in Seq(Nat) /\ b[1] = CAPABILITIES /\ Shows(b, 1, EncodeCapabilities(c))
    BY <2>3, <2>4, PayloadShown, Zenon
  <2>6. DecodeCapabilities(b, 1) = c
    <3>1. ShowsList(b, 1, c, EncodeCapabilities(c))
      BY <2>1, <2>3, <2>5, ListShown, Zenon
    <3> QED BY <3>1 DEF ShowsList
  <2>7. DecodePayload(b) = [type |-> CAPABILITIES, capabilities |-> DecodeCapabilities(b, 1)]
    BY <2>5, DecodeByType
  <2> QED BY <2>1, <2>2, <2>3, <2>6, <2>7
<1> QED BY <1>1, <1>2

LEMMA DecodeAuthFrame ==
  ASSUME NEW f \in AuthFrames, NEW b, b = <<f.type>> \o Fields(f)
  PROVE  Fields(f) \in Seq(Nat) /\ DecodePayload(b) = f
<1> DEFINE u == f.username
           p == f.password
           c == f.capabilities
           i == f.clientId
           A == Counted(u)
           P == Counted(p)
           C == EncodeCapabilities(c)
           I == IF i = <<>> THEN <<>> ELSE Counted(i)
           s == A \o P \o C \o I
<1>1. /\ u \in ShortTexts /\ p \in ShortTexts /\ c \in ShortLists /\ i \in ShortTexts
      /\ f.type = AUTH
      /\ f = [type |-> AUTH, username |-> u, password |-> p, capabilities |-> c, clientId |-> i]
  BY DEF AuthFrames
<1>2. Fields(f) = s
  BY <1>1, FieldsByType DEF EncodeAuth
<1> HIDE DEF u, p, c, i
<1>3. A \in Seq(Nat) /\ P \in Seq(Nat) /\ C \in Seq(Nat) /\ AUTH \in Nat
  BY <1>1, CountedType, EncodeCapabilitiesType DEF AUTH
<1>4. I \in Seq(Nat) /\ (i # <<>> => Len(I) > 0 /\ I = Counted(i)) /\ (i = <<>> => I = <<>>)
  <2>1. CASE i = <<>>
    BY <2>1
  <2>2. CASE i # <<>>
    <3>1. Counted(i) \in Seq(Nat) /\ Len(Counted(i)) = 1 + Len(i) /\ Len(i) \in Nat
      BY <1>1, CountedType
    <3> QED BY <2>2, <3>1
  <2> QED BY <2>1, <2>2
<1> HIDE DEF I
<1> DEFINE AP == A \o P
           APC == AP \o C
<1>5. AP \in Seq(Nat) /\ APC \in Seq(Nat) /\ s \in Seq(Nat)
  BY <1>3, <1>4, Concat, Zenon
<1> USE DEF AP, APC
<1>6. b \in Seq(Nat) /\ b[1] = AUTH /\ Shows(b, 1, s) /\ Len(b) = 1 + Len(s)
  <2>1. b = <<AUTH>> \o s
    BY <1>1, <1>2
  <2> HIDE DEF s
  <2> QED BY <1>3, <1>5, <2>1, PayloadShown, Zenon
<1> HIDE DEF A, P, C
<1> DEFINE x2 == 1 + Len(A)
           x3 == x2 + Len(P)
           x4 == x3 + Len(C)
<1>7. ShowsBoth(b, 1, APC, I, s)
  <2>1. 1 \in Nat /\ s = APC \o I
    OBVIOUS
  <2> HIDE DEF s, APC
  <2> QED BY <1>4, <1>5, <1>6, <2>1, ShowsParts, Zenon
<1>8. ShowsBoth(b, 1, AP, C, APC)
  <2>1. 1 \in Nat /\ APC = AP \o C
    OBVIOUS
  <2> HIDE DEF APC, AP
  <2>2. Shows(b, 1, APC)
    BY <1>7 DEF ShowsBoth
  <2> QED BY <1>3, <1>5, <1>6, <2>1, <2>2, ShowsParts, Zenon
<1>9. ShowsBoth(b, 1, A, P, AP)
  <2>1. 1 \in Nat /\ AP = A \o P
    OBVIOUS
  <2> HIDE DEF AP
  <2>2. Shows(b, 1, AP)
    BY <1>8 DEF ShowsBoth
  <2> QED BY <1>3, <1>6, <2>1, <2>2, ShowsParts, Zenon
<1>10. 1 \in Nat /\ x2 \in Nat /\ x3 \in Nat /\ x4 \in Nat /\ Len(I) \in Nat
  <2>1. Len(A) \in Nat /\ Len(P) \in Nat /\ Len(C) \in Nat /\ Len(I) \in Nat
    BY <1>3, <1>4
  <2> QED BY <2>1
<1> HIDE DEF s, AP, APC
<1>11. /\ Shows(b, 1, A) /\ Shows(b, x2, P) /\ Shows(b, x3, C) /\ Shows(b, x4, I)
       /\ Len(b) = x4 + Len(I)
  <2>1. Shows(b, 1, A) /\ Shows(b, x2, P)
    BY <1>9 DEF ShowsBoth
  <2>2. 1 + Len(AP) = x3
    BY <1>9, <1>10 DEF ShowsBoth
  <2>3. Shows(b, x3, C)
    BY <1>8, <2>2 DEF ShowsBoth
  <2>4. 1 + Len(APC) = x4 /\ Len(APC) \in Nat
    BY <1>8, <1>10, <2>2 DEF ShowsBoth
  <2>5. Shows(b, x4, I)
    BY <1>7, <2>4 DEF ShowsBoth
  <2>6. Len(b) = x4 + Len(I)
    BY <1>6, <1>7, <1>10, <2>4 DEF ShowsBoth
  <2> QED BY <2>1, <2>3, <2>5, <2>6
<1>12. ShowsText(b, 1, u, A)
  <2>1. A = Counted(u)
    BY DEF A
  <2> HIDE DEF x2, x3, x4
  <2> QED BY <1>1, <1>6, <1>10, <1>11, <2>1, TextShown, Zenon
<1>13. ShowsText(b, x2, p, P)
  <2>1. P = Counted(p)
    BY DEF P
  <2> HIDE DEF x2, x3, x4
  <2> QED BY <1>1, <1>6, <1>10, <1>11, <2>1, TextShown, Zenon
<1>14. ShowsList(b, x3, c, C)
  <2>1. C = EncodeCapabilities(c)
    BY DEF C
  <2> HIDE DEF x2, x3, x4
  <2> QED BY <1>1, <1>6, <1>10, <1>11, <2>1, ListShown, Zenon
<1>18. /\ Text(b, 1) = u /\ After(b, 1) = x2 /\ Text(b, x2) = p /\ After(b, x2) = x3
       /\ DecodeCapabilities(b, x3) = c /\ Offsets(b, x3)[b[x3 + 1]] = x4
  BY <1>12, <1>13, <1>14 DEF ShowsText, ShowsList
<1> HIDE DEF x2, x3, x4
<1>15. i = IF x4 < Len(b) THEN Text(b, x4) ELSE <<>>
  <2>1. CASE i = <<>>
    <3>1. Len(I) = 0
      BY <1>4, <2>1
    <3>2. ~(x4 < Len(b))
      BY <1>10, <1>11, <3>1
    <3> QED BY <2>1, <3>2
  <2>2. CASE i # <<>>
    <3>1. x4 < Len(b)
      BY <1>4, <1>10, <1>11, <2>2
    <3>2. Shows(b, x4, Counted(i))
      BY <1>4, <1>11, <2>2
    <3>3. ShowsText(b, x4, i, Counted(i))
      BY <1>1, <1>6, <1>10, <3>2, TextShown, Zenon
    <3> QED BY <3>1, <3>3 DEF ShowsText
  <2> QED BY <2>1, <2>2
<1>16. DecodePayload(b) = DecodeAuth(b)
  BY <1>6, DecodeByType
<1>17. DecodeAuth(b) = [type |-> AUTH, username |-> u, password |-> p, capabilities |-> c, clientId |-> i]
  BY <1>18, <1>15 DEF DecodeAuth
<1> QED BY <1>1, <1>2, <1>5, <1>16, <1>17

IsAddress(t, a) ==
  \/ t = IPV4 /\ a \in [1 .. 4 -> Nat]
  \/ t = DOMAIN_NAME /\ a \in ShortTexts
  \/ t = IPV6 /\ a \in [1 .. 16 -> Nat]

LEMMA OfLength ==
  ASSUME NEW n \in Nat, NEW a \in [1 .. n -> Nat] PROVE a \in Seq(Nat) /\ Len(a) = n
  OBVIOUS

LEMMA AddressTypes ==
  ASSUME NEW t, NEW a, IsAddress(t, a), NEW s, s = IF t = DOMAIN_NAME THEN Counted(a) ELSE a
  PROVE  /\ t \in Nat /\ s \in Seq(Nat)
         /\ t = DOMAIN_NAME => a \in ShortTexts /\ s = Counted(a)
         /\ t # DOMAIN_NAME => s = a /\ ((t = IPV4 /\ Len(s) = 4) \/ (t = IPV6 /\ Len(s) = 16))
<1>1. CASE t = DOMAIN_NAME
  <2>1. a \in ShortTexts
    BY <1>1 DEF IsAddress, DOMAIN_NAME, IPV4, IPV6
  <2> QED BY <1>1, <2>1, CountedType DEF DOMAIN_NAME
<1>2. CASE t = IPV4 /\ a \in [1 .. 4 -> Nat]
  <2>1. s = a
    BY <1>2 DEF DOMAIN_NAME, IPV4
  <2>2. a \in Seq(Nat) /\ Len(a) = 4
    <3>1. 4 \in Nat
      OBVIOUS
    <3> QED BY <1>2, <3>1, OfLength, Zenon
  <2> QED BY <1>2, <2>1, <2>2 DEF DOMAIN_NAME, IPV4
<1>3. CASE t = IPV6 /\ a \in [1 .. 16 -> Nat]
  <2>1. s = a
    BY <1>3 DEF DOMAIN_NAME, IPV6
  <2>2. a \in Seq(Nat) /\ Len(a) = 16
    <3>1. 16 \in Nat
      OBVIOUS
    <3> QED BY <1>3, <3>1, OfLength, Zenon
  <2> QED BY <1>3, <2>1, <2>2 DEF DOMAIN_NAME, IPV6
<1> QED BY <1>1, <1>2, <1>3 DEF IsAddress

LEMMA LengthByType ==
  ASSUME NEW b, NEW at, NEW t, b[at + 1] = t
  PROVE  /\ t = DOMAIN_NAME => AddressLength(b, at) = 2 + b[at + 2]
         /\ t = IPV4 => AddressLength(b, at) = 5
         /\ t = IPV6 => AddressLength(b, at) = 17
  BY DEF AddressLength, DOMAIN_NAME, IPV4, IPV6

LEMMA EncodeAddressType ==
  ASSUME NEW t, NEW a, IsAddress(t, a) PROVE EncodeAddress(t, a) \in Seq(Nat)
<1> DEFINE s == IF t = DOMAIN_NAME THEN Counted(a) ELSE a
<1>1. t \in Nat /\ s \in Seq(Nat)
  BY AddressTypes, Zenon
<1>2. EncodeAddress(t, a) = <<t>> \o s
  BY DEF EncodeAddress
<1> HIDE DEF s
<1> QED BY <1>1, <1>2

ShowsAddress(b, at, t, a, m) ==
  /\ b[at + 1] = t /\ AddressLength(b, at) = m
  /\ t = DOMAIN_NAME => Slice(b, at + 2, m - 2) = a
  /\ t # DOMAIN_NAME => Slice(b, at + 1, m - 1) = a

(* The address of a CONNECT, whose length is found by its type.            *)
LEMMA AddressShown ==
  ASSUME NEW b \in Seq(Nat), NEW at \in Nat, NEW t, NEW a, IsAddress(t, a),
         NEW r, r = EncodeAddress(t, a), Shows(b, at, r), NEW m, m = Len(r)
  PROVE  ShowsAddress(b, at, t, a, m)
<1> DEFINE s == IF t = DOMAIN_NAME THEN Counted(a) ELSE a
           n == Len(s)
<1>1. /\ t \in Nat /\ s \in Seq(Nat)
      /\ t = DOMAIN_NAME => a \in ShortTexts /\ s = Counted(a)
      /\ t # DOMAIN_NAME => s = a /\ ((t = IPV4 /\ n = 4) \/ (t = IPV6 /\ n = 16))
  BY AddressTypes, Zenon
<1>4. r = <<t>> \o s
  BY DEF EncodeAddress
<1> HIDE DEF s
<1>5. n \in Nat
  BY <1>1
<1>6. Len(r) = 1 + n /\ r \in Seq(Nat) /\ <<t>> \in Seq(Nat) /\ Len(<<t>>) = 1 /\ <<t>>[1] = t
  BY <1>1, <1>4
<1>7. Shows(b, at, <<t>>) /\ Shows(b, at + 1, s)
  <2>1. ShowsBoth(b, at, <<t>>, s, r)
    BY <1>1, <1>4, <1>6, ShowsParts, Zenon
  <2> QED BY <1>6, <2>1 DEF ShowsBoth
<1>8. b[at + 1] = t
  BY <1>6, <1>7 DEF Shows
<1>9. CASE t = DOMAIN_NAME
  <2>1. b[at + 1 + 1] = Len(a) /\ Shows(b, at + 1 + 1, a)
    <3>1. at + 1 \in Nat
      OBVIOUS
    <3>2. ShowsText(b, at + 1, a, s)
      BY <1>1, <1>7, <1>9, <3>1, TextShown, Zenon
    <3> QED BY <3>2 DEF ShowsText
  <2>2. at + 1 + 1 = at + 2
    OBVIOUS
  <2>3. b[at + 2] = Len(a) /\ Shows(b, at + 2, a)
    BY <2>1, <2>2
  <2>4. AddressLength(b, at) = 2 + b[at + 2]
    BY <1>8, <1>9, LengthByType
  <2>5. n = 1 + Len(a) /\ Len(a) \in Nat
    BY <1>1, <1>9, CountedType
  <2>6. AddressLength(b, at) = 1 + n /\ AddressLength(b, at) - 2 = Len(a)
    <3> DEFINE x == Len(a)
    <3>1. AddressLength(b, at) = 2 + x
      BY <2>3, <2>4
    <3> HIDE DEF x
    <3>2. x \in Nat /\ n = 1 + x
      BY <2>5 DEF x
    <3> HIDE DEF n
    <3>3. AddressLength(b, at) = 1 + n /\ AddressLength(b, at) - 2 = x
      BY <3>1, <3>2
    <3> QED BY <3>3 DEF x, n
  <2>7. Slice(b, at + 2, Len(a)) = a
    <3>1. a \in Seq(Nat) /\ at + 2 \in Nat
      BY <1>1, <1>9 DEF ShortTexts
    <3> QED BY <2>3, <3>1, ShowsSlice, Zenon
  <2>8. AddressLength(b, at) = m /\ m - 2 = Len(a)
    BY <1>6, <2>6
  <2> QED BY <1>8, <1>9, <2>7, <2>8 DEF ShowsAddress
<1>10. CASE t # DOMAIN_NAME
  <2>1. s = a
    BY <1>1, <1>10
  <2>2. AddressLength(b, at) = 1 + n
    <3> HIDE DEF n
    <3>1. (AddressLength(b, at) = 5 /\ n = 4) \/ (AddressLength(b, at) = 17 /\ n = 16)
      BY <1>1, <1>8, <1>10, LengthByType
    <3> QED BY <3>1
  <2>3. AddressLength(b, at) - 1 = n
    BY <1>5, <2>2
  <2>4. at + 1 \in Nat
    OBVIOUS
  <2>5. Slice(b, at + 1, n) = s
    BY <1>1, <1>7, <2>4, ShowsSlice, Zenon
  <2>6. AddressLength(b, at) = m /\ m - 1 = n
    BY <1>6, <2>2, <2>3
  <2> QED BY <1>8, <1>10, <2>1, <2>5, <2>6 DEF ShowsAddress
<1> QED BY <1>9, <1>10

LEMMA DecodeConnectFrame ==
  ASSUME NEW f \in ConnectFrames, NEW b, b = <<f.type>> \o Fields(f)
  PROVE  Fields(f) \in Seq(Nat) /\ DecodePayload(b) = f
<1> DEFINE n == f.reqid
           t == f.atyp
           a == f.addr
           p == f.port
           N == Uint16(n)
           R == EncodeAddress(t, a)
           P == Uint16(p)
           NR == N \o R
           s == NR \o P
<1>1. /\ n \in Nat /\ p \in Nat /\ IsAddress(t, a) /\ f.type = CONNECT
      /\ f = [type |-> CONNECT, reqid |-> n, atyp |-> t, addr |-> a, port |-> p]
  <2>1. n \in Numbers16 /\ p \in Numbers16 /\ f.type = CONNECT /\ IsAddress(t, a)
    BY DEF ConnectFrames, IsAddress
  <2>2. n \in Nat /\ p \in Nat
    BY <2>1, ByteAssumption DEF Numbers16, MaxFramePayload
  <2>3. f = [type |-> CONNECT, reqid |-> n, atyp |-> t, addr |-> a, port |-> p]
    BY DEF ConnectFrames
  <2> QED BY <2>1, <2>2, <2>3
<1>2. Fields(f) = s
  BY <1>1, FieldsByType DEF EncodeConnect
<1> HIDE DEF n, t, a, p
<1>3. N \in Seq(Nat) /\ P \in Seq(Nat) /\ Len(N) = 2 /\ CONNECT \in Nat
  BY <1>1, Uint16Type DEF CONNECT
<1>4. R \in Seq(Nat)
  BY <1>1, EncodeAddressType, Zenon
<1>5. NR \in Seq(Nat) /\ s \in Seq(Nat)
  BY <1>3, <1>4, Concat, Zenon
<1>6. b \in Seq(Nat) /\ b[1] = CONNECT /\ Shows(b, 1, s)
  <2>1. b = <<CONNECT>> \o s
    BY <1>1, <1>2
  <2> HIDE DEF s
  <2> QED BY <1>3, <1>5, <2>1, PayloadShown, Zenon
<1> HIDE DEF N, R, P
<1>7. ShowsBoth(b, 1, NR, P, s)
  <2>1. 1 \in Nat /\ s = NR \o P
    OBVIOUS
  <2> HIDE DEF s, NR
  <2> QED BY <1>3, <1>5, <1>6, <2>1, ShowsParts, Zenon
<1>8. ShowsBoth(b, 1, N, R, NR)
  <2>1. 1 \in Nat /\ NR = N \o R
    OBVIOUS
  <2> HIDE DEF NR
  <2>2. Shows(b, 1, NR)
    BY <1>7 DEF ShowsBoth
  <2> QED BY <1>3, <1>4, <1>6, <2>1, <2>2, ShowsParts, Zenon
<1> HIDE DEF s, NR
<1> DEFINE x == Len(R)
<1>9. Shows(b, 1, N) /\ Shows(b, 3, R) /\ x \in Nat /\ Shows(b, 3 + x, P)
  <2>1. Shows(b, 1, N) /\ Shows(b, 1 + Len(N), R) /\ x \in Nat /\ Len(NR) = Len(N) + x
    BY <1>8 DEF ShowsBoth
  <2>2. Shows(b, 1 + Len(NR), P)
    BY <1>7 DEF ShowsBoth
  <2> HIDE DEF x
  <2>3. 1 + Len(N) = 3 /\ 1 + Len(NR) = 3 + x
    BY <1>3, <2>1
  <2> QED BY <2>1, <2>2, <2>3
<1> HIDE DEF x
<1>10. Number16(b, 1) = n
  BY <1>1, <1>6, <1>9, Number16Shown DEF N
<1>11. Number16(b, 3 + x) = p
  <2>1. 3 + x \in Nat
    BY <1>9
  <2> QED BY <1>1, <1>6, <1>9, <2>1, Number16Shown, Zenon DEF P
<1>12. ShowsAddress(b, 3, t, a, x)
  <2>1. 3 \in Nat /\ R = EncodeAddress(t, a) /\ x = Len(R)
    BY DEF R, x
  <2> QED BY <1>1, <1>6, <1>9, <2>1, AddressShown, Zenon
<1>13. /\ b[4] = t /\ AddressLength(b, 3) = x
       /\ (t = DOMAIN_NAME => Slice(b, 5, x - 2) = a) /\ (t # DOMAIN_NAME => Slice(b, 4, x - 1) = a)
  <2>1. 3 + 1 = 4 /\ 3 + 2 = 5
    OBVIOUS
  <2>2. b[3 + 1] = t /\ AddressLength(b, 3) = x
    BY <1>12, Zenon DEF ShowsAddress
  <2>3. (t = DOMAIN_NAME => Slice(b, 3 + 2, x - 2) = a) /\ (t # DOMAIN_NAME => Slice(b, 3 + 1, x - 1) = a)
    BY <1>12, Zenon DEF ShowsAddress
  <2> QED BY <2>1, <2>2, <2>3, Zenon
<1>14. DecodeConnect(b) = f
  <2> DEFINE head == IF b[4] = DOMAIN_NAME THEN 2 ELSE 1
  <2>1. Slice(b, 3 + head, x - head) = a
    <3>1. 3 + 1 = 4 /\ 3 + 2 = 5
      OBVIOUS
    <3>2. CASE t = DOMAIN_NAME
      <4>1. head = 2
        BY <1>13, <3>2
      <4> HIDE DEF head
      <4> QED BY <1>13, <3>1, <3>2, <4>1, Zenon
    <3>3. CASE t # DOMAIN_NAME
      <4>1. head = 1
        BY <1>13, <3>3
      <4> HIDE DEF head
      <4> QED BY <1>13, <3>1, <3>3, <4>1, Zenon
    <3> QED BY <3>2, <3>3
  <2>2. Number16(b, 3 + AddressLength(b, 3)) = p
    BY <1>11, <1>13
  <2> HIDE DEF head
  <2>3. DecodeConnect(b) = [type |-> CONNECT, reqid |-> Number16(b, 1), atyp |-> b[4],
                            addr |-> Slice(b, 3 + head, x - head),
                            port |-> Number16(b, 3 + AddressLength(b, 3))]
    BY <1>13 DEF DecodeConnect, head
  <2> QED BY <1>1, <1>10, <1>13, <2>1, <2>2, <2>3
<1>15. DecodePayload(b) = DecodeConnect(b)
  BY <1>6, DecodeByType
<1> QED BY <1>2, <1>5, <1>14, <1>15

(* decodeFrame gives back every frame of Frames that encodeFrame encodes,  *)
(* for every width of a byte: each number, text, list and address comes out*)
(* as it went in.                                                          *)
THEOREM RoundTrip ==
  ASSUME NEW f \in Frames
  PROVE  Fields(f) \in Seq(Nat) /\ DecodePayload(<<f.type>> \o Fields(f)) = f
<1>1. \/ f \in ConnectFrames \/ f \in RequestFrames \/ f \in DataFrames
      \/ f \in OpaqueFrames \cup EmptyFrames \/ f \in AuthFrames \/ f \in ErrorFrames \cup ListFrames
  BY DEF Frames
<1> QED BY <1>1, DecodeConnectFrame, DecodeRequest, DecodeDataFrame, DecodeOpaque, DecodeAuthFrame,
           DecodeText, Zenon

------------------------------------------------------------------------------
(* A stream of frames                                                      *)

(* A frame is its length, its type and its fields, and is found again.     *)
IsFrameAt(c, at, f, x) ==
  /\ Number16(c, at) = x - 2 /\ DecodePayload(Slice(c, at + 2, x - 2)) = f

LEMMA ThreeParts ==
  ASSUME NEW u \in Seq(Nat), NEW t \in Nat, NEW s \in Seq(Nat), Len(u) = 2
  PROVE  (u \o <<t>>) \o s \in Seq(Nat) /\ Len((u \o <<t>>) \o s) = 3 + Len(s)
<1> DEFINE h == <<t>>
           v == u \o h
           r == v \o s
           x == Len(s)
<1>1. h \in Seq(Nat) /\ Len(h) = 1
  OBVIOUS
<1> HIDE DEF h
<1>2. v \in Seq(Nat) /\ Len(v) = Len(u) + Len(h)
  BY <1>1, Concat, Zenon
<1> HIDE DEF v
<1>3. r \in Seq(Nat) /\ Len(r) = Len(v) + x /\ x \in Nat
  BY <1>2, Concat, Zenon
<1> HIDE DEF r, x
<1>4. Len(r) = 3 + x
  BY <1>1, <1>2, <1>3
<1> QED BY <1>3, <1>4 DEF h, v, r, x

LEMMA FrameLengths ==
  ASSUME NEW f \in Frames, NEW x, x = Len(EncodeFrame(f))
  PROVE  EncodeFrame(f) \in Seq(Nat) /\ x \in Nat /\ x >= 3 /\ Fields(f) \in Seq(Nat)
         /\ x = Len(Fields(f)) + 3 /\ Len(Fields(f)) \in Nat /\ f.type \in Nat
<1> DEFINE s == Fields(f)
           n == Len(s) + 1
           t == f.type
           u == Uint16(n)
<1>1. s \in Seq(Nat)
  BY RoundTrip
<1>2. t \in Nat
  BY DEF Frames, ConnectFrames, RequestFrames, DataFrames, OpaqueFrames, EmptyFrames, AuthFrames,
         ListFrames, ErrorFrames, CONNECT, DATA, CLOSE, CONNECT_OK, PING, PONG, AUTH, AUTH_OK,
         AUTH_FAIL, ERROR, CAPABILITIES, PADDING, CONNECT_FAILED
<1>3. EncodeFrame(f) = (u \o <<t>>) \o s
  BY DEF EncodeFrame
<1> HIDE DEF s, t
<1>4. n \in Nat /\ Len(s) \in Nat
  BY <1>1
<1>5. u \in Seq(Nat) /\ Len(u) = 2
  BY <1>4, Uint16Type
<1> HIDE DEF u
<1> DEFINE r == (u \o <<t>>) \o s
<1>7. r \in Seq(Nat) /\ Len(r) = 3 + Len(s)
  BY <1>1, <1>2, <1>5, ThreeParts, Zenon
<1> HIDE DEF r
<1>8. EncodeFrame(f) \in Seq(Nat) /\ x = 3 + Len(s)
  BY <1>3, <1>7 DEF r
<1> QED BY <1>1, <1>2, <1>4, <1>8 DEF s, t

(* A frame that is shown is found by its length.                           *)
LEMMA FrameShown ==
  ASSUME NEW b \in Seq(Nat), NEW at \in Nat, NEW f \in Frames,
         NEW r, r = EncodeFrame(f), NEW x, x = Len(r), Shows(b, at, r)
  PROVE  IsFrameAt(b, at, f, x) /\ Shows(b, at, Uint16(x - 2))
<1> DEFINE s == Fields(f)
           n == Len(s) + 1
           t == f.type
           u == Uint16(n)
           ut == u \o <<t>>
           ts == <<t>> \o s
<1>1. /\ s \in Seq(Nat) /\ t \in Nat /\ x = Len(s) + 3 /\ Len(s) \in Nat /\ x \in Nat
      /\ DecodePayload(ts) = f
  BY FrameLengths, RoundTrip
<1>2. r = ut \o s
  BY DEF EncodeFrame
<1> HIDE DEF s, t
<1>3. n \in Nat /\ u \in Seq(Nat) /\ Len(u) = 2 /\ n = x - 2
  <2>1. n \in Nat /\ n = x - 2
    BY <1>1
  <2> HIDE DEF n
  <2> QED BY <2>1, Uint16Type
<1> HIDE DEF u
<1>4. ts \in Seq(Nat) /\ Len(ts) = n
  BY <1>1
<1>5. r = u \o ts
  <2>1. <<t>> \in Seq(Nat)
    BY <1>1
  <2> QED BY <1>1, <1>2, <1>3, <2>1, ConcatAssociative
<1> HIDE DEF ts, ut, n
<1>6. ShowsBoth(b, at, u, ts, r)
  BY <1>3, <1>4, <1>5, ShowsParts, Zenon
<1>7. Shows(b, at, u) /\ Shows(b, at + 2, ts)
  BY <1>3, <1>6 DEF ShowsBoth
<1>8. Number16(b, at) = n
  BY <1>3, <1>7, Number16Shown DEF u
<1>9. Slice(b, at + 2, n) = ts
  <2>1. at + 2 \in Nat
    OBVIOUS
  <2> QED BY <1>4, <1>7, <2>1, ShowsSlice, Zenon
<1> QED BY <1>1, <1>3, <1>7, <1>8, <1>9 DEF IsFrameAt, u

(* Where the frames w begin and end in their bytes.                        *)
Encoded(w) == [i \in DOMAIN w |-> EncodeFrame(w[i])]

LEMMA EncodedTypes ==
  ASSUME NEW w \in Seq(Frames)
  PROVE  /\ AreTexts(Encoded(w)) /\ Len(w) \in Nat /\ Len(Encoded(w)) = Len(w)
         /\ \A k \in 1 .. Len(w) : Encoded(w)[k] = EncodeFrame(w[k]) /\ w[k] \in Frames
         /\ EncodeFrames(w) = FlattenSeq(Encoded(w))
<1>1. Len(w) \in Nat /\ DOMAIN w = 1 .. Len(w) /\ \A k \in 1 .. Len(w) : w[k] \in Frames
  OBVIOUS
<1> DEFINE n == Len(w)
           W(i) == EncodeFrame(w[i])
<1>2. n \in Nat /\ (\A i \in 1 .. n : W(i) \in Seq(Nat)) /\ Encoded(w) = [i \in 1 .. n |-> W(i)]
  BY <1>1, FrameLengths DEF Encoded
<1>3. AreTexts(Encoded(w)) /\ Len(Encoded(w)) = n
  <2> HIDE DEF n, W
  <2>1. Encoded(w) \in [1 .. n -> Seq(Nat)]
    BY <1>2
  <2> QED BY <1>2, <2>1 DEF AreTexts
<1>4. EncodeFrames(w) = FlattenSeq(Encoded(w))
  BY DEF EncodeFrames, Encoded
<1> QED BY <1>1, <1>2, <1>3, <1>4

(* The bytes that end within frame k + 1: decodeFrames has read k frames.  *)
CutWithin(o, w, n, k) ==
  /\ k \in 0 .. Len(w) /\ o[k] <= n
  /\ k < Len(w) => n < o[k + 1]

(* The frames that end within the first n bytes.                           *)
LEMMA CutExists ==
  ASSUME NEW w \in Seq(Frames), NEW o \in [0 .. Len(w) -> Nat], o[0] = 0, NEW n \in Nat
  PROVE  \E k : CutWithin(o, w, n, k)
<1> DEFINE m == Len(w)
           Within(l, k) == k \in 0 .. l /\ o[k] <= n /\ (k < l => n < o[k + 1])
           S == {l \in Nat : l <= m => \E k : Within(l, k)}
<1>1. m \in Nat
  OBVIOUS
<1> HIDE DEF m
<1>2. 0 \in S
  BY <1>1
<1>3. ASSUME NEW l \in S PROVE l + 1 \in S
  <2> SUFFICES ASSUME l + 1 <= m PROVE \E k : Within(l + 1, k)
    OBVIOUS
  <2>1. l \in Nat /\ l <= m
    BY <1>1
  <2>2. PICK k : Within(l, k)
    BY <2>1
  <2> DEFINE x == o[l + 1]
  <2>3. x \in Nat
    BY <1>1, <2>1 DEF m
  <2>4. CASE k = l /\ x <= n
    <3>1. Within(l + 1, l + 1)
      BY <2>1, <2>4
    <3> QED BY <3>1
  <2>5. CASE k = l /\ ~(x <= n)
    <3>1. n < x
      BY <2>3, <2>5
    <3>2. Within(l + 1, l)
      BY <2>1, <2>2, <2>5, <3>1
    <3> QED BY <3>2
  <2>6. CASE k # l
    <3>1. k \in 0 .. l /\ k < l
      BY <2>1, <2>2, <2>6
    <3>2. Within(l + 1, k)
      BY <2>1, <2>2, <3>1
    <3> QED BY <3>2
  <2> QED BY <2>4, <2>5, <2>6
<1>4. S = Nat
  <2>1. S \subseteq Nat
    OBVIOUS
  <2> HIDE DEF S
  <2> QED BY <1>2, <1>3, <2>1, SetInduction
<1>5. PICK k : Within(m, k)
  BY <1>1, <1>4
<1> QED BY <1>5 DEF CutWithin, m

(* What decodeFrames has read when k frames are behind it.                 *)
ReadSoFar(o, w, k) == [ok |-> TRUE, at |-> o[k], frames |-> SubSeq(w, 1, k)]

(* c is what comes first of the bytes of w.                                *)
IsCut(c, o, w, n) ==
  /\ Places(o, Encoded(w)) /\ n \in 0 .. Len(EncodeFrames(w))
  /\ c = SubSeq(EncodeFrames(w), 1, n)

LEMMA CutTypes ==
  ASSUME NEW w \in Seq(Frames), NEW o, NEW n, NEW c, IsCut(c, o, w, n)
  PROVE  /\ EncodeFrames(w) \in Seq(Nat) /\ n \in Nat /\ c \in Seq(Nat) /\ Len(c) = n
         /\ n <= Len(EncodeFrames(w)) /\ Len(EncodeFrames(w)) \in Nat
         /\ \A i \in 1 .. n : c[i] = EncodeFrames(w)[i]
<1> DEFINE b == EncodeFrames(w)
<1>1. b \in Seq(Nat)
  BY EncodedTypes, Concatenation
<1>2. n \in 0 .. Len(b) /\ c = SubSeq(b, 1, n)
  BY DEF IsCut
<1> HIDE DEF b
<1>3. n \in Nat /\ n <= Len(b) /\ Len(b) \in Nat
  BY <1>1, <1>2
<1>4. c \in Seq(Nat) /\ Len(c) = n
  BY <1>1, <1>2, <1>3
<1>5. \A i \in 1 .. n : c[i] = b[i]
  BY <1>1, <1>2, <1>3
<1> QED BY <1>1, <1>3, <1>4, <1>5 DEF b

(* Frame k + 1 in the bytes of w.                                          *)
LEMMA FrameInBytes ==
  ASSUME NEW w \in Seq(Frames), NEW o, Places(o, Encoded(w)), NEW j \in 1 .. Len(w),
         NEW x, x = o[j - 1], NEW y, y = o[j]
  PROVE  /\ x \in Nat /\ y \in Nat /\ y >= x + 3 /\ y <= Len(EncodeFrames(w))
         /\ Shows(EncodeFrames(w), x, EncodeFrame(w[j]))
         /\ Len(EncodeFrame(w[j])) = y - x
<1> DEFINE e == Encoded(w)
           b == EncodeFrames(w)
           f == w[j]
           r == e[j]
           z == Len(r)
<1>1. /\ AreTexts(e) /\ Len(w) \in Nat /\ Len(e) = Len(w) /\ r = EncodeFrame(f) /\ f \in Frames
      /\ b = FlattenSeq(e) /\ b \in Seq(Nat)
  BY EncodedTypes, Concatenation
<1>2. z \in Nat /\ z >= 3
  <2> HIDE DEF f, e
  <2> QED BY <1>1, FrameLengths, Zenon
<1> HIDE DEF e, b, f, r
<1>3. j \in 1 .. Len(e) /\ j - 1 \in 0 .. Len(e) /\ j \in 0 .. Len(e) /\ Len(e) \in Nat
  BY <1>1
<1>4. x \in Nat /\ y \in Nat /\ y = x + z /\ y <= Len(b)
  <2>1. Places(o, e)
    BY DEF e
  <2> HIDE DEF z
  <2>2. y = x + z
    BY <2>1, <1>3 DEF Places, z, r
  <2>3. x \in Nat /\ y \in Nat
    BY <2>1, <1>3 DEF Places
  <2>4. y <= Len(b)
    BY <2>1, <1>1, <1>3 DEF Places
  <2> QED BY <2>2, <2>3, <2>4
<1>5. Shows(b, x, r)
  <2>1. \A i \in 1 .. z : b[x + i] = r[i]
    BY <1>1, <1>3 DEF Places, r, e
  <2> HIDE DEF z
  <2>2. x + z <= Len(b)
    BY <1>4
  <2> QED BY <2>1, <2>2 DEF Shows, z
<1> HIDE DEF z
<1>6. z = y - x /\ y >= x + 3
  BY <1>2, <1>4
<1> QED BY <1>1, <1>4, <1>5, <1>6 DEF b, f, z

(* A whole frame is read.                                                  *)
LEMMA WholeFrameRead ==
  ASSUME NEW w \in Seq(Frames), NEW o, NEW n, NEW c, IsCut(c, o, w, n),
         NEW j \in 1 .. Len(w), o[j] <= n
  PROVE  DecodeNext(c, ReadSoFar(o, w, j - 1)) = ReadSoFar(o, w, j)
<1> DEFINE b == EncodeFrames(w)
           x == o[j - 1]
           y == o[j]
           f == w[j]
           r == EncodeFrame(f)
           s == ReadSoFar(o, w, j - 1)
<1>1. /\ b \in Seq(Nat) /\ n \in Nat /\ c \in Seq(Nat) /\ Len(c) = n /\ n <= Len(b)
      /\ Len(b) \in Nat /\ \A i \in 1 .. n : c[i] = b[i]
  BY CutTypes
<1>2. /\ x \in Nat /\ y \in Nat /\ y >= x + 3 /\ Shows(b, x, r) /\ Len(r) = y - x
  BY FrameInBytes DEF IsCut
<1>3. f \in Frames /\ y <= n
  BY EncodedTypes
<1> HIDE DEF b, x, y, f
<1>4. Shows(c, x, r)
  <2>1. r \in Seq(Nat)
    BY <1>3, FrameLengths
  <2> HIDE DEF r
  <2>2. x + Len(r) <= Len(c)
    BY <1>1, <1>2, <1>3
  <2>3. ASSUME NEW i \in 1 .. Len(r) PROVE c[x + i] = r[i]
    <3>1. x + i \in 1 .. n
      BY <1>1, <1>2, <1>3
    <3>2. b[x + i] = r[i]
      BY <1>2 DEF Shows
    <3> QED BY <1>1, <3>1, <3>2
  <2> QED BY <2>2, <2>3 DEF Shows
<1> DEFINE z == y - x
<1>5. IsFrameAt(c, x, f, z)
  <2>1. z = Len(r)
    BY <1>2
  <2> HIDE DEF z
  <2> QED BY <1>1, <1>2, <1>3, <1>4, <2>1, FrameShown, Zenon
<1>6. Number16(c, x) = z - 2 /\ DecodePayload(Slice(c, x + 2, z - 2)) = f
  BY <1>5 DEF IsFrameAt
<1>7. s.ok /\ s.at = x /\ s.frames = SubSeq(w, 1, j - 1)
  BY DEF ReadSoFar, x
<1>8. ~(x = Len(c)) /\ ~ReachesBeyond(c, x)
  BY <1>1, <1>2, <1>3, <1>6 DEF ReachesBeyond
<1> DEFINE m == z - 2
<1>9. DecodeNext(c, s) = [ok |-> TRUE, at |-> x + 2 + m, frames |-> Append(SubSeq(w, 1, j - 1), f)]
  <2> HIDE DEF m, s, z
  <2>1. DecodeNext(c, s) = [ok |-> TRUE, at |-> s.at + 2 + Number16(c, s.at),
          frames |-> Append(s.frames, DecodePayload(Slice(c, s.at + 2, Number16(c, s.at))))]
    BY <1>7, <1>8 DEF DecodeNext
  <2>2. Number16(c, s.at) = m
    BY <1>6, <1>7 DEF m
  <2>3. DecodePayload(Slice(c, x + 2, m)) = f
    BY <1>6 DEF m
  <2> QED BY <1>7, <2>1, <2>2, <2>3, Zenon
<1>10. x + 2 + m = y
  BY <1>2
<1>11. Append(SubSeq(w, 1, j - 1), f) = SubSeq(w, 1, j)
  BY DEF f
<1> QED BY <1>9, <1>10, <1>11 DEF ReadSoFar, y

(* The rest is less than a frame, or nothing.                              *)
LEMMA RestNotRead ==
  ASSUME NEW w \in Seq(Frames), NEW o, NEW n, NEW c, IsCut(c, o, w, n),
         NEW k, CutWithin(o, w, n, k)
  PROVE  DecodeNext(c, ReadSoFar(o, w, k)) = [ok |-> (o[k] = n), at |-> o[k], frames |-> SubSeq(w, 1, k)]
<1> DEFINE b == EncodeFrames(w)
           x == o[k]
           s == ReadSoFar(o, w, k)
<1>1. /\ b \in Seq(Nat) /\ n \in Nat /\ c \in Seq(Nat) /\ Len(c) = n /\ n <= Len(b)
      /\ Len(b) \in Nat /\ \A i \in 1 .. n : c[i] = b[i]
  BY CutTypes
<1>2. s.ok /\ s.at = x /\ s = [ok |-> TRUE, at |-> s.at, frames |-> s.frames]
  BY DEF ReadSoFar
<1> HIDE DEF s
<1>3. CASE x = n
  <2>1. DecodeNext(c, s) = s
    BY <1>1, <1>2, <1>3 DEF DecodeNext
  <2>2. (o[k] = n) = TRUE
    BY <1>3
  <2> QED BY <2>1, <2>2, Zenon DEF s, ReadSoFar
<1>4. CASE x # n
  <2> DEFINE j == k + 1
             y == o[j]
             r == EncodeFrame(w[j])
  <2>1. /\ k \in 0 .. Len(w) /\ Len(w) \in Nat /\ x <= n /\ (k < Len(w) => n < y)
    BY DEF CutWithin
  <2>2. k # Len(w)
    <3>1. o[Len(w)] = Len(b)
      BY EncodedTypes DEF IsCut, Places, b
    <3> HIDE DEF b
    <3> QED BY <1>1, <1>4, <2>1, <3>1
  <2>3. j \in 1 .. Len(w) /\ x = o[j - 1]
    BY <2>1, <2>2
  <2>4. /\ x \in Nat /\ y \in Nat /\ y >= x + 3 /\ Shows(b, x, r) /\ Len(r) = y - x /\ n < y
    <3>1. Places(o, Encoded(w)) /\ y = o[j]
      BY DEF IsCut
    <3>2. /\ x \in Nat /\ y \in Nat /\ y >= x + 3 /\ Shows(b, x, r) /\ Len(r) = y - x
      BY <2>3, <3>1, FrameInBytes
    <3> QED BY <2>1, <2>2, <3>2
  <2>5. w[j] \in Frames
    BY <2>3
  <2> HIDE DEF b, x, y, j
  <2>8. [ok |-> FALSE, at |-> s.at, frames |-> s.frames] =
          [ok |-> (o[k] = n), at |-> o[k], frames |-> SubSeq(w, 1, k)]
    <3>1. (o[k] = n) = FALSE
      BY <1>4 DEF x
    <3>2. s.at = o[k] /\ s.frames = SubSeq(w, 1, k)
      BY DEF s, ReadSoFar
    <3> QED BY <3>1, <3>2, Zenon
  <2>6. CASE n - x < 2
    <3>1. ReachesBeyond(c, x)
      BY <1>1, <2>6 DEF ReachesBeyond
    <3>2. DecodeNext(c, s) = [ok |-> FALSE, at |-> s.at, frames |-> s.frames]
      BY <1>1, <1>2, <1>4, <3>1 DEF DecodeNext
    <3> QED BY <2>8, <3>2, Zenon DEF s
  <2>7. CASE ~(n - x < 2)
    <3> DEFINE z == y - x
    <3>1. IsFrameAt(b, x, w[j], z)
      <4>1. z = Len(r)
        BY <2>4
      <4> HIDE DEF z
      <4> QED BY <1>1, <2>4, <2>5, <4>1, FrameShown, Zenon
    <3>2. Number16(b, x) = z - 2
      BY <3>1 DEF IsFrameAt
    <3>3. c[x + 1] = b[x + 1] /\ c[x + 2] = b[x + 2]
      <4>1. x + 1 \in 1 .. n /\ x + 2 \in 1 .. n
        BY <1>1, <2>4, <2>7
      <4> QED BY <1>1, <4>1
    <3>4. Number16(c, x) = z - 2
      BY <3>2, <3>3 DEF Number16
    <3>5. ReachesBeyond(c, x)
      BY <1>1, <2>4, <3>4 DEF ReachesBeyond
    <3>6. DecodeNext(c, s) = [ok |-> FALSE, at |-> s.at, frames |-> s.frames]
      BY <1>1, <1>2, <1>4, <3>5 DEF DecodeNext
    <3> QED BY <2>8, <3>6, Zenon DEF s
  <2> QED BY <2>6, <2>7
<1> QED BY <1>3, <1>4

(* Later frames are further on.                                            *)
LEMMA PlacesGrow ==
  ASSUME NEW w \in Seq(Frames), NEW o, Places(o, Encoded(w))
  PROVE  \A j \in 0 .. Len(w) : \A i \in 0 .. j : o[i] <= o[j]
<1> DEFINE m == Len(w)
           S == {j \in Nat : j <= m => \A i \in 0 .. j : o[i] <= o[j]}
<1>1. m \in Nat /\ \A i \in 0 .. m : o[i] \in Nat
  BY EncodedTypes DEF Places
<1>2. 0 \in S
  BY <1>1
<1>3. ASSUME NEW j \in S PROVE j + 1 \in S
  <2> SUFFICES ASSUME j + 1 <= m, NEW i \in 0 .. j + 1 PROVE o[i] <= o[j + 1]
    OBVIOUS
  <2> DEFINE l == j + 1
             x == o[l - 1]
             y == o[l]
             z == o[i]
  <2>1. j \in Nat /\ l \in 1 .. m /\ l - 1 = j
    BY <1>1
  <2>2. x \in Nat /\ y \in Nat /\ y >= x + 3
    BY <2>1, FrameInBytes, Zenon
  <2>3. CASE i = l
    <3>1. z = y
      BY <2>3
    <3> HIDE DEF y, z
    <3>2. z <= y
      BY <2>2, <3>1
    <3> QED BY <3>2 DEF y, z
  <2>4. CASE i # l
    <3>1. i \in 0 .. j
      BY <2>1, <2>4
    <3>2. z <= x /\ z \in Nat
      BY <1>1, <2>1, <3>1
    <3> HIDE DEF x, y, z
    <3>3. z <= y
      BY <2>2, <3>2
    <3> QED BY <3>3 DEF y, z
  <2> QED BY <2>3, <2>4
<1>4. S = Nat
  <2>1. S \subseteq Nat
    OBVIOUS
  <2> HIDE DEF S
  <2> QED BY <1>2, <1>3, <2>1, SetInduction
<1> QED BY <1>1, <1>4

(* A frame has three bytes or more: k frames, k turns of the loop.         *)
LEMMA TurnsSuffice ==
  ASSUME NEW w \in Seq(Frames), NEW o, Places(o, Encoded(w))
  PROVE  \A k \in 0 .. Len(w) : o[k] \in Nat /\ k <= o[k]
<1> DEFINE n == Len(w)
           S == {k \in Nat : k <= n => o[k] \in Nat /\ k <= o[k]}
<1>1. n \in Nat /\ o[0] = 0
  BY DEF Places
<1>2. 0 \in S
  BY <1>1
<1>3. ASSUME NEW k \in S PROVE k + 1 \in S
  <2> SUFFICES ASSUME k + 1 <= n PROVE o[k + 1] \in Nat /\ k + 1 <= o[k + 1]
    OBVIOUS
  <2> DEFINE j == k + 1
             x == o[j - 1]
             y == o[j]
  <2>1. k \in Nat /\ j \in 1 .. n /\ j - 1 = k
    BY <1>1
  <2>2. x \in Nat /\ y \in Nat /\ y >= x + 3
    BY <2>1, FrameInBytes, Zenon
  <2>3. k <= x
    BY <1>1, <2>1
  <2> HIDE DEF x, y
  <2>4. y \in Nat /\ k + 1 <= y
    BY <2>1, <2>2, <2>3
  <2> QED BY <2>4 DEF y
<1>4. S = Nat
  <2>1. S \subseteq Nat
    OBVIOUS
  <2> HIDE DEF S
  <2> QED BY <1>2, <1>3, <2>1, SetInduction
<1> QED BY <1>1, <1>4

(* decodeFrames reads the whole frames of a cut, and throws if the bytes   *)
(* end within one.                                                         *)
LEMMA CutDecoded ==
  ASSUME NEW w \in Seq(Frames), NEW o, NEW n, NEW c, IsCut(c, o, w, n),
         NEW k, CutWithin(o, w, n, k)
  PROVE  DecodeFrames(c) = [ok |-> (o[k] = n), frames |-> SubSeq(w, 1, k)]
<1> DEFINE R(i) == ReadSoFar(o, w, i)
           T == [ok |-> (o[k] = n), at |-> o[k], frames |-> SubSeq(w, 1, k)]
           first == [ok |-> TRUE, at |-> 0, frames |-> <<>>]
           V(i) == IF i <= k THEN R(i) ELSE T
           h == [i \in 0 .. n |-> V(i)]
           Defines(f) == f = [turn \in 0 .. Len(c) |->
                                IF turn = 0 THEN first ELSE DecodeNext(c, f[turn - 1])]
<1>1. n \in Nat /\ Len(c) = n
  BY CutTypes
<1>2. k \in 0 .. Len(w) /\ Len(w) \in Nat /\ k \in Nat /\ o[k] <= n
  BY DEF CutWithin
<1>3. k <= n /\ (k = n => o[k] = n)
  <2> DEFINE x == o[k]
  <2>1. x \in Nat /\ k <= x /\ x <= n
    BY <1>2, TurnsSuffice DEF IsCut
  <2> HIDE DEF x
  <2>2. k <= n /\ (k = n => x = n)
    BY <1>1, <1>2, <2>1
  <2> QED BY <2>2 DEF x
<1>4. R(0) = first
  <2>1. o[0] = 0
    BY DEF IsCut, Places
  <2>2. SubSeq(w, 1, 0) = <<>>
    OBVIOUS
  <2> QED BY <2>1, <2>2 DEF ReadSoFar
<1>5. \A i \in 1 .. k : DecodeNext(c, R(i - 1)) = R(i)
  <2> SUFFICES ASSUME NEW i \in 1 .. k PROVE DecodeNext(c, R(i - 1)) = R(i)
    OBVIOUS
  <2>1. i \in 1 .. Len(w) /\ o[i] <= n
    <3> DEFINE z == o[i]
    <3>1. i \in 1 .. Len(w)
      BY <1>2
    <3>2. z <= n
      <4> DEFINE u == o[k]
      <4>1. z \in Nat /\ u \in Nat /\ u <= n
        BY <1>2, <3>1, TurnsSuffice DEF IsCut
      <4>2. z <= u
        BY <1>2, PlacesGrow DEF IsCut
      <4> HIDE DEF z, u
      <4> QED BY <1>1, <4>1, <4>2
    <3> QED BY <3>1, <3>2
  <2> QED BY <2>1, WholeFrameRead
<1>6. DecodeNext(c, R(k)) = T
  BY RestNotRead
<1>7. DecodeNext(c, T) = T
  <2>1. T.ok = (o[k] = n) /\ T.at = o[k]
    BY Zenon
  <2> HIDE DEF T
  <2> QED BY <1>1, <2>1 DEF DecodeNext
<1>8. T.frames = SubSeq(w, 1, k) /\ T.ok = (o[k] = n) /\ (k = n => T = R(k))
  <2>1. T = [ok |-> (o[k] = n), at |-> o[k], frames |-> SubSeq(w, 1, k)]
    OBVIOUS
  <2>2. ASSUME k = n PROVE T = R(k)
    <3>1. (o[k] = n) = TRUE
      BY <1>3, <2>2
    <3> QED BY <2>1, <3>1, Zenon DEF ReadSoFar
  <2> HIDE DEF T
  <2>3. T.ok = (o[k] = n)
    BY <2>1, Zenon
  <2>4. T.frames = SubSeq(w, 1, k)
    BY <2>1, Zenon
  <2> QED BY <2>2, <2>3, <2>4
<1> HIDE DEF R, T, first
<1>9. V(0) = first
  BY <1>2, <1>4
<1>10. ASSUME NEW i \in 1 .. n PROVE V(i) = DecodeNext(c, V(i - 1))
  <2>1. CASE i <= k
    <3>1. i \in 1 .. k /\ i - 1 <= k
      BY <1>2, <2>1
    <3> QED BY <1>5, <2>1, <3>1
  <2>2. CASE i = k + 1
    <3>1. i - 1 = k /\ ~(i <= k) /\ k <= k
      BY <1>2, <2>2
    <3> QED BY <1>6, <3>1
  <2>3. CASE i > k + 1
    <3>1. ~(i <= k) /\ ~(i - 1 <= k)
      BY <1>2, <2>3
    <3> QED BY <1>7, <3>1
  <2> QED BY <1>2, <2>1, <2>2, <2>3
<1>11. V(n) = T
  <2>1. CASE n <= k
    <3>1. k = n
      BY <1>1, <1>2, <1>3, <2>1
    <3> QED BY <1>8, <3>1
  <2>2. CASE ~(n <= k)
    BY <2>2
  <2> QED BY <2>1, <2>2
<1> HIDE DEF V
<1>12. Defines(h)
  <2>1. \A i \in 0 .. n : h[i] = V(i)
    OBVIOUS
  <2>2. ASSUME NEW i \in 0 .. n PROVE V(i) = IF i = 0 THEN first ELSE DecodeNext(c, h[i - 1])
    <3>1. CASE i = 0
      BY <1>9, <3>1
    <3>2. CASE i # 0
      <4>1. i \in 1 .. n /\ i - 1 \in 0 .. n
        BY <1>1, <3>2
      <4> HIDE DEF h
      <4> QED BY <1>10, <2>1, <3>2, <4>1
    <3> QED BY <3>1, <3>2
  <2> QED BY <1>1, <2>2
<1> DEFINE loop == CHOOSE f : Defines(f)
<1>13. Defines(loop)
  <2> HIDE DEF Defines, h
  <2> QED BY <1>12
<1>14. \A i \in 0 .. n : loop[i] = IF i = 0 THEN first ELSE DecodeNext(c, loop[i - 1])
  BY <1>1, <1>13
<1>15. DecodeFrames(c) = [ok |-> loop[n].ok, frames |-> loop[n].frames]
  BY <1>1 DEF DecodeFrames, first
<1> HIDE DEF loop, h, Defines
<1> DEFINE S == {i \in Nat : i <= n => loop[i] = V(i)}
<1>16. S = Nat
  <2>1. 0 \in S
    BY <1>1, <1>9, <1>14
  <2>2. ASSUME NEW i \in S PROVE i + 1 \in S
    <3> SUFFICES ASSUME i + 1 <= n PROVE loop[i + 1] = V(i + 1)
      OBVIOUS
    <3> DEFINE j == i + 1
    <3>1. i \in Nat /\ j \in 0 .. n /\ j \in 1 .. n /\ j # 0 /\ j - 1 = i /\ loop[i] = V(i)
      BY <1>1
    <3> HIDE DEF j
    <3>2. loop[j] = DecodeNext(c, loop[i])
      BY <1>14, <3>1
    <3>3. V(j) = DecodeNext(c, V(i))
      BY <1>10, <3>1
    <3>4. loop[j] = V(j)
      BY <3>1, <3>2, <3>3
    <3> QED BY <3>4 DEF j
  <2>3. S \subseteq Nat
    OBVIOUS
  <2> HIDE DEF S
  <2> QED BY <2>1, <2>2, <2>3, SetInduction
<1>17. loop[n] = T
  BY <1>1, <1>11, <1>16
<1> QED BY <1>8, <1>15, <1>17

(* What was sent comes back from decodeFrames.  Bytes that lack their end  *)
(* are refused, or are those of the first frames and give these.           *)
Deciphered(w) ==
  /\ DecodeFrames(EncodeFrames(w)) = [ok |-> TRUE, frames |-> w]
  /\ \A n \in DOMAIN EncodeFrames(w) :
       LET c == SubSeq(EncodeFrames(w), 1, n)
           d == DecodeFrames(c) IN
       d.ok => IsPrefix(d.frames, w) /\ EncodeFrames(d.frames) = c

(* decodeFrames gives back any sequence of frames; bytes that lack their   *)
(* end are never taken for frames that were not sent.                      *)
THEOREM FramesDecoded ==
  ASSUME NEW w \in Seq(Frames) PROVE Deciphered(w)
<1> DEFINE b == EncodeFrames(w)
<1>1. b \in Seq(Nat) /\ Len(w) \in Nat /\ b = FlattenSeq(Encoded(w))
  BY EncodedTypes, Concatenation
<1>2. PICK o : Places(o, Encoded(w))
  BY EncodedTypes, Concatenation
<1>3. o \in [0 .. Len(w) -> Nat] /\ o[0] = 0 /\ o[Len(w)] = Len(b)
  BY <1>2, EncodedTypes DEF Places
<1> DEFINE Reads(c, n, k) ==
             /\ CutWithin(o, w, n, k)
             /\ DecodeFrames(c) = [ok |-> (o[k] = n), frames |-> SubSeq(w, 1, k)]
<1>4. ASSUME NEW n \in 0 .. Len(b), NEW c, c = SubSeq(b, 1, n)
      PROVE  \E k : Reads(c, n, k)
  <2>1. n \in Nat /\ IsCut(c, o, w, n)
    BY <1>1, <1>2, <1>4 DEF IsCut
  <2>2. PICK k : CutWithin(o, w, n, k)
    BY <1>3, <2>1, CutExists
  <2> QED BY <2>1, <2>2, CutDecoded
<1> HIDE DEF b
<1>5. DecodeFrames(b) = [ok |-> TRUE, frames |-> w]
  <2> DEFINE n == Len(b)
  <2>1. b = SubSeq(b, 1, n) /\ n \in 0 .. Len(b) /\ n \in Nat
    BY <1>1
  <2>2. PICK k : Reads(b, n, k)
    <3> HIDE DEF Reads, n
    <3> QED BY <1>4, <2>1, Zenon
  <2> HIDE DEF n
  <2>3. k = Len(w)
    <3> SUFFICES ASSUME k # Len(w) PROVE FALSE
      OBVIOUS
    <3> DEFINE y == o[k + 1]
               z == o[Len(w)]
    <3>1. k + 1 \in 0 .. Len(w) /\ n < y
      BY <1>1, <2>2 DEF CutWithin
    <3>2. y <= z /\ y \in Nat
      BY <1>1, <1>2, <1>3, <3>1, PlacesGrow
    <3>3. z = n
      BY <1>3 DEF n
    <3> HIDE DEF y, z
    <3> QED BY <2>1, <3>1, <3>2, <3>3
  <2>4. SubSeq(w, 1, k) = w /\ o[k] = n
    BY <1>3, <2>3 DEF n
  <2> QED BY <2>2, <2>4
<1>6. ASSUME NEW n \in DOMAIN b, NEW c, c = SubSeq(b, 1, n), NEW d, d = DecodeFrames(c), d.ok
      PROVE  IsPrefix(d.frames, w) /\ EncodeFrames(d.frames) = c
  <2>1. n \in 0 .. Len(b)
    BY <1>1
  <2>2. PICK k : Reads(c, n, k)
    <3> HIDE DEF Reads
    <3> QED BY <1>4, <1>6, <2>1, Zenon
  <2> DEFINE v == SubSeq(w, 1, k)
  <2>3. d.frames = v /\ o[k] = n /\ k \in 0 .. Len(w)
    <3>1. d = [ok |-> (o[k] = n), frames |-> v]
      BY <1>6, <2>2
    <3>2. d.ok = (o[k] = n) /\ d.frames = v
      BY <3>1, Zenon
    <3>3. o[k] = n
      BY <1>6, <3>2, Zenon
    <3> QED BY <2>2, <3>2, <3>3 DEF CutWithin
  <2>4. IsPrefix(v, w)
    <3>1. Len(v) = k /\ v = SubSeq(v, 1, k) /\ k <= Len(w)
      BY <1>1, <2>3
    <3> HIDE DEF v
    <3>2. v = SubSeq(w, 1, k)
      BY DEF v
    <3> QED BY <3>1, <3>2 DEF IsPrefix
  <2>5. EncodeFrames(v) = FlattenSeq(SubSeq(Encoded(w), 1, k))
    <3>1. /\ v \in Seq(Frames) /\ Len(v) = k /\ DOMAIN v = 1 .. k /\ k \in Nat
          /\ \A i \in 1 .. k : v[i] = w[i]
      BY <1>1, <2>3
    <3>2. Encoded(w) \in Seq(Seq(Nat)) /\ Len(Encoded(w)) = Len(w)
      BY EncodedTypes DEF AreTexts
    <3>3. SubSeq(Encoded(w), 1, k) = [i \in 1 .. k |-> Encoded(w)[i]]
      BY <1>1, <2>3, <3>2
    <3>4. \A i \in 1 .. k : Encoded(w)[i] = EncodeFrame(w[i])
      BY <1>1, <2>3, EncodedTypes
    <3> HIDE DEF v
    <3>5. [i \in DOMAIN v |-> EncodeFrame(v[i])] = [i \in 1 .. k |-> Encoded(w)[i]]
      BY <3>1, <3>4
    <3> QED BY <3>3, <3>5 DEF EncodeFrames
  <2>6. FlattenSeq(SubSeq(Encoded(w), 1, k)) = SubSeq(b, 1, o[k])
    BY <1>1, <1>2, <2>3, EncodedTypes DEF Places
  <2> QED BY <1>6, <2>3, <2>4, <2>5, <2>6
<1> QED BY <1>5, <1>6 DEF Deciphered, b

------------------------------------------------------------------------------
(* What is read is sent                                                    *)

(* What the suspended calls have still to send.                            *)
Call == [next : Nat, last : 1 .. MaxBytes]
Left == {n \in 1 .. MaxBytes : \E i \in DOMAIN calls : calls[i].next <= n /\ n <= calls[i].last}

(* The pieces whose turn has come.                                         *)
Done == Carried \cup dropped

(* The turn of a piece that was read has come, or a call is still to send  *)
(* it.                                                                     *)
Accounted ==
  /\ Done \cup Left = 1 .. read
  /\ \A i \in DOMAIN calls : calls[i].next > 0

(* No call has anything left to send.                                      *)
Idle == \A i \in DOMAIN calls : ~Unfinished(calls[i])

NoClose == \A i \in DOMAIN wire : wire[i].type # CLOSE
OneClose == \A i, j \in DOMAIN wire : wire[i].type = CLOSE /\ wire[j].type = CLOSE => i = j
CloseIsLast == \A i \in DOMAIN wire : wire[i].type = CLOSE => \A j \in Sent : j < i

(* Until the bytes end no CLOSE was sent for them, and then the request is *)
(* not in the table for a second one.  No piece comes behind a CLOSE that  *)
(* ends them, and no call has one left.                                    *)
Closing ==
  /\ closed = "no" => NoClose
  /\ closed # "no" => ~entry
  /\ OneClose
  /\ closed = "ended" => Idle /\ CloseIsLast

(* A piece of MaxDataChunk bytes fits in a frame, with its header.         *)
LEMMA Sizes ==
  /\ Byte + 1 \in Numbers16 /\ MaxFramePayload \in Nat /\ MaxFramePayload > 4
  /\ MaxDataChunk \in Nat /\ MaxDataChunk > 1 /\ 2 + MaxDataChunk < MaxFramePayload
<1> DEFINE x == Byte * Byte
<1>1. Byte \in Nat /\ Byte >= 3
  BY ByteAssumption
<1>2. x \in Nat /\ x >= 3 * Byte
  BY <1>1
<1> HIDE DEF x
<1>3. x >= 9 /\ Byte + 1 <= x - 1
  BY <1>1, <1>2
<1>4. MaxFramePayload = x - 1 /\ MaxDataChunk = x - 4
  BY <1>2 DEF MaxFramePayload, MaxDataChunk, DataHeaderLen, x
<1> QED BY <1>1, <1>2, <1>3, <1>4 DEF Numbers16

LEMMA DataType ==
  ASSUME NEW n \in Nat, NEW l \in Nat
  PROVE  /\ Data(n, l) \in Frames /\ Data(n, l).type = DATA /\ Data(n, l).data[1] = n
         /\ n = l => Len(Data(n, l).data) # MaxDataChunk
<1> DEFINE m == IF n = l THEN 1 ELSE MaxDataChunk
           d == [i \in 1 .. m |-> n]
<1>1. m \in Nat /\ m >= 1 /\ 2 + m < MaxFramePayload /\ (n = l => m # MaxDataChunk)
  BY Sizes
<1>2. Data(n, l) = [type |-> DATA, reqid |-> Byte + 1, data |-> d]
  BY DEF Data, Reqid
<1> HIDE DEF m
<1>3. d \in Seq(Nat) /\ Len(d) = m /\ d[1] = n
  <2>1. d \in [1 .. m -> Nat]
    OBVIOUS
  <2> QED BY <1>1, <2>1
<1> HIDE DEF d
<1> DEFINE f == [type |-> DATA, reqid |-> Byte + 1, data |-> d]
<1>4. f \in DataFrames /\ f.type = DATA /\ f.data = d /\ f.reqid = Byte + 1
  BY <1>3, Sizes DEF DataFrames
<1> HIDE DEF f
<1>5. Fields(f) = Uint16(Byte + 1) \o d
  BY <1>4, FieldsByType DEF EncodeData
<1>6. Uint16(Byte + 1) \in Seq(Nat) /\ Len(Uint16(Byte + 1)) = 2
  <2>1. Byte + 1 \in Nat
    BY ByteAssumption
  <2> QED BY <2>1, Uint16Type, Zenon
<1>7. Len(Fields(f)) = 2 + m
  <2> DEFINE u == Uint16(Byte + 1)
  <2>1. u \in Seq(Nat) /\ Len(u) = 2 /\ Fields(f) = u \o d
    BY <1>5, <1>6
  <2> HIDE DEF u
  <2>2. Len(u \o d) = Len(u) + Len(d)
    BY <1>3, <2>1, Concat, Zenon
  <2> QED BY <1>3, <2>1, <2>2, Zenon
<1>8. Encodable(f)
  <2>1. Len(Fields(f)) < MaxFramePayload
    BY <1>1, <1>7
  <2>2. f.type \notin {AUTH, CAPABILITIES}
    BY <1>4 DEF DATA, AUTH, CAPABILITIES
  <2> QED BY <2>1, <2>2 DEF Encodable
<1>9. n = l => Len(f.data) # MaxDataChunk
  BY <1>1, <1>3, <1>4
<1> QED BY <1>2, <1>3, <1>4, <1>8, <1>9 DEF Frames, f

LEMMA CloseType == Close \in Frames /\ Close.type = CLOSE /\ Close.type # DATA
<1>1. Close \in RequestFrames /\ Close.type = CLOSE /\ Close.reqid = Byte + 1
  BY Sizes DEF Close, Reqid, RequestFrames
<1>2. Fields(Close) = Uint16(Byte + 1)
  BY <1>1, FieldsByType
<1>3. Len(Uint16(Byte + 1)) = 2
  <2>1. Byte + 1 \in Nat
    BY ByteAssumption
  <2> QED BY <2>1, Uint16Type, Zenon
<1>4. Encodable(Close)
  <2>1. Len(Fields(Close)) < MaxFramePayload
    <3> DEFINE x == Len(Fields(Close))
    <3>1. x = 2
      BY <1>2, <1>3, Zenon
    <3> HIDE DEF x
    <3>2. x < MaxFramePayload
      BY <3>1, Sizes
    <3> QED BY <3>2 DEF x
  <2>2. Close.type \notin {AUTH, CAPABILITIES}
    BY <1>1 DEF CLOSE, AUTH, CAPABILITIES
  <2> QED BY <2>1, <2>2 DEF Encodable
<1> QED BY <1>1, <1>4 DEF Frames, CLOSE, DATA

LEMMA OtherType ==
  ASSUME NEW f \in Others PROVE f \in Frames /\ f.type # DATA /\ f.type # CLOSE
  BY OthersAssumption DEF IsOther

LEMMA StateTypes ==
  ASSUME TypeOK
  PROVE  /\ read \in Nat /\ MaxBytes \in Nat /\ read <= MaxBytes
         /\ stream \in BOOLEAN /\ entry \in BOOLEAN /\ dropped \subseteq 1 .. MaxBytes
         /\ wire \in Seq(Frames) /\ Len(wire) \in Nat /\ DOMAIN wire = 1 .. Len(wire)
         /\ calls \in Seq(Call) /\ Len(calls) \in Nat /\ DOMAIN calls = 1 .. Len(calls)
         /\ \A i \in DOMAIN calls : calls[i] \in Call /\ calls[i].next \in Nat
                                     /\ calls[i].last \in 1 .. MaxBytes
<1>1. /\ read \in Nat /\ MaxBytes \in Nat /\ read <= MaxBytes
      /\ stream \in BOOLEAN /\ entry \in BOOLEAN /\ dropped \subseteq 1 .. MaxBytes
  BY PiecesAssumption DEF TypeOK
<1>2. wire \in Seq(Frames) /\ Len(wire) \in Nat /\ DOMAIN wire = 1 .. Len(wire)
  BY DEF TypeOK
<1>3. calls \in Seq(Call)
  BY DEF TypeOK, Call
<1>4. Len(calls) \in Nat /\ DOMAIN calls = 1 .. Len(calls) /\ \A i \in DOMAIN calls : calls[i] \in Call
  BY <1>3
<1>5. \A c \in Call : c.next \in Nat /\ c.last \in 1 .. MaxBytes
  BY DEF Call
<1> QED BY <1>1, <1>2, <1>3, <1>4, <1>5

(* More frames on the wire.                                                *)
LEMMA AppendFrames ==
  ASSUME TypeOK, NEW fs \in Seq(Frames), wire' = wire \o fs
  PROVE  /\ wire' \in Seq(Frames) /\ Len(wire) \in Nat /\ Len(fs) \in Nat
         /\ DOMAIN wire' = 1 .. Len(wire) + Len(fs) /\ DOMAIN wire = 1 .. Len(wire)
         /\ \A i \in DOMAIN wire : wire'[i] = wire[i]
         /\ \A i \in DOMAIN fs : wire'[Len(wire) + i] = fs[i]
         /\ (\A i \in DOMAIN fs : fs[i].type = DATA) =>
              Carried' = Carried \cup {fs[i].data[1] : i \in DOMAIN fs}
<1>1. /\ wire' \in Seq(Frames) /\ Len(wire) \in Nat /\ Len(fs) \in Nat
      /\ DOMAIN wire' = 1 .. Len(wire) + Len(fs) /\ DOMAIN wire = 1 .. Len(wire)
      /\ DOMAIN fs = 1 .. Len(fs)
      /\ \A i \in DOMAIN wire : wire'[i] = wire[i]
      /\ \A i \in DOMAIN fs : wire'[Len(wire) + i] = fs[i]
  BY StateTypes
<1>2. ASSUME \A i \in DOMAIN fs : fs[i].type = DATA
      PROVE  Carried' = Carried \cup {fs[i].data[1] : i \in DOMAIN fs}
  <2> DEFINE m == Len(wire)
             Behind == {fs[i].data[1] : i \in DOMAIN fs}
  <2>1. \A n : n \in Carried <=> \E i \in DOMAIN wire : wire[i].type = DATA /\ n = wire[i].data[1]
    BY DEF Carried, Sent
  <2>2. \A n : n \in Carried' <=> \E i \in DOMAIN wire' : wire'[i].type = DATA /\ n = wire'[i].data[1]
    BY DEF Carried, Sent
  <2>3. ASSUME NEW n \in Carried' PROVE n \in Carried \cup Behind
    <3>1. PICK i \in DOMAIN wire' : wire'[i].type = DATA /\ n = wire'[i].data[1]
      BY <2>2
    <3>2. CASE i \in DOMAIN wire
      BY <1>1, <2>1, <3>1, <3>2
    <3>3. CASE i \notin DOMAIN wire
      <4>1. i - m \in DOMAIN fs /\ m + (i - m) = i
        BY <1>1, <3>3
      <4> DEFINE j == i - m
      <4>2. wire'[m + j] = fs[j]
        BY <1>1, <4>1
      <4> QED BY <3>1, <4>1, <4>2
    <3> QED BY <3>2, <3>3
  <2>4. ASSUME NEW n \in Carried PROVE n \in Carried'
    <3>1. PICK i \in DOMAIN wire : wire[i].type = DATA /\ n = wire[i].data[1]
      BY <2>1
    <3>2. i \in DOMAIN wire' /\ wire'[i] = wire[i]
      BY <1>1
    <3> QED BY <2>2, <3>1, <3>2
  <2>5. ASSUME NEW n \in Behind PROVE n \in Carried'
    <3>1. PICK i \in DOMAIN fs : n = fs[i].data[1]
      OBVIOUS
    <3>2. m + i \in DOMAIN wire' /\ wire'[m + i] = fs[i]
      BY <1>1
    <3> QED BY <1>2, <2>2, <3>1, <3>2
  <2> QED BY <2>3, <2>4, <2>5
<1> QED BY <1>1, <1>2

(* Pieces that are pushed have had their turn, and no CLOSE is among them. *)
LEMMA PushDone ==
  ASSUME TypeOK, NEW fs \in Seq(Frames), NEW N, Push(fs, N),
         \A i \in DOMAIN fs : fs[i].type = DATA, N = {fs[i].data[1] : i \in DOMAIN fs}
  PROVE  /\ wire' \in Seq(Frames) /\ dropped' \subseteq dropped \cup N
         /\ Done' = Done \cup N
         /\ Carried' = Carried \/ Carried' = Carried \cup N
         /\ \A i \in DOMAIN wire' : wire'[i].type = CLOSE => i \in DOMAIN wire /\ wire[i].type = CLOSE
<1>1. CASE stream
  <2>1. wire' = wire \o fs /\ dropped' = dropped
    BY <1>1 DEF Push
  <2>2. wire' \in Seq(Frames) /\ Carried' = Carried \cup N
    BY <2>1, AppendFrames
  <2>3. ASSUME NEW i \in DOMAIN wire', wire'[i].type = CLOSE
        PROVE  i \in DOMAIN wire /\ wire[i].type = CLOSE
    <3>1. CASE i \in DOMAIN wire
      BY <2>1, <2>3, <3>1, AppendFrames
    <3>2. CASE i \notin DOMAIN wire
      <4> DEFINE k == i - Len(wire)
      <4>1. k \in DOMAIN fs /\ Len(wire) + k = i
        BY <2>1, <3>2, AppendFrames
      <4>2. wire'[Len(wire) + k] = fs[k]
        BY <2>1, <4>1, AppendFrames
      <4> QED BY <2>3, <4>1, <4>2 DEF DATA, CLOSE
    <3> QED BY <3>1, <3>2
  <2> QED BY <2>1, <2>2, <2>3 DEF Done
<1>2. CASE ~stream
  <2>1. wire' = wire /\ dropped' = dropped \cup N
    BY <1>2 DEF Push
  <2>2. Sent' = Sent /\ Carried' = Carried
    BY <2>1 DEF Sent, Carried
  <2>3. wire' \in Seq(Frames)
    BY <2>1, StateTypes
  <2> QED BY <2>1, <2>2, <2>3 DEF Done
<1> QED BY <1>1, <1>2

LEMMA AppendFrame ==
  ASSUME TypeOK, NEW f \in Frames, wire' = Append(wire, f)
  PROVE  /\ wire' \in Seq(Frames) /\ DOMAIN wire' = DOMAIN wire \cup {Len(wire) + 1}
         /\ \A i \in DOMAIN wire : wire'[i] = wire[i] /\ i \in Nat /\ i < Len(wire) + 1
         /\ wire'[Len(wire) + 1] = f /\ Len(wire) \in Nat
         /\ f.type # DATA => Sent' = Sent
         /\ f.type = DATA => Sent' = Sent \cup {Len(wire) + 1}
<1>1. /\ wire' \in Seq(Frames) /\ DOMAIN wire = 1 .. Len(wire) /\ Len(wire) \in Nat
      /\ DOMAIN wire' = DOMAIN wire \cup {Len(wire) + 1}
      /\ \A i \in DOMAIN wire : wire'[i] = wire[i] /\ i \in Nat /\ i < Len(wire) + 1
      /\ wire'[Len(wire) + 1] = f
  BY StateTypes
<1>2. f.type # DATA => Sent' = Sent
  BY <1>1 DEF Sent
<1>3. f.type = DATA => Sent' = Sent \cup {Len(wire) + 1}
  BY <1>1 DEF Sent
<1> QED BY <1>1, <1>2, <1>3

(* The calls the check phase resumes, in their order.                      *)
Waiting == {i \in DOMAIN calls : Unfinished(calls[i])}
Enumerates(at, n, S) ==
  /\ at \in [1 .. n -> S] /\ S = {at[k] : k \in 1 .. n}
  /\ \A j, k \in 1 .. n : j < k => at[j] < at[k]

(* The calls that wait have an order, which is the one CHOOSE finds.       *)
LEMMA WaitingEnumerated ==
  ASSUME TypeOK PROVE \E n \in 0 .. Len(calls) : \E at : Enumerates(at, n, Waiting)
<1> DEFINE Upto(m) == Waiting \cap 1 .. m
           l == Len(calls)
           S == {m \in Nat : \E n \in 0 .. m : \E at : Enumerates(at, n, Upto(m))}
<1>1. l \in Nat /\ Waiting \subseteq 1 .. l
  BY StateTypes DEF Waiting
<1>2. 0 \in S
  <2>1. Upto(0) = {}
    BY <1>1
  <2>2. Enumerates([k \in 1 .. 0 |-> 0], 0, Upto(0))
    BY <2>1 DEF Enumerates
  <2> QED BY <2>2
<1>3. ASSUME NEW m \in S PROVE m + 1 \in S
  <2> HIDE DEF Upto
  <2>1. PICK n \in 0 .. m : \E at : Enumerates(at, n, Upto(m))
    OBVIOUS
  <2>2. PICK at : Enumerates(at, n, Upto(m))
    BY <2>1
  <2>3. m \in Nat /\ n \in Nat /\ Upto(m) \subseteq Nat /\ \A i \in Upto(m) : i <= m
    BY <1>1 DEF Upto
  <2>4. CASE m + 1 \notin Waiting
    <3>1. Upto(m + 1) = Upto(m)
      BY <1>1, <2>3, <2>4 DEF Upto
    <3> QED BY <2>2, <2>3, <3>1
  <2>5. CASE m + 1 \in Waiting
    <3> DEFINE to == [k \in 1 .. n + 1 |-> IF k <= n THEN at[k] ELSE m + 1]
               U == Upto(m)
               V == Upto(m + 1)
    <3>1. V = U \cup {m + 1}
      BY <1>1, <2>3, <2>5 DEF Upto
    <3>2. at \in [1 .. n -> U] /\ U = {at[k] : k \in 1 .. n} /\ \A j, k \in 1 .. n : j < k => at[j] < at[k]
      BY <2>2 DEF Enumerates
    <3> HIDE DEF U, V
    <3>3. U \subseteq Nat /\ \A i \in U : i <= m
      BY <2>3 DEF U
    <3>4. /\ \A k \in 1 .. n : to[k] = at[k] /\ to[k] \in U
          /\ to[n + 1] = m + 1 /\ 1 .. n + 1 = (1 .. n) \cup {n + 1}
      BY <2>3, <3>2
    <3>5. to \in [1 .. n + 1 -> V]
      BY <2>3, <3>1, <3>2
    <3> HIDE DEF to
    <3>6. V = {to[k] : k \in 1 .. n + 1}
      BY <3>1, <3>2, <3>4
    <3>7. ASSUME NEW j \in 1 .. n + 1, NEW k \in 1 .. n + 1, j < k PROVE to[j] < to[k]
      <4>1. j \in 1 .. n
        BY <2>3, <3>7
      <4> DEFINE x == at[j]
                 y == at[k]
      <4>2. to[j] = x /\ x \in Nat /\ x <= m
        BY <3>2, <3>3, <3>4, <4>1
      <4>3. CASE k \in 1 .. n
        <5>1. to[k] = y /\ x < y
          BY <3>2, <3>4, <3>7, <4>1, <4>3
        <5> HIDE DEF x, y
        <5> QED BY <4>2, <5>1
      <4>4. CASE k = n + 1
        <5>1. to[k] = m + 1
          BY <3>4, <4>4
        <5> HIDE DEF x
        <5>2. x < m + 1
          BY <2>3, <4>2
        <5> QED BY <4>2, <5>1, <5>2
      <4> QED BY <3>4, <4>3, <4>4
    <3>8. Enumerates(to, n + 1, V)
      BY <3>5, <3>6, <3>7 DEF Enumerates
    <3>9. n + 1 \in 0 .. m + 1 /\ m + 1 \in Nat
      BY <2>3
    <3> QED BY <3>8, <3>9 DEF V
  <2> QED BY <2>4, <2>5
<1>4. S = Nat
  <2>1. S \subseteq Nat
    OBVIOUS
  <2> HIDE DEF S
  <2> QED BY <1>2, <1>3, <2>1, SetInduction
<1>5. Upto(l) = Waiting
  BY <1>1
<1> HIDE DEF Upto
<1>6. \E n \in 0 .. l : \E at : Enumerates(at, n, Upto(l))
  BY <1>1, <1>4
<1> QED BY <1>5, <1>6

LEMMA PendingEnumerates ==
  ASSUME TypeOK PROVE \E n \in 0 .. Len(calls) : Enumerates(Pending, n, Waiting)
<1> DEFINE Some == UNION {[1 .. n -> Waiting] : n \in 0 .. Len(calls)}
           Fits(at) == /\ Waiting = {at[k] : k \in DOMAIN at}
                       /\ \A j, k \in DOMAIN at : j < k => at[j] < at[k]
<1>1. Pending = CHOOSE at \in Some : Fits(at)
  BY DEF Pending, Waiting
<1>2. PICK n \in 0 .. Len(calls) : \E at : Enumerates(at, n, Waiting)
  BY WaitingEnumerated
<1>3. PICK at : Enumerates(at, n, Waiting)
  BY <1>2
<1>4. at \in Some /\ Fits(at)
  BY <1>3 DEF Enumerates
<1>5. Pending \in Some /\ Fits(Pending)
  BY <1>1, <1>4
<1>6. PICK m \in 0 .. Len(calls) : Pending \in [1 .. m -> Waiting]
  BY <1>5
<1> QED BY <1>5, <1>6 DEF Enumerates

(* The last piece of a buffer does not fill its frame.                     *)
Full(f) == Len(f.data) = MaxDataChunk

(* What a check phase sends, and what it leaves to send.                   *)
LEMMA CheckPhaseEffect ==
  ASSUME TypeOK, CheckPhase
  PROVE  \E n, at, fs :
           /\ n \in Nat /\ Enumerates(at, n, Waiting)
           /\ at \in [1 .. n -> DOMAIN calls]
           /\ Push(fs, {fs[k].data[1] : k \in 1 .. n}) /\ fs \in Seq(Frames) /\ DOMAIN fs = 1 .. n
           /\ \A k \in 1 .. n : fs[k].type = DATA /\ fs[k].data[1] = calls[at[k]].next
           /\ \A k \in 1 .. n : Full(fs[k]) => calls[at[k]].next # calls[at[k]].last
           /\ calls' \in Seq(Call) /\ DOMAIN calls' = 1 .. n
           /\ \A k \in 1 .. n : /\ calls'[k].next = calls[at[k]].next + 1
                                /\ calls'[k].last = calls[at[k]].last
           /\ UNCHANGED <<direction, read, closed, entry, stream>>
<1> DEFINE at == Pending
           fs == [k \in DOMAIN at |-> Data(calls[at[k]].next, calls[at[k]].last)]
           N == {calls[at[k]].next : k \in DOMAIN at}
<1>1. PICK n \in 0 .. Len(calls) : Enumerates(at, n, Waiting)
  BY PendingEnumerates
<1>2. /\ UNCHANGED <<direction, read, closed, entry, stream>> /\ Push(fs, N)
      /\ calls' = [k \in DOMAIN at |-> [calls[at[k]] EXCEPT !.next = @ + 1]]
  BY DEF CheckPhase, Resume, link
<1> HIDE DEF at
<1>3. n \in Nat /\ DOMAIN at = 1 .. n /\ \A k \in 1 .. n : at[k] \in DOMAIN calls
  BY <1>1, StateTypes DEF Enumerates, Waiting
<1>4. at \in [1 .. n -> DOMAIN calls]
  BY <1>1, <1>3 DEF Enumerates
<1>5. ASSUME NEW k \in 1 .. n
      PROVE  /\ calls[at[k]] \in Call /\ calls[at[k]].next \in Nat /\ calls[at[k]].last \in Nat
             /\ Data(calls[at[k]].next, calls[at[k]].last) \in Frames
             /\ Data(calls[at[k]].next, calls[at[k]].last).type = DATA
             /\ Data(calls[at[k]].next, calls[at[k]].last).data[1] = calls[at[k]].next
             /\ Full(Data(calls[at[k]].next, calls[at[k]].last)) =>
                  calls[at[k]].next # calls[at[k]].last
  <2> DEFINE x == calls[at[k]].next
             y == calls[at[k]].last
  <2>1. calls[at[k]] \in Call /\ x \in Nat /\ y \in Nat
    BY <1>3, StateTypes
  <2> HIDE DEF x, y
  <2>2. /\ Data(x, y) \in Frames /\ Data(x, y).type = DATA /\ Data(x, y).data[1] = x
        /\ Full(Data(x, y)) => x # y
    BY <2>1, DataType DEF Full
  <2> QED BY <2>1, <2>2 DEF x, y
<1> DEFINE F(k) == Data(calls[at[k]].next, calls[at[k]].last)
           C(k) == [calls[at[k]] EXCEPT !.next = @ + 1]
<1>6. fs = [k \in 1 .. n |-> F(k)] /\ calls' = [k \in 1 .. n |-> C(k)]
  BY <1>2, <1>3
<1>7. /\ \A k \in 1 .. n : F(k) \in Frames
      /\ \A k \in 1 .. n : F(k).type = DATA /\ F(k).data[1] = calls[at[k]].next
      /\ \A k \in 1 .. n : Full(F(k)) => calls[at[k]].next # calls[at[k]].last
  BY <1>5
<1>8. ASSUME NEW k \in 1 .. n
      PROVE  C(k) \in Call /\ C(k).next = calls[at[k]].next + 1 /\ C(k).last = calls[at[k]].last
  <2> DEFINE c == calls[at[k]]
  <2>1. c \in Call
    BY <1>5
  <2> HIDE DEF c
  <2>2. [c EXCEPT !.next = @ + 1] \in Call
    BY <2>1 DEF Call
  <2>3. [c EXCEPT !.next = @ + 1].next = c.next + 1 /\ [c EXCEPT !.next = @ + 1].last = c.last
    BY <2>1 DEF Call
  <2> QED BY <2>2, <2>3 DEF c
<1> HIDE DEF F, C, fs
<1>9. fs \in Seq(Frames) /\ DOMAIN fs = 1 .. n /\ \A k \in 1 .. n : fs[k] = F(k)
  <2>1. fs \in [1 .. n -> Frames]
    BY <1>6, <1>7
  <2> QED BY <1>3, <1>6, <2>1
<1>10. calls' \in Seq(Call) /\ DOMAIN calls' = 1 .. n /\ \A k \in 1 .. n : calls'[k] = C(k)
  <2>1. calls' \in [1 .. n -> Call]
    BY <1>6, <1>8
  <2> QED BY <1>3, <1>6, <2>1
<1>11. /\ \A k \in 1 .. n : fs[k].type = DATA /\ fs[k].data[1] = calls[at[k]].next
       /\ \A k \in 1 .. n : Full(fs[k]) => calls[at[k]].next # calls[at[k]].last
  BY <1>7, <1>9
<1>12. \A k \in 1 .. n : calls'[k].next = calls[at[k]].next + 1 /\ calls'[k].last = calls[at[k]].last
  BY <1>8, <1>10
<1>13. N = {fs[k].data[1] : k \in 1 .. n}
  BY <1>3, <1>11
<1>14. UNCHANGED <<direction, read, closed, entry, stream>> /\ Push(fs, {fs[k].data[1] : k \in 1 .. n})
  BY <1>2, <1>13 DEF fs
<1> QED BY <1>1, <1>3, <1>4, <1>9, <1>10, <1>11, <1>12, <1>14

LEMMA CarriedByAppend ==
  ASSUME TypeOK, NEW f \in Frames, wire' = Append(wire, f)
  PROVE  /\ f.type # DATA => Carried' = Carried
         /\ f.type = DATA => Carried' = Carried \cup {f.data[1]}
<1>1. /\ DOMAIN wire' = DOMAIN wire \cup {Len(wire) + 1} /\ wire'[Len(wire) + 1] = f
      /\ \A i \in DOMAIN wire : wire'[i] = wire[i]
  BY AppendFrame
<1>2. \A n : n \in Carried <=> \E i \in DOMAIN wire : wire[i].type = DATA /\ n = wire[i].data[1]
  BY DEF Carried, Sent
<1>3. \A n : n \in Carried' <=> \E i \in DOMAIN wire' : wire'[i].type = DATA /\ n = wire'[i].data[1]
  BY DEF Carried, Sent
<1>4. ASSUME NEW n
      PROVE  n \in Carried' <=> n \in Carried \/ (f.type = DATA /\ n = f.data[1])
  BY <1>1, <1>2, <1>3
<1> QED BY <1>4

(* One lemma for each action: what was read is accounted for.              *)
LEMMA BufferSize ==
  ASSUME TypeOK, NEW n \in 1 .. MaxPieces[direction]
  PROVE  n \in Nat /\ n >= 1 /\ read \in Nat /\ MaxBytes \in Nat
<1>1. ReversePieces \in Nat /\ ForwardPieces \in Nat /\ direction \in {"reverse", "forward"}
  BY PiecesAssumption DEF TypeOK, Directions
<1>2. MaxPieces[direction] \in Nat
  BY <1>1 DEF MaxPieces
<1> QED BY <1>2, StateTypes

(* The first piece of a buffer, and the frames that carry it or nothing.   *)
LEMMA FirstPiece ==
  ASSUME TypeOK, NEW n \in 1 .. MaxPieces[direction], SendData(n)
  PROVE  LET f == Data(read + 1, read + n) IN
         /\ f \in Frames /\ f.type = DATA /\ f.data[1] = read + 1
         /\ <<f>> \in Seq(Frames) /\ DOMAIN <<f>> = {1}
         /\ {read + 1} = {<<f>>[i].data[1] : i \in DOMAIN <<f>>}
         /\ \A i \in DOMAIN <<f>> : <<f>>[i].type = DATA
         /\ wire' = Append(wire, f) \/ wire' = wire
<1> DEFINE x == read + 1
           y == read + n
           f == Data(x, y)
<1>1. x \in Nat /\ y \in Nat
  BY BufferSize
<1> HIDE DEF x, y
<1>2. f \in Frames /\ f.type = DATA /\ f.data[1] = x
  BY <1>1, DataType
<1>3. wire' = wire \o <<f>> \/ wire' = wire
  BY DEF SendData, Push, x, y
<1> HIDE DEF f
<1>4. wire \o <<f>> = Append(wire, f)
  BY <1>2, StateTypes
<1>5. <<f>> \in Seq(Frames) /\ DOMAIN <<f>> = {1} /\ <<f>>[1] = f
  BY <1>2
<1>6. {x} = {<<f>>[i].data[1] : i \in DOMAIN <<f>>} /\ \A i \in DOMAIN <<f>> : <<f>>[i].type = DATA
  BY <1>2, <1>5
<1> QED BY <1>2, <1>3, <1>4, <1>5, <1>6 DEF f, x, y

LEMMA LeftIs ==
  \A m : m \in Left <=> m \in 1 .. MaxBytes /\ \E i \in DOMAIN calls : calls[i].next <= m /\ m <= calls[i].last
  BY DEF Left

LEMMA SendDataHolds ==
  ASSUME TypeOK, Accounted, Closing, NEW n \in 1 .. MaxPieces[direction], SendData(n)
  PROVE  TypeOK' /\ Accounted' /\ Closing'
<1> DEFINE f == Data(read + 1, read + n)
           e == [next |-> read + 2, last |-> read + n]
<1>1. /\ closed = "no" /\ UNCHANGED <<direction, stream, closed, entry>>
      /\ read' = read + n /\ read + n <= MaxBytes
  BY DEF SendData, link
<1>2. n \in Nat /\ n >= 1 /\ read \in Nat /\ MaxBytes \in Nat
  BY BufferSize
<1>3. Done \cup Left = 1 .. read /\ \A i \in DOMAIN calls : calls[i].next > 0
  BY DEF Accounted
<1>4. dropped \subseteq 1 .. MaxBytes
  BY StateTypes
<1>5. CASE ~entry
  <2>1. UNCHANGED <<calls, wire>> /\ dropped' = dropped \cup (read + 1 .. read + n)
    BY <1>5 DEF SendData
  <2>2. Sent' = Sent /\ Carried' = Carried /\ Left' = Left
    BY <2>1 DEF Sent, Carried, Left
  <2>3. Done' \cup Left' = 1 .. read + n
    BY <1>2, <1>3, <2>1, <2>2 DEF Done
  <2>4. dropped' \subseteq 1 .. MaxBytes
    BY <1>1, <1>2, <1>4, <2>1
  <2>5. TypeOK'
    BY <1>1, <1>2, <2>1, <2>4 DEF TypeOK
  <2>6. Accounted'
    BY <1>1, <1>3, <2>1, <2>3 DEF Accounted
  <2>7. Closing'
    BY <1>1, <2>1 DEF Closing, NoClose, OneClose
  <2> QED BY <2>5, <2>6, <2>7
<1>6. CASE entry
  <2>1. Push(<<f>>, {read + 1}) /\ calls' = Append(calls, e)
    BY <1>6 DEF SendData
  <2>2. e \in Call /\ e.next = read + 2 /\ e.last = read + n
    BY <1>1, <1>2 DEF Call
  <2>3. /\ wire' \in Seq(Frames) /\ dropped' \subseteq dropped \cup {read + 1}
        /\ Done' = Done \cup {read + 1}
        /\ \A i \in DOMAIN wire' : wire'[i].type = CLOSE => i \in DOMAIN wire /\ wire[i].type = CLOSE
    <3>1. /\ <<f>> \in Seq(Frames) /\ {read + 1} = {<<f>>[i].data[1] : i \in DOMAIN <<f>>}
          /\ \A i \in DOMAIN <<f>> : <<f>>[i].type = DATA
      BY FirstPiece
    <3> HIDE DEF f
    <3> QED BY <2>1, <3>1, PushDone
  <2> HIDE DEF f, e
  <2>4. /\ calls' \in Seq(Call) /\ Len(calls) \in Nat /\ DOMAIN calls' = DOMAIN calls \cup {Len(calls) + 1}
        /\ calls'[Len(calls) + 1] = e /\ \A i \in DOMAIN calls : calls'[i] = calls[i]
    <3>1. calls \in Seq(Call)
      BY StateTypes
    <3> QED BY <2>1, <2>2, <3>1
  <2>5. TypeOK'
    <3>1. calls' \in Seq([next : Nat, last : 1 .. MaxBytes])
      BY <2>4 DEF Call
    <3>2. dropped' \subseteq 1 .. MaxBytes
      BY <1>1, <1>2, <1>4, <2>3
    <3> QED BY <1>1, <1>2, <2>3, <3>1, <3>2 DEF TypeOK
  <2>6. Accounted'
    <3>1. Left' = Left \cup (read + 2 .. read + n)
      <4>1. \A m : m \in Left' <=> m \in 1 .. MaxBytes /\ \E i \in DOMAIN calls' : calls'[i].next <= m /\ m <= calls'[i].last
        BY DEF Left
      <4>2. \A m \in read + 2 .. read + n : m \in 1 .. MaxBytes
        BY <1>1, <1>2
      <4>3. \A m \in 1 .. MaxBytes : e.next <= m /\ m <= e.last <=> m \in read + 2 .. read + n
        BY <1>2, <2>2
      <4> QED BY <2>4, <4>1, <4>2, <4>3, LeftIs
    <3>2. Done' \cup Left' = 1 .. read + n
      BY <1>2, <1>3, <2>3, <3>1
    <3>3. \A i \in DOMAIN calls' : calls'[i].next > 0
      <4>1. e.next > 0
        BY <1>2, <2>2
      <4> QED BY <1>3, <2>4, <4>1
    <3> QED BY <1>1, <3>2, <3>3 DEF Accounted
  <2>7. Closing'
    <3>1. NoClose' /\ OneClose'
      BY <1>1, <2>3 DEF Closing, NoClose, OneClose
    <3> QED BY <1>1, <3>1 DEF Closing
  <2> QED BY <2>5, <2>6, <2>7
<1> QED BY <1>5, <1>6

LEMMA CheckPhaseHolds ==
  ASSUME TypeOK, Accounted, Closing, CheckPhase
  PROVE  TypeOK' /\ Accounted' /\ Closing'
<1>1. PICK n, at, fs :
           /\ n \in Nat /\ Enumerates(at, n, Waiting)
           /\ at \in [1 .. n -> DOMAIN calls]
           /\ Push(fs, {fs[k].data[1] : k \in 1 .. n}) /\ fs \in Seq(Frames) /\ DOMAIN fs = 1 .. n
           /\ \A k \in 1 .. n : fs[k].type = DATA /\ fs[k].data[1] = calls[at[k]].next
           /\ calls' \in Seq(Call) /\ DOMAIN calls' = 1 .. n
           /\ \A k \in 1 .. n : /\ calls'[k].next = calls[at[k]].next + 1
                                /\ calls'[k].last = calls[at[k]].last
           /\ UNCHANGED <<direction, read, closed, entry, stream>>
  BY CheckPhaseEffect
<1>2. /\ wire' \in Seq(Frames) /\ dropped' \subseteq dropped \cup {fs[k].data[1] : k \in 1 .. n}
      /\ Done' = Done \cup {fs[k].data[1] : k \in 1 .. n}
      /\ \A i \in DOMAIN wire' : wire'[i].type = CLOSE => i \in DOMAIN wire /\ wire[i].type = CLOSE
  <2>1. \A i \in DOMAIN fs : fs[i].type = DATA
    BY <1>1
  <2> QED BY <1>1, <2>1, PushDone
<1>3. \A i : i \in Waiting <=> \E k \in 1 .. n : i = at[k]
  BY <1>1 DEF Enumerates
<1>4. \A i \in DOMAIN calls : calls[i].next \in Nat /\ calls[i].last \in 1 .. MaxBytes /\ calls[i].next > 0
  BY StateTypes DEF Accounted
<1>6. Accounted'
  <2>1. \A m : m \in Done' <=> m \in Done \/ \E k \in 1 .. n : m = calls[at[k]].next
    <3>1. \A k \in 1 .. n : fs[k].data[1] = calls[at[k]].next
      BY <1>1
    <3>2. \A m : m \in {fs[k].data[1] : k \in 1 .. n} <=> \E k \in 1 .. n : m = fs[k].data[1]
      OBVIOUS
    <3> QED BY <1>2, <3>1, <3>2
  <2>2. \A m : m \in Left <=> m \in 1 .. MaxBytes /\ \E i \in DOMAIN calls : calls[i].next <= m /\ m <= calls[i].last
    BY DEF Left
  <2>3. \A m : m \in Left' <=> m \in 1 .. MaxBytes /\ \E k \in 1 .. n : calls[at[k]].next + 1 <= m /\ m <= calls[at[k]].last
    BY <1>1 DEF Left
  <2>4. MaxBytes \in Nat /\ read \in Nat /\ Done \cup Left = 1 .. read
    BY StateTypes DEF Accounted
  <2>5. ASSUME NEW m \in Left PROVE m \in Done' \cup Left'
    <3>1. m \in 1 .. MaxBytes /\ m \in Nat
      BY <2>2, <2>4
    <3>2. PICK i \in DOMAIN calls : calls[i].next <= m /\ m <= calls[i].last
      BY <2>2
    <3> DEFINE x == calls[i].next
               y == calls[i].last
    <3>3. x \in Nat /\ y \in Nat /\ x <= m /\ m <= y
      BY <1>4, <2>4, <3>2
    <3>4. i \in Waiting
      <4>1. x <= y
        <5> HIDE DEF x, y
        <5> QED BY <3>1, <3>3
      <4> QED BY <4>1 DEF Waiting, Unfinished
    <3>5. PICK k \in 1 .. n : i = at[k]
      BY <1>3, <3>4
    <3> HIDE DEF x, y
    <3>6. x = m \/ x + 1 <= m
      BY <3>1, <3>3
    <3> QED BY <2>1, <2>3, <3>1, <3>3, <3>5, <3>6 DEF x, y
  <2>6. ASSUME NEW k \in 1 .. n PROVE calls[at[k]].next \in Left
    <3> DEFINE i == at[k]
               x == calls[i].next
               y == calls[i].last
    <3>1. i \in Waiting /\ i \in DOMAIN calls
      BY <1>3 DEF Waiting
    <3>2. x <= y /\ x \in Nat /\ y \in 1 .. MaxBytes /\ x > 0
      BY <1>4, <3>1 DEF Waiting, Unfinished
    <3> HIDE DEF x, y
    <3>3. x \in 1 .. MaxBytes /\ x <= x
      BY <2>4, <3>2
    <3> QED BY <2>2, <3>1, <3>2, <3>3 DEF x, y
  <2>7. ASSUME NEW m \in Left' PROVE m \in Left
    <3>1. m \in 1 .. MaxBytes
      BY <2>3
    <3>2. PICK k \in 1 .. n : calls[at[k]].next + 1 <= m /\ m <= calls[at[k]].last
      BY <2>3
    <3> DEFINE i == at[k]
               x == calls[i].next
    <3>3. i \in DOMAIN calls /\ x \in Nat /\ x + 1 <= m
      BY <1>1, <1>4, <3>2
    <3> HIDE DEF x
    <3>4. x <= m
      BY <2>4, <3>1, <3>3
    <3> QED BY <2>2, <3>1, <3>2, <3>3, <3>4 DEF x
  <2>8. Done' \cup Left' = 1 .. read
    <3>1. Done' \cup Left' \subseteq Done \cup Left
      BY <2>1, <2>6, <2>7
    <3>2. Done \cup Left \subseteq Done' \cup Left'
      BY <2>1, <2>5
    <3> QED BY <2>4, <3>1, <3>2
  <2>9. \A k \in DOMAIN calls' : calls'[k].next > 0
    <3> SUFFICES ASSUME NEW k \in 1 .. n PROVE calls'[k].next > 0
      BY <1>1
    <3> DEFINE x == calls[at[k]].next
    <3>1. x \in Nat /\ calls'[k].next = x + 1
      BY <1>1, <1>4
    <3> HIDE DEF x
    <3> QED BY <3>1
  <2> QED BY <1>1, <2>8, <2>9 DEF Accounted
<1>7. TypeOK'
  <2>1. calls' \in Seq([next : Nat, last : 1 .. MaxBytes])
    BY <1>1 DEF Call
  <2>2. Done' \subseteq 1 .. read /\ dropped' \subseteq Done' /\ MaxBytes \in Nat /\ read \in Nat /\ read <= MaxBytes
    BY <1>1, <1>6, StateTypes DEF Accounted, Done
  <2>3. dropped' \subseteq 1 .. MaxBytes
    BY <2>2
  <2> QED BY <1>1, <1>2, <2>1, <2>3 DEF TypeOK
<1>8. Closing'
  <2>1. closed = "no" => NoClose'
    BY <1>2 DEF Closing, NoClose
  <2>2. OneClose'
    BY <1>2 DEF Closing, OneClose
  <2>3. ASSUME closed = "ended" PROVE Idle' /\ CloseIsLast'
    <3>1. Waiting = {}
      BY <2>3 DEF Closing, Idle, Waiting
    <3>2. n = 0
      <4>1. n \in Nat
        BY <1>1
      <4> QED BY <1>3, <3>1, <4>1
    <3>3. calls' = <<>> /\ fs = <<>>
      BY <1>1, <3>2
    <3>4. wire' = wire
      BY <1>1, <3>3, StateTypes DEF Push
    <3>5. Idle'
      BY <3>3 DEF Idle
    <3> QED BY <2>3, <3>4, <3>5 DEF Closing, CloseIsLast, Sent
  <2> QED BY <1>1, <2>1, <2>2, <2>3 DEF Closing
<1> QED BY <1>6, <1>7, <1>8

(* A frame of no piece, or none.                                           *)
LEMMA NoPieceHolds ==
  ASSUME TypeOK, Accounted, NEW f \in Frames, f.type # DATA,
         wire' = Append(wire, f) \/ wire' = wire,
         UNCHANGED <<direction, read, calls, dropped>>, closed' \in {"no", "ended", "failed"},
         stream' \in BOOLEAN, entry' \in BOOLEAN
  PROVE  TypeOK' /\ Accounted'
<1>1. wire' \in Seq(Frames) /\ Carried' = Carried
  <2>1. CASE wire' = Append(wire, f)
    BY <2>1, AppendFrame, CarriedByAppend
  <2>2. CASE wire' = wire
    BY <2>2, StateTypes DEF Carried, Sent
  <2> QED BY <2>1, <2>2
<1>2. Left' = Left /\ Done' = Done
  BY <1>1 DEF Left, Done
<1> QED BY <1>1, <1>2 DEF TypeOK, Accounted

LEMMA CloseSent ==
  ASSUME TypeOK, NoClose, wire' = Append(wire, Close)
  PROVE  OneClose' /\ CloseIsLast'
<1>1. Close \in Frames /\ Close.type # DATA
  BY CloseType
<1>2. /\ Sent' = Sent /\ Len(wire) \in Nat
      /\ \A j \in Sent : j \in DOMAIN wire /\ j < Len(wire) + 1
  BY <1>1, AppendFrame DEF Sent
<1>3. \A i \in DOMAIN wire' : wire'[i].type = CLOSE => i = Len(wire) + 1
  BY <1>1, AppendFrame DEF NoClose
<1> QED BY <1>2, <1>3 DEF OneClose, CloseIsLast

LEMMA ClosesHold ==
  ASSUME TypeOK, Accounted, Closing, Ends \/ Fails
  PROVE  TypeOK' /\ Accounted' /\ Closing'
<1>1. /\ UNCHANGED <<direction, stream, read, calls, dropped>>
      /\ wire' = IF entry /\ stream THEN Append(wire, Close) ELSE wire
      /\ entry' = FALSE
      /\ closed' \in {"ended", "failed"}
      /\ closed' = "ended" => Idle /\ closed \in {"no", "ended"}
  BY DEF Ends, Fails, Idle, SendClose, link, Closing
<1>2. Close \in Frames /\ Close.type # DATA
  BY CloseType
<1>3. Idle' <=> Idle
  BY <1>1 DEF Idle, Unfinished
<1>4. TypeOK' /\ Accounted'
  <2>1. wire' = Append(wire, Close) \/ wire' = wire
    BY <1>1
  <2>2. stream' \in BOOLEAN /\ entry' \in BOOLEAN /\ UNCHANGED <<direction, read, calls, dropped>>
    BY <1>1, StateTypes
  <2> QED BY <1>1, <1>2, <2>1, <2>2, NoPieceHolds
<1>5. OneClose' /\ (closed' = "ended" => CloseIsLast')
  <2>1. CASE entry /\ stream
    <3>1. NoClose
      BY <2>1 DEF Closing
    <3> QED BY <1>1, <2>1, <3>1, CloseSent
  <2>2. CASE ~(entry /\ stream)
    <3>1. wire' = wire
      BY <1>1, <2>2
    <3>2. OneClose' = OneClose /\ NoClose' = NoClose /\ CloseIsLast' = CloseIsLast
      BY <3>1 DEF OneClose, CloseIsLast, NoClose, Sent
    <3>3. NoClose => CloseIsLast
      BY DEF NoClose, CloseIsLast
    <3> QED BY <1>1, <3>2, <3>3 DEF Closing
  <2> QED BY <2>1, <2>2
<1>6. Closing'
  BY <1>1, <1>3, <1>5 DEF Closing
<1> QED BY <1>4, <1>6

LEMMA SendsOtherHolds ==
  ASSUME TypeOK, Accounted, Closing, NEW f \in Others, SendsOther(f)
  PROVE  TypeOK' /\ Accounted' /\ Closing'
<1>1. UNCHANGED <<direction, stream, read, calls, closed, entry, dropped>> /\ wire' = Append(wire, f)
  BY DEF SendsOther, link
<1>2. f \in Frames /\ f.type # DATA /\ f.type # CLOSE
  BY OtherType
<1>3. Idle' <=> Idle
  BY <1>1 DEF Idle, Unfinished
<1>4. Sent' = Sent
  BY <1>1, <1>2, AppendFrame
<1>5. \A i \in DOMAIN wire' : wire'[i].type = CLOSE => i \in DOMAIN wire /\ wire[i].type = CLOSE
  BY <1>1, <1>2, AppendFrame
<1>6. (NoClose => NoClose') /\ (OneClose => OneClose') /\ (CloseIsLast => CloseIsLast')
  BY <1>4, <1>5 DEF NoClose, OneClose, CloseIsLast
<1>7. Closing'
  BY <1>1, <1>3, <1>6 DEF Closing
<1>8. TypeOK' /\ Accounted'
  <2>1. closed' \in {"no", "ended", "failed"} /\ stream' \in BOOLEAN /\ entry' \in BOOLEAN
    BY <1>1 DEF TypeOK
  <2>2. UNCHANGED <<direction, read, calls, dropped>> /\ (wire' = Append(wire, f) \/ wire' = wire)
    BY <1>1
  <2>3. f \in Frames /\ f.type # DATA
    BY <1>2
  <2> QED BY <2>1, <2>2, <2>3, NoPieceHolds
<1> QED BY <1>7, <1>8

(* The stream and the table may change with nothing sent.                  *)
LEMMA LossHolds ==
  ASSUME TypeOK, Accounted, Closing, RequestLost \/ StreamLostOrOpened
  PROVE  TypeOK' /\ Accounted' /\ Closing'
<1>1. /\ UNCHANGED <<direction, read, calls, wire, dropped>>
      /\ stream' \in BOOLEAN /\ entry' \in BOOLEAN
      /\ entry' = entry \/ entry' = FALSE
      /\ closed' = closed \/ (closed' = "failed" /\ ~entry')
  BY StateTypes DEF RequestLost, StreamLostOrOpened, link
<1>2. Sent' = Sent /\ Carried' = Carried /\ Done' = Done /\ Left' = Left /\ Idle' = Idle
  BY <1>1 DEF Sent, Carried, Done, Left, Idle, Unfinished
<1>3. TypeOK'
  BY <1>1 DEF TypeOK
<1>4. NoClose' = NoClose /\ OneClose' = OneClose /\ CloseIsLast' = CloseIsLast
  BY <1>1, <1>2 DEF NoClose, OneClose, CloseIsLast
<1>5. Closing'
  BY <1>1, <1>2, <1>4 DEF Closing
<1> QED BY <1>1, <1>2, <1>3, <1>5 DEF Accounted

IInv == TypeOK /\ Accounted /\ Closing

LEMMA InitSound == Init => IInv
<1> SUFFICES ASSUME Init PROVE IInv
  OBVIOUS
<1>1. /\ wire = <<>> /\ calls = <<>> /\ read = 0 /\ closed = "no" /\ direction \in Directions
      /\ stream \in BOOLEAN /\ entry = TRUE /\ dropped = {}
  BY DEF Init
<1>2. Done = {} /\ Left = {}
  BY <1>1 DEF Sent, Carried, Done, Left
<1>3. TypeOK
  BY <1>1, PiecesAssumption DEF TypeOK
<1> QED BY <1>1, <1>2, <1>3 DEF IInv, Accounted, Closing, NoClose, OneClose

LEMMA StepSound == IInv /\ [Next]_vars => IInv'
<1> SUFFICES ASSUME IInv, [Next]_vars PROVE IInv'
  OBVIOUS
<1>1. TypeOK /\ Accounted /\ Closing
  BY DEF IInv
<1>2. CASE UNCHANGED vars
  <2>1. UNCHANGED <<direction, read, calls, wire, closed, stream, entry, dropped>>
    BY <1>2 DEF vars
  <2>2. Sent' = Sent /\ Carried' = Carried /\ Left' = Left /\ Idle' = Idle
    BY <2>1 DEF Sent, Carried, Left, Idle, Unfinished
  <2>3. Done' = Done /\ NoClose' = NoClose /\ OneClose' = OneClose /\ CloseIsLast' = CloseIsLast
    BY <2>1, <2>2 DEF Done, NoClose, OneClose, CloseIsLast
  <2> QED BY <1>1, <2>1, <2>2, <2>3 DEF IInv, TypeOK, Accounted, Closing
<1> QED BY <1>1, <1>2, SendDataHolds, CheckPhaseHolds, ClosesHold, SendsOtherHolds, LossHolds
        DEF Next, IInv

LEMMA Inductive == Spec => []IInv
  BY InitSound, StepSound, PTL DEF Spec

(* Every reachable state is well typed: whatever the buffers (_sendData,   *)
(* _sendDataToClient), no frame of a request is one that encodeFrame would *)
(* refuse or whose bytes decodeFrame would read as another.                *)
THEOREM TypeCorrect == Spec => []TypeOK
<1>1. IInv => TypeOK
  BY DEF IInv
<1> QED BY <1>1, Inductive, PTL

(* The frames of a request, and of others among them, come out of          *)
(* decodeFrames as they were sent.                                         *)
THEOREM StreamIsDecoded == Spec => []StreamDecodes
<1>1. TypeOK => StreamDecodes
  <2> SUFFICES ASSUME TypeOK PROVE StreamDecodes
    OBVIOUS
  <2>1. Deciphered(wire)
    BY FramesDecoded DEF TypeOK
  <2> QED BY <2>1 DEF Deciphered, StreamDecodes, Bytes
<1> QED BY <1>1, TypeCorrect, PTL

(* When the bytes have ended, every piece read was written or dropped for  *)
(* want of a stream or of the request; no piece comes behind CLOSE, in     *)
(* both directions and whatever the pieces of a read do to the order; and  *)
(* CLOSE is never sent twice (_sendClose, 'close' and 'error').            *)
THEOREM EndWaits == Spec => []Whole
<1>1. IInv => Whole
  <2> SUFFICES ASSUME IInv, closed = "ended"
               PROVE  Done = 1 .. read /\ CloseIsLast
    BY DEF Whole, IInv, Closing, OneClose, CloseIsLast, Done
  <2>1. Idle /\ CloseIsLast
    BY DEF IInv, Closing
  <2>2. Left = {}
    <3> SUFFICES ASSUME NEW n \in Left PROVE FALSE
      OBVIOUS
    <3>1. PICK i \in DOMAIN calls : calls[i].next <= n /\ n <= calls[i].last
      BY DEF Left
    <3> DEFINE x == calls[i].next
               y == calls[i].last
    <3>2. x \in Nat /\ y \in Nat /\ x <= n /\ n <= y /\ n \in Nat
      BY <3>1, StateTypes DEF IInv, Left
    <3>3. ~(x <= y)
      BY <2>1 DEF Idle, Unfinished
    <3> HIDE DEF x, y
    <3> QED BY <3>2, <3>3
  <2> QED BY <2>1, <2>2 DEF IInv, Accounted
<1> QED BY <1>1, Inductive, PTL

------------------------------------------------------------------------------
(* The order within a buffer                                               *)

(* Frame g carries the piece behind the one of f, in the same buffer.      *)
Follows(f, g) == Full(f) /\ g.data[1] = f.data[1] + 1

Owes(k, n) == n \in Nat /\ calls[k].next <= n /\ n <= calls[k].last

(* What a call has still to send was not sent, and no other call sends it. *)
Apart ==
  /\ \A k \in DOMAIN calls, n \in Nat : Owes(k, n) => n \notin Carried
  /\ \A k, l \in DOMAIN calls, n \in Nat : Owes(k, n) /\ Owes(l, n) => k = l

LEMMA OrderOfBuffers ==
  BuffersInOrder <=>
    \A i, j \in Sent : /\ wire[i].data[1] = wire[j].data[1] => i = j
                       /\ Follows(wire[i], wire[j]) => i < j
  BY DEF BuffersInOrder, Follows, Full

(* New frames keep the order if no piece is sent again, and none after the *)
(* one behind it.                                                          *)
LEMMA FramesKeepBuffers ==
  ASSUME TypeOK, BuffersInOrder, NEW fs \in Seq(Frames), wire' = wire \o fs,
         NEW New, New = {k \in DOMAIN fs : fs[k].type = DATA},
         \A k \in New : /\ fs[k].data[1] \notin Carried
                        /\ \A j \in Sent : ~Follows(fs[k], wire[j]),
         \A k, l \in New : /\ fs[k].data[1] = fs[l].data[1] => k = l
                           /\ ~Follows(fs[k], fs[l])
  PROVE  BuffersInOrder'
<1> DEFINE m == Len(wire)
<1>1. /\ m \in Nat /\ Len(fs) \in Nat /\ DOMAIN fs = 1 .. Len(fs)
      /\ DOMAIN wire' = 1 .. m + Len(fs) /\ DOMAIN wire = 1 .. m
      /\ \A i \in DOMAIN wire : wire'[i] = wire[i]
      /\ \A i \in DOMAIN fs : wire'[m + i] = fs[i]
  BY AppendFrames
<1> HIDE DEF m
<1>2. ASSUME NEW i \in Sent'
      PROVE  \/ i \in Sent /\ wire'[i] = wire[i] /\ i \in 1 .. m
             \/ \E k \in New : i = m + k /\ wire'[i] = fs[k] /\ k \in Nat /\ k > 0
  <2>1. i \in DOMAIN wire' /\ wire'[i].type = DATA
    BY DEF Sent
  <2>2. CASE i \in DOMAIN wire
    BY <1>1, <2>1, <2>2 DEF Sent
  <2>3. CASE i \notin DOMAIN wire
    <3>1. i - m \in 1 .. Len(fs) /\ i = m + (i - m)
      <4> DEFINE n == Len(fs)
      <4>1. n \in Nat /\ m \in Nat /\ i \in 1 .. m + n /\ i \notin 1 .. m
        BY <1>1, <2>1, <2>3
      <4> HIDE DEF n
      <4>2. i - m \in 1 .. n /\ i = m + (i - m)
        BY <4>1
      <4> QED BY <4>2 DEF n
    <3>2. wire'[i] = fs[i - m] /\ i - m \in New
      BY <1>1, <2>1, <3>1
    <3> QED BY <3>1, <3>2
  <2> QED BY <2>2, <2>3
<1>3. \A i \in Sent : wire[i].data[1] \in Carried
  BY DEF Carried
<1>4. \A i, j \in Sent : /\ wire[i].data[1] = wire[j].data[1] => i = j
                         /\ Follows(wire[i], wire[j]) => i < j
  BY OrderOfBuffers
<1>5. ASSUME NEW i \in Sent', NEW j \in Sent'
      PROVE  /\ wire'[i].data[1] = wire'[j].data[1] => i = j
             /\ Follows(wire'[i], wire'[j]) => i < j
  <2>1. CASE i \in Sent /\ wire'[i] = wire[i] /\ i \in 1 .. m
    <3>1. CASE j \in Sent /\ wire'[j] = wire[j] /\ j \in 1 .. m
      BY <1>4, <2>1, <3>1
    <3>2. ASSUME NEW l \in New, j = m + l, wire'[j] = fs[l], l \in Nat, l > 0
          PROVE  wire'[i].data[1] # wire'[j].data[1] /\ i < j
      <4>1. i < j
        BY <1>1, <2>1, <3>2
      <4>2. wire'[i].data[1] # wire'[j].data[1]
        BY <1>3, <2>1, <3>2
      <4> QED BY <4>1, <4>2
    <3> QED BY <1>2, <3>1, <3>2
  <2>2. ASSUME NEW k \in New, i = m + k, wire'[i] = fs[k], k \in Nat, k > 0
        PROVE  /\ wire'[i].data[1] = wire'[j].data[1] => i = j
               /\ ~Follows(wire'[i], wire'[j])
    <3>1. CASE j \in Sent /\ wire'[j] = wire[j] /\ j \in 1 .. m
      BY <1>3, <2>2, <3>1
    <3>2. ASSUME NEW l \in New, j = m + l, wire'[j] = fs[l]
          PROVE  /\ wire'[i].data[1] = wire'[j].data[1] => i = j
                 /\ ~Follows(wire'[i], wire'[j])
      BY <2>2, <3>2
    <3> QED BY <1>2, <3>1, <3>2
  <2> QED BY <1>2, <2>1, <2>2
<1> QED BY <1>5 DEF BuffersInOrder, Follows, Full

LEMMA FrameKeepsBuffers ==
  ASSUME TypeOK, BuffersInOrder, NEW f \in Frames, wire' = Append(wire, f),
         f.type = DATA => /\ f.data[1] \notin Carried /\ ~Follows(f, f)
                          /\ \A j \in Sent : ~Follows(f, wire[j])
  PROVE  BuffersInOrder'
<1> DEFINE fs == <<f>>
           New == {k \in DOMAIN fs : fs[k].type = DATA}
<1>1. fs \in Seq(Frames) /\ DOMAIN fs = {1} /\ fs[1] = f
  OBVIOUS
<1>2. wire' = wire \o fs
  BY StateTypes
<1>3. \A k \in New : k = 1 /\ fs[k] = f /\ f.type = DATA
  BY <1>1
<1> HIDE DEF fs
<1>4. /\ \A k \in New : /\ fs[k].data[1] \notin Carried
                        /\ \A j \in Sent : ~Follows(fs[k], wire[j])
      /\ \A k, l \in New : /\ fs[k].data[1] = fs[l].data[1] => k = l
                           /\ ~Follows(fs[k], fs[l])
  BY <1>3
<1> QED BY <1>1, <1>2, <1>4, FramesKeepBuffers

LEMMA OwedIsRead ==
  ASSUME TypeOK, Accounted, NEW k \in DOMAIN calls, NEW n \in Nat, Owes(k, n)
  PROVE  n \in 1 .. read
<1>1. /\ calls[k].next \in Nat /\ calls[k].last \in 1 .. MaxBytes /\ MaxBytes \in Nat
      /\ calls[k].next > 0
  BY StateTypes DEF Accounted
<1>2. n \in 1 .. MaxBytes
  <2> DEFINE x == calls[k].next
             y == calls[k].last
  <2>1. x \in Nat /\ x > 0 /\ y \in 1 .. MaxBytes /\ MaxBytes \in Nat /\ x <= n /\ n <= y
    BY <1>1 DEF Owes
  <2> HIDE DEF x, y
  <2> QED BY <2>1
<1>3. n \in Left
  BY <1>2 DEF Owes, Left
<1> QED BY <1>3 DEF Accounted

LEMMA SendDataKeepsBuffers ==
  ASSUME TypeOK, Accounted, Apart, BuffersInOrder,
         NEW n \in 1 .. MaxPieces[direction], SendData(n)
  PROVE  Apart' /\ BuffersInOrder'
<1> DEFINE f == Data(read + 1, read + n)
           e == [next |-> read + 2, last |-> read + n]
           p == Len(calls) + 1
<1>1. read \in Nat /\ n \in Nat
  BY BufferSize
<1>2. f \in Frames /\ f.type = DATA /\ f.data[1] = read + 1 /\ (wire' = Append(wire, f) \/ wire' = wire)
  BY FirstPiece
<1>3. e.next = read + 2 /\ e.last = read + n
  OBVIOUS
<1> HIDE DEF f, e
<1>0. CASE wire' = wire /\ calls' = calls
  <2>1. Sent' = Sent /\ Carried' = Carried
    BY <1>0 DEF Sent, Carried
  <2> QED BY <1>0, <2>1 DEF Apart, Owes, BuffersInOrder
<1>15. (wire' = wire /\ calls' = calls) \/ calls' = Append(calls, e)
  BY DEF SendData, e
<1> SUFFICES ASSUME calls' = Append(calls, e) PROVE Apart' /\ BuffersInOrder'
  BY <1>0, <1>15
<1>4. /\ DOMAIN calls' = DOMAIN calls \cup {p} /\ calls'[p] = e
      /\ \A i \in DOMAIN calls : calls'[i] = calls[i]
  BY StateTypes
<1> HIDE DEF p
<1>5. Carried \subseteq 1 .. read /\ Carried' \subseteq Carried \cup {read + 1}
  <2>1. CASE wire' = Append(wire, f)
    BY <1>2, <2>1, CarriedByAppend DEF Accounted, Done
  <2>2. CASE wire' = wire
    BY <2>2 DEF Accounted, Done, Carried, Sent
  <2> QED BY <1>2, <2>1, <2>2
<1>6. BuffersInOrder'
  <2>1. f.data[1] \notin Carried
    BY <1>1, <1>2, <1>5
  <2>2. ASSUME NEW g, Follows(f, g) PROVE g.data[1] = read + 2
    BY <1>1, <1>2, <2>2 DEF Follows
  <2>3. ~Follows(f, f)
    BY <1>1, <1>2, <2>2
  <2>4. ASSUME NEW j \in Sent PROVE ~Follows(f, wire[j])
    <3>1. wire[j].data[1] \in 1 .. read
      BY <1>5 DEF Carried
    <3>2. read + 2 \notin 1 .. read
      BY <1>1
    <3> QED BY <2>2, <3>1, <3>2
  <2>5. CASE wire' = Append(wire, f)
    BY <1>2, <2>1, <2>3, <2>4, <2>5, FrameKeepsBuffers
  <2>6. CASE wire' = wire
    BY <2>6 DEF BuffersInOrder, Sent
  <2> QED BY <1>2, <2>5, <2>6
<1>7. \A k \in DOMAIN calls, m \in Nat : Owes(k, m)' => Owes(k, m) /\ m \in 1 .. read
  BY <1>4, OwedIsRead DEF Owes
<1>8. ASSUME NEW k \in DOMAIN calls', k = p, NEW m \in Nat, Owes(k, m)'
      PROVE  m \notin 1 .. read + 1
  <2> DEFINE x == calls'[k].next
  <2>1. x = read + 2 /\ x <= m
    BY <1>3, <1>4, <1>8 DEF Owes
  <2> HIDE DEF x
  <2> QED BY <1>1, <2>1
<1>9. ASSUME NEW k \in DOMAIN calls', NEW m \in Nat, Owes(k, m)' PROVE m \notin Carried'
  <2>1. CASE k \in DOMAIN calls
    <3>1. m \in 1 .. read /\ m \notin Carried
      BY <1>7, <1>9, <2>1 DEF Apart
    <3> QED BY <1>1, <1>5, <3>1
  <2>2. CASE k = p
    <3>1. m \notin 1 .. read + 1
      BY <1>8, <1>9, <2>2
    <3> QED BY <1>1, <1>5, <3>1
  <2> QED BY <1>4, <2>1, <2>2
<1>10. ASSUME NEW k \in DOMAIN calls', NEW l \in DOMAIN calls', NEW m \in Nat,
              Owes(k, m)', Owes(l, m)'
       PROVE  k = l
  <2>1. CASE k \in DOMAIN calls /\ l \in DOMAIN calls
    BY <1>7, <1>10, <2>1 DEF Apart
  <2>2. \A i \in DOMAIN calls' : Owes(i, m)' => i = p \/ m \in 1 .. read
    BY <1>4, <1>7
  <2>3. CASE k = p \/ l = p
    <3>1. m \notin 1 .. read + 1
      BY <1>8, <1>10, <2>3
    <3>2. m \notin 1 .. read
      BY <1>1, <3>1
    <3> QED BY <1>10, <2>2, <3>2
  <2> QED BY <1>4, <2>1, <2>3
<1>11. Apart'
  BY <1>9, <1>10 DEF Apart
<1> QED BY <1>6, <1>11

LEMMA CheckPhaseKeepsBuffers ==
  ASSUME TypeOK, Apart, BuffersInOrder, CheckPhase
  PROVE  Apart' /\ BuffersInOrder'
<1>1. PICK n, at, fs :
           /\ n \in Nat /\ Enumerates(at, n, Waiting)
           /\ at \in [1 .. n -> DOMAIN calls]
           /\ Push(fs, {fs[k].data[1] : k \in 1 .. n}) /\ fs \in Seq(Frames) /\ DOMAIN fs = 1 .. n
           /\ \A k \in 1 .. n : fs[k].type = DATA /\ fs[k].data[1] = calls[at[k]].next
           /\ \A k \in 1 .. n : Full(fs[k]) => calls[at[k]].next # calls[at[k]].last
           /\ calls' \in Seq(Call) /\ DOMAIN calls' = 1 .. n
           /\ \A k \in 1 .. n : /\ calls'[k].next = calls[at[k]].next + 1
                                /\ calls'[k].last = calls[at[k]].last
           /\ UNCHANGED <<direction, read, closed, entry, stream>>
  BY CheckPhaseEffect
<1> DEFINE First(k) == calls[at[k]].next
           Final(k) == calls[at[k]].last
<1>2. \A k \in 1 .. n : /\ at[k] \in DOMAIN calls /\ First(k) \in Nat /\ Final(k) \in Nat
                        /\ First(k) <= Final(k)
  <2>1. \A k \in 1 .. n : at[k] \in DOMAIN calls /\ Unfinished(calls[at[k]])
    BY <1>1 DEF Enumerates, Waiting
  <2>2. MaxBytes \in Nat /\ \A i \in DOMAIN calls : calls[i].next \in Nat /\ calls[i].last \in 1 .. MaxBytes
    BY StateTypes
  <2> QED BY <2>1, <2>2 DEF Unfinished
<1>3. \A k, l \in 1 .. n : at[k] = at[l] => k = l
  <2> SUFFICES ASSUME NEW k \in 1 .. n, NEW l \in 1 .. n, at[k] = at[l], k < l PROVE FALSE
    OBVIOUS
  <2>1. at[k] < at[l] /\ at[k] \in Nat
    BY <1>1, <1>2, StateTypes DEF Enumerates
  <2> QED BY <2>1
<1>4. \A k \in 1 .. n, m \in Nat : Owes(at[k], m) <=> First(k) <= m /\ m <= Final(k)
  BY DEF Owes
<1>5. \A k \in 1 .. n, m \in Nat : Owes(k, m)' <=> First(k) + 1 <= m /\ m <= Final(k)
  BY <1>1 DEF Owes
<1>6. \A k \in 1 .. n : fs[k].data[1] = First(k) /\ (Full(fs[k]) => First(k) # Final(k))
  BY <1>1
<1> HIDE DEF First, Final
<1>7. \A k \in 1 .. n : First(k) \notin Carried
  BY <1>2, <1>4 DEF Apart
<1>8. \A k, l \in 1 .. n, m \in Nat :
        First(k) <= m /\ m <= Final(k) /\ First(l) <= m /\ m <= Final(l) => k = l
  BY <1>2, <1>3, <1>4 DEF Apart
<1>9. Carried' \subseteq Carried \cup {First(k) : k \in 1 .. n}
  <2>1. \A i \in DOMAIN fs : fs[i].type = DATA
    BY <1>1
  <2>2. Carried' \subseteq Carried \cup {fs[k].data[1] : k \in 1 .. n}
    BY <1>1, <2>1, PushDone
  <2> QED BY <1>6, <2>2
<1>10. BuffersInOrder'
  <2>1. \A k, l \in 1 .. n : First(k) = First(l) => k = l
    BY <1>2, <1>8
  <2>2. ASSUME NEW k \in 1 .. n, NEW g, Follows(fs[k], g)
        PROVE  /\ g.data[1] = First(k) + 1 /\ First(k) + 1 \in Nat
               /\ First(k) <= First(k) + 1 /\ First(k) + 1 <= Final(k)
    <3>1. g.data[1] = First(k) + 1 /\ First(k) # Final(k)
      BY <1>6, <2>2 DEF Follows
    <3> QED BY <1>2, <3>1
  <2>3. ASSUME NEW k \in 1 .. n, NEW j \in Sent PROVE ~Follows(fs[k], wire[j])
    <3> SUFFICES ASSUME Follows(fs[k], wire[j]) PROVE FALSE
      OBVIOUS
    <3>1. wire[j].data[1] \in Carried
      BY DEF Carried
    <3>2. Owes(at[k], First(k) + 1) /\ wire[j].data[1] = First(k) + 1 /\ First(k) + 1 \in Nat
      BY <1>4, <2>2
    <3> QED BY <1>2, <3>1, <3>2 DEF Apart
  <2>4. ASSUME NEW k \in 1 .. n, NEW l \in 1 .. n PROVE ~Follows(fs[k], fs[l])
    <3> SUFFICES ASSUME Follows(fs[k], fs[l]) PROVE FALSE
      OBVIOUS
    <3>1. /\ First(l) = First(k) + 1 /\ First(k) + 1 \in Nat
          /\ First(k) <= First(k) + 1 /\ First(k) + 1 <= Final(k)
      BY <1>6, <2>2
    <3>2. k = l
      BY <1>2, <1>8, <3>1
    <3> QED BY <1>2, <3>1, <3>2
  <2> DEFINE New == {k \in DOMAIN fs : fs[k].type = DATA}
  <2>5. New = 1 .. n
    BY <1>1
  <2> HIDE DEF New
  <2>6. /\ \A k \in New : /\ fs[k].data[1] \notin Carried
                          /\ \A j \in Sent : ~Follows(fs[k], wire[j])
        /\ \A k, l \in New : /\ fs[k].data[1] = fs[l].data[1] => k = l
                             /\ ~Follows(fs[k], fs[l])
    BY <1>6, <1>7, <2>1, <2>3, <2>4, <2>5
  <2>7. CASE wire' = wire \o fs
    BY <1>1, <2>6, <2>7, FramesKeepBuffers DEF New
  <2>8. CASE wire' = wire
    BY <2>8 DEF BuffersInOrder, Sent
  <2> QED BY <1>1, <2>7, <2>8 DEF Push
<1>11. ASSUME NEW k \in 1 .. n, NEW m \in Nat, Owes(k, m)' PROVE m \notin Carried'
  <2>1. First(k) + 1 <= m /\ m <= Final(k) /\ First(k) <= m
    BY <1>2, <1>5, <1>11
  <2>2. m \notin Carried
    BY <1>2, <1>4, <2>1 DEF Apart
  <2>3. ASSUME NEW l \in 1 .. n, m = First(l) PROVE FALSE
    <3>1. k = l
      BY <1>2, <1>8, <2>1, <2>3
    <3> QED BY <1>2, <2>1, <2>3, <3>1
  <2> QED BY <1>9, <2>2, <2>3
<1>12. ASSUME NEW k \in 1 .. n, NEW l \in 1 .. n, NEW m \in Nat, Owes(k, m)', Owes(l, m)'
       PROVE  k = l
  <2>1. \A i \in {k, l} : First(i) + 1 <= m /\ m <= Final(i)
    BY <1>5, <1>12
  <2>2. \A i \in {k, l} : First(i) <= m /\ m <= Final(i)
    BY <1>2, <2>1
  <2> QED BY <1>8, <2>2
<1>13. Apart'
  BY <1>1, <1>11, <1>12 DEF Apart
<1> QED BY <1>10, <1>13

LEMMA StepKeepsBuffers ==
  ASSUME TypeOK, Accounted, Apart, BuffersInOrder, [Next]_vars
  PROVE  Apart' /\ BuffersInOrder'
<1>1. ASSUME NEW f \in Frames, f.type # DATA, wire' = Append(wire, f), UNCHANGED calls
      PROVE  Apart' /\ BuffersInOrder'
  <2>1. BuffersInOrder'
    BY <1>1, FrameKeepsBuffers
  <2>2. Carried' = Carried
    BY <1>1, CarriedByAppend
  <2> QED BY <1>1, <2>1, <2>2 DEF Apart, Owes
<1>2. CASE UNCHANGED <<calls, wire>>
  <2>1. Sent' = Sent /\ Carried' = Carried
    BY <1>2 DEF Sent, Carried
  <2> QED BY <1>2, <2>1 DEF Apart, Owes, BuffersInOrder
<1>3. CASE Ends \/ Fails
  <2>1. (wire' = Append(wire, Close) \/ wire' = wire) /\ UNCHANGED calls
    BY <1>3 DEF Ends, Fails, SendClose
  <2> QED BY <1>1, <1>2, <2>1, CloseType
<1>4. ASSUME NEW f \in Others, SendsOther(f) PROVE Apart' /\ BuffersInOrder'
  <2>1. wire' = Append(wire, f) /\ UNCHANGED calls
    BY <1>4 DEF SendsOther
  <2> QED BY <1>1, <2>1, OtherType
<1>5. UNCHANGED vars \/ RequestLost \/ StreamLostOrOpened => UNCHANGED <<calls, wire>>
  BY DEF vars, RequestLost, StreamLostOrOpened, link
<1> QED BY <1>2, <1>3, <1>4, <1>5, SendDataKeepsBuffers, CheckPhaseKeepsBuffers DEF Next

LEMMA BuffersAreInOrder == Spec => []BuffersInOrder
<1>1. Init => Apart /\ BuffersInOrder
  <2> SUFFICES ASSUME Init PROVE Apart /\ BuffersInOrder
    OBVIOUS
  <2>1. wire = <<>> /\ calls = <<>>
    BY DEF Init
  <2>2. Sent = {}
    BY <2>1 DEF Sent
  <2> QED BY <2>1, <2>2 DEF Apart, BuffersInOrder
<1>2. IInv /\ Apart /\ BuffersInOrder /\ [Next]_vars => (Apart /\ BuffersInOrder)'
  BY StepKeepsBuffers DEF IInv
<1> QED BY <1>1, <1>2, Inductive, PTL DEF Spec

------------------------------------------------------------------------------
(* The order of the buffers                                                *)

(* The pieces whose turn has come are those up to the next one a call has  *)
(* to send.                                                                *)
SentSoFar == IF Idle THEN read ELSE calls[1].next - 1

Ordered == \A i, j \in Sent : i < j => wire[i].data[1] < wire[j].data[1]

(* A call with something left to send is the only one, of a reverse        *)
(* stream, and goes on where the wire ends.                                *)
Numbered ==
  /\ Ordered /\ Done = 1 .. SentSoFar
  /\ \A i \in DOMAIN calls : Unfinished(calls[i]) =>
       direction = "reverse" /\ calls[i].next > 0 /\ calls[i].last = read
  /\ direction = "reverse" => Len(calls) <= 1

LEMMA SentSoFarType ==
  ASSUME TypeOK, Numbered
  PROVE  /\ SentSoFar \in Nat /\ SentSoFar <= read
         /\ ~Idle => /\ direction = "reverse" /\ Len(calls) = 1 /\ Unfinished(calls[1])
                     /\ calls[1] \in Call
                     /\ calls[1].next = SentSoFar + 1 /\ calls[1].last = read
<1>1. CASE Idle
  BY <1>1, StateTypes DEF SentSoFar
<1>2. CASE ~Idle
  <2>1. PICK i \in DOMAIN calls : Unfinished(calls[i])
    BY <1>2 DEF Idle
  <2>2. direction = "reverse" /\ Len(calls) \in Nat /\ Len(calls) <= 1 /\ i \in 1 .. Len(calls)
    BY <2>1, StateTypes DEF Numbered
  <2>3. i = 1 /\ Len(calls) = 1 /\ calls[1] \in Call
    <3>1. i = 1 /\ Len(calls) = 1
      <4> DEFINE x == Len(calls)
      <4>1. x \in Nat /\ x <= 1 /\ i \in 1 .. x
        BY <2>2
      <4> HIDE DEF x
      <4>2. i = 1 /\ x = 1
        BY <4>1
      <4> QED BY <4>2 DEF x
    <3> QED BY <2>1, <3>1, StateTypes
  <2>4. calls[1].next \in Nat /\ calls[1].next > 0 /\ calls[1].last = read /\ read \in Nat
    BY <2>1, <2>3, StateTypes DEF Numbered
  <2>5. calls[1].next <= read
    BY <2>1, <2>3, <2>4 DEF Unfinished
  <2> QED BY <1>2, <2>1, <2>2, <2>3, <2>4, <2>5 DEF SentSoFar
<1> QED BY <1>1, <1>2

LEMMA AppendKeepsOrder ==
  ASSUME TypeOK, NEW f \in Frames, wire' = Append(wire, f), Ordered,
         NEW c \in Nat, Carried \subseteq 1 .. c,
         f.type = DATA => f.data[1] = c + 1
  PROVE  Ordered'
<1>1. \A i \in Sent : i \in DOMAIN wire /\ wire[i].data[1] \in 1 .. c
  BY DEF Sent, Carried
<1>3. CASE f.type # DATA
  <2>1. Sent' = Sent /\ \A i \in Sent : wire'[i] = wire[i]
    BY <1>1, <1>3, AppendFrame
  <2> QED BY <2>1 DEF Ordered
<1>4. CASE f.type = DATA
  <2> DEFINE m == Len(wire) + 1
  <2>1. /\ Sent' = Sent \cup {m} /\ wire'[m] = f /\ m \in Nat
        /\ \A i \in Sent : wire'[i] = wire[i] /\ i \in Nat /\ i < m
    BY <1>1, <1>4, AppendFrame
  <2> HIDE DEF m
  <2>3. Ordered'
    <3> SUFFICES ASSUME NEW i \in Sent', NEW j \in Sent', i < j
                 PROVE  wire'[i].data[1] < wire'[j].data[1]
      BY DEF Ordered
    <3>1. i \in Sent
      BY <2>1
    <3>2. CASE j \in Sent
      <4>1. wire'[i].data[1] = wire[i].data[1] /\ wire'[j].data[1] = wire[j].data[1]
        BY <2>1, <3>1, <3>2
      <4>2. wire[i].data[1] < wire[j].data[1]
        BY <3>1, <3>2 DEF Ordered
      <4>3. wire[i].data[1] \in 1 .. c /\ wire[j].data[1] \in 1 .. c
        BY <1>1, <3>1, <3>2
      <4> QED BY <4>1, <4>2, <4>3
    <3>3. CASE j = m
      <4>1. wire'[i].data[1] = wire[i].data[1] /\ wire[i].data[1] \in 1 .. c
        BY <1>1, <2>1, <3>1
      <4>2. wire'[j].data[1] = c + 1
        BY <1>4, <2>1, <3>3
      <4> QED BY <4>1, <4>2
    <3> QED BY <2>1, <3>2, <3>3
  <2> QED BY <2>3
<1> QED BY <1>3, <1>4

(* A frame of no piece, or none.                                           *)
LEMMA OtherFrame ==
  ASSUME TypeOK, NEW f \in Frames, wire' = Append(wire, f) \/ wire' = wire, f.type # DATA,
         UNCHANGED <<direction, read, calls, dropped>>, Numbered
  PROVE  Numbered'
<1>1. Idle' = Idle /\ SentSoFar' = SentSoFar
  BY DEF Idle, SentSoFar, Unfinished
<1>2. SentSoFar \in Nat /\ Carried \subseteq 1 .. SentSoFar
  BY SentSoFarType DEF Numbered, Done
<1>3. Ordered' /\ Carried' = Carried
  <2>1. CASE wire' = Append(wire, f)
    BY <1>2, <2>1, AppendKeepsOrder, CarriedByAppend DEF Numbered
  <2>2. CASE wire' = wire
    BY <2>2 DEF Numbered, Ordered, Sent, Carried
  <2> QED BY <2>1, <2>2
<1>4. Done' = Done
  BY <1>3 DEF Done
<1> QED BY <1>1, <1>3, <1>4 DEF Numbered, Unfinished

(* The next piece, written or dropped.                                     *)
LEMMA NextPiece ==
  ASSUME TypeOK, NEW f \in Frames, NEW c \in Nat, f.type = DATA, f.data[1] = c + 1,
         Push(<<f>>, {c + 1}), Ordered, Done = 1 .. c
  PROVE  Ordered' /\ Done' = 1 .. (c + 1)
<1>1. <<f>> \in Seq(Frames) /\ DOMAIN <<f>> = {1} /\ <<f>>[1] = f
  OBVIOUS
<1>2. {c + 1} = {<<f>>[i].data[1] : i \in DOMAIN <<f>>} /\ \A i \in DOMAIN <<f>> : <<f>>[i].type = DATA
  BY <1>1
<1>3. Done' = Done \cup {c + 1}
  BY <1>1, <1>2, PushDone
<1>4. Done' = 1 .. (c + 1)
  BY <1>3
<1>5. wire \o <<f>> = Append(wire, f)
  BY StateTypes
<1>6. CASE wire' = Append(wire, f)
  <2>1. Carried \subseteq 1 .. c
    BY DEF Done
  <2> QED BY <1>4, <1>6, <2>1, AppendKeepsOrder
<1>7. CASE wire' = wire
  BY <1>4, <1>7 DEF Ordered, Sent
<1> QED BY <1>5, <1>6, <1>7 DEF Push

LEMMA SendDataInOrder ==
  ASSUME TypeOK, OneAtATime, Numbered, NEW n \in 1 .. MaxPieces[direction], SendData(n)
  PROVE  Numbered'
<1> DEFINE f == Data(read + 1, read + n)
           e == [next |-> read + 2, last |-> read + n]
<1>1. /\ direction' = direction /\ read' = read + n
      /\ direction = "reverse" => calls = <<>>
  BY DEF SendData, MayStart, link
<1>2. n \in Nat /\ n > 0 /\ (direction # "reverse" => n = 1) /\ read \in Nat
  <2>1. CASE direction = "reverse"
    <3>1. n \in 1 .. ReversePieces
      BY <2>1 DEF MaxPieces
    <3> QED BY <2>1, <3>1, PiecesAssumption, StateTypes
  <2>2. CASE direction # "reverse"
    <3>1. direction = "forward" /\ ForwardPieces = 1
      BY <2>2 DEF TypeOK, Directions, OneAtATime
    <3>2. n \in 1 .. 1
      BY <3>1 DEF MaxPieces
    <3> QED BY <2>2, <3>2, StateTypes
  <2> QED BY <2>1, <2>2
<1>3. f \in Frames /\ f.type = DATA /\ f.data[1] = read + 1
  <2> DEFINE x == read + 1
             y == read + n
  <2>1. x \in Nat /\ y \in Nat
    BY <1>2
  <2> HIDE DEF x, y
  <2>2. Data(x, y) \in Frames /\ Data(x, y).type = DATA /\ Data(x, y).data[1] = x
    BY <2>1, DataType
  <2> QED BY <2>2 DEF x, y
<1>4. e.next = read + 2 /\ e.last = read + n
  OBVIOUS
<1> HIDE DEF f, e
<1>5. Idle
  BY <1>1 DEF Idle, Numbered
<1>6. SentSoFar = read
  BY <1>5 DEF SentSoFar
<1>14. CASE ~entry
  <2>1. UNCHANGED <<calls, wire>> /\ dropped' = dropped \cup (read + 1 .. read + n)
    BY <1>14 DEF SendData
  <2>2. Idle' /\ SentSoFar' = read + n /\ Ordered' /\ Carried' = Carried
    BY <1>1, <1>5, <2>1 DEF Idle, SentSoFar, Ordered, Sent, Carried, Numbered, Unfinished
  <2>3. Done' = 1 .. read + n
    BY <1>2, <1>6, <2>1, <2>2 DEF Done, Numbered
  <2> QED BY <1>1, <2>1, <2>2, <2>3 DEF Numbered, Idle
<1>15. ~entry \/ (Push(<<f>>, {read + 1}) /\ calls' = Append(calls, e))
  BY DEF SendData, f, e
<1> SUFFICES ASSUME Push(<<f>>, {read + 1}), calls' = Append(calls, e) PROVE Numbered'
  BY <1>14, <1>15
<1>7. Ordered' /\ Done' = 1 .. (read + 1)
  BY <1>2, <1>3, <1>6, NextPiece DEF Numbered
<1>8. /\ Len(calls') = Len(calls) + 1 /\ Len(calls) \in Nat
      /\ DOMAIN calls' = DOMAIN calls \cup {Len(calls) + 1}
      /\ calls'[Len(calls) + 1] = e /\ \A i \in DOMAIN calls : calls'[i] = calls[i]
  <2>1. calls \in Seq(Call)
    BY StateTypes
  <2> QED BY <1>1, <2>1
<1>10. Unfinished(e) <=> n # 1
  BY <1>2, <1>4 DEF Unfinished
<1>11. direction = "reverse" => Len(calls) = 0
  BY <1>1
<1>12. CASE n = 1
  <2>1. Idle'
    BY <1>5, <1>8, <1>10, <1>12 DEF Idle, Unfinished
  <2>2. SentSoFar' = read + 1
    BY <1>1, <1>12, <2>1 DEF SentSoFar
  <2> QED BY <1>1, <1>7, <1>8, <1>11, <2>1, <2>2 DEF Numbered, Idle
<1>13. CASE n # 1
  <2>1. direction = "reverse" /\ Len(calls) = 0 /\ DOMAIN calls = {} /\ calls'[1] = e
    BY <1>1, <1>2, <1>8, <1>11, <1>13
  <2>2. \A i \in DOMAIN calls' : i = 1
    BY <1>8, <2>1
  <2>3. ~Idle' /\ DOMAIN calls' = {1}
    BY <1>8, <1>10, <1>13, <2>1 DEF Idle, Unfinished
  <2>4. SentSoFar' = read + 1
    BY <1>2, <1>4, <2>1, <2>3 DEF SentSoFar
  <2> QED BY <1>1, <1>2, <1>4, <1>7, <1>8, <2>1, <2>2, <2>4 DEF Numbered
<1> QED BY <1>12, <1>13

LEMMA CheckPhaseInOrder ==
  ASSUME TypeOK, Numbered, CheckPhase PROVE Numbered'
<1>1. PICK n, at, fs :
           /\ n \in Nat /\ Enumerates(at, n, Waiting)
           /\ at \in [1 .. n -> DOMAIN calls]
           /\ Push(fs, {fs[k].data[1] : k \in 1 .. n}) /\ fs \in Seq(Frames) /\ DOMAIN fs = 1 .. n
           /\ \A k \in 1 .. n : fs[k].type = DATA /\ fs[k].data[1] = calls[at[k]].next
           /\ calls' \in Seq(Call) /\ DOMAIN calls' = 1 .. n
           /\ \A k \in 1 .. n : /\ calls'[k].next = calls[at[k]].next + 1
                                /\ calls'[k].last = calls[at[k]].last
           /\ UNCHANGED <<direction, read, closed, entry, stream>>
  BY CheckPhaseEffect
<1>2. \A i : i \in Waiting <=> \E k \in 1 .. n : i = at[k]
  BY <1>1 DEF Enumerates
<1>3. wire \in Seq(Frames) /\ read \in Nat /\ n \in Nat
  BY <1>1, StateTypes
<1>4. CASE Idle
  <2>1. n = 0
    <3>1. n \in Nat
      BY <1>1
    <3>2. Waiting = {}
      BY <1>4 DEF Idle, Waiting
    <3> QED BY <1>2, <3>1, <3>2
  <2>2. calls' = <<>> /\ fs = <<>> /\ wire' = wire /\ dropped' = dropped
    BY <1>1, <1>3, <2>1 DEF Push
  <2>3. Idle' /\ SentSoFar' = SentSoFar /\ Len(calls') = 0
    BY <1>1, <1>4, <2>2 DEF Idle, SentSoFar
  <2>4. Sent' = Sent /\ Done' = Done
    BY <2>2 DEF Sent, Carried, Done
  <2> QED BY <1>1, <2>2, <2>3, <2>4 DEF Numbered, Ordered
<1>5. CASE ~Idle
  <2> DEFINE c == SentSoFar
             e == calls'[1]
             f == fs[1]
  <2>1. /\ c \in Nat /\ c <= read /\ direction = "reverse" /\ Len(calls) = 1
        /\ calls[1].next = c + 1 /\ calls[1].last = read /\ Unfinished(calls[1])
    BY <1>5, SentSoFarType
  <2>2. DOMAIN calls = {1} /\ Waiting = {1}
    <3>1. DOMAIN calls = {1}
      BY <2>1, StateTypes
    <3> QED BY <2>1, <3>1 DEF Waiting
  <2>3. n = 1 /\ at[1] = 1
    <3>1. \A k \in 1 .. n : at[k] = 1
      BY <1>2, <2>2
    <3>2. n # 0
      BY <1>2, <2>2
    <3>3. ~(n > 1)
      <4> SUFFICES ASSUME n > 1 PROVE FALSE
        OBVIOUS
      <4>1. 1 \in 1 .. n /\ 2 \in 1 .. n
        BY <1>3
      <4>2. at[1] < at[2] /\ at[1] = 1 /\ at[2] = 1
        BY <1>1, <3>1, <4>1 DEF Enumerates
      <4> QED BY <4>2
    <3>4. n = 1
      BY <1>3, <3>2, <3>3
    <3> QED BY <3>1, <3>4
  <2>4. /\ f \in Frames /\ f.type = DATA /\ f.data[1] = c + 1
        /\ e.next = c + 2 /\ e.last = read /\ DOMAIN calls' = {1} /\ Len(calls') = 1
    <3>1. 1 \in 1 .. n /\ 1 .. n = {1}
      BY <2>3
    <3>2. e.next = calls[1].next + 1 /\ e.last = calls[1].last /\ f.type = DATA /\ f.data[1] = calls[1].next
      BY <1>1, <2>3, <3>1
    <3>3. e.next = c + 2
      <4> DEFINE x == calls[1].next
      <4>1. x = c + 1 /\ e.next = x + 1
        BY <2>1, <3>2
      <4> HIDE DEF x, e, c
      <4> QED BY <2>1, <4>1
    <3>4. f \in Frames /\ DOMAIN calls' = {1} /\ Len(calls') = 1
      <4>1. DOMAIN calls' = {1} /\ calls' \in Seq(Call)
        BY <1>1, <2>3, <3>1
      <4>2. Len(calls') = 1
        BY <4>1
      <4>3. DOMAIN fs = {1} /\ fs \in Seq(Frames)
        BY <1>1, <2>3, <3>1
      <4>4. f \in Frames
        BY <4>3
      <4> QED BY <4>1, <4>2, <4>4
    <3> QED BY <2>1, <3>2, <3>3, <3>4
  <2>5. Push(<<f>>, {c + 1})
    <3>1. fs = <<f>>
      BY <1>1, <2>3
    <3>2. {fs[k].data[1] : k \in 1 .. n} = {c + 1}
      BY <2>3, <2>4
    <3> HIDE DEF f
    <3> QED BY <1>1, <3>1, <3>2
  <2> HIDE DEF c, e, f
  <2>6. Done = 1 .. c
    BY DEF Numbered, c
  <2>7. Ordered' /\ Done' = 1 .. (c + 1)
    BY <2>1, <2>4, <2>5, <2>6, NextPiece DEF Numbered
  <2>8. Unfinished(e) <=> c + 2 <= read
    BY <2>4 DEF Unfinished
  <2>9. Idle' <=> ~(c + 2 <= read)
    BY <2>4, <2>8 DEF Idle, Unfinished, e
  <2>10. c + 1 <= read
    BY <2>1 DEF Unfinished
  <2>11. SentSoFar' = c + 1
    <3>1. CASE c + 2 <= read
      <4>1. SentSoFar' = e.next - 1
        BY <2>9, <3>1 DEF SentSoFar, e
      <4> QED BY <2>1, <2>4, <4>1
    <3>2. CASE ~(c + 2 <= read)
      <4>1. read = c + 1
        BY <1>3, <2>1, <2>10, <3>2
      <4> QED BY <1>1, <2>9, <3>2, <4>1 DEF SentSoFar
    <3> QED BY <3>1, <3>2
  <2>12. calls'[1].next > 0 /\ calls'[1].last = read' /\ direction' = "reverse"
    <3>1. e.next > 0
      BY <2>1, <2>4
    <3> QED BY <1>1, <2>1, <2>4, <3>1 DEF e
  <2> QED BY <2>4, <2>7, <2>11, <2>12 DEF Numbered
<1> QED BY <1>4, <1>5

LEMMA StepInOrder ==
  ASSUME TypeOK, Numbered, OneAtATime, [Next]_vars PROVE Numbered'
<1>1. CASE UNCHANGED vars \/ RequestLost \/ StreamLostOrOpened
  <2>1. UNCHANGED <<direction, read, calls, wire, dropped>>
    BY <1>1 DEF vars, RequestLost, StreamLostOrOpened, link
  <2> QED BY <2>1, CloseType, OtherFrame
<1>2. CASE Ends \/ Fails
  <2>1. UNCHANGED <<direction, read, calls, dropped>> /\ (wire' = Append(wire, Close) \/ wire' = wire)
    BY <1>2 DEF Ends, Fails, SendClose, link
  <2> QED BY <2>1, CloseType, OtherFrame
<1>3. ASSUME NEW f \in Others, SendsOther(f) PROVE Numbered'
  <2>1. UNCHANGED <<direction, read, calls, dropped>> /\ wire' = Append(wire, f)
    BY <1>3 DEF SendsOther, link
  <2> QED BY <2>1, OtherType, OtherFrame
<1> QED BY <1>1, <1>2, <1>3, SendDataInOrder, CheckPhaseInOrder DEF Next

(* While no call is started behind another, the pieces are sent as they are*)
(* numbered.                                                               *)
LEMMA NumberedInvariant == Spec => [](OneAtATime => Numbered)
<1>1. Init => (OneAtATime => Numbered)
  <2> SUFFICES ASSUME Init PROVE Numbered
    OBVIOUS
  <2>1. wire = <<>> /\ calls = <<>> /\ read = 0 /\ dropped = {}
    BY DEF Init
  <2>2. Sent = {} /\ Done = {}
    BY <2>1 DEF Sent, Carried, Done
  <2>3. Idle /\ SentSoFar = 0
    BY <2>1 DEF Idle, SentSoFar
  <2> QED BY <2>1, <2>2, <2>3 DEF Numbered, Ordered
<1>2. TypeOK /\ (OneAtATime => Numbered) /\ [Next]_vars => (OneAtATime => Numbered)'
  <2> SUFFICES ASSUME TypeOK, OneAtATime => Numbered, [Next]_vars, OneAtATime'
               PROVE  Numbered'
    OBVIOUS
  <2>1. OneAtATime
    BY DEF OneAtATime, Next, vars, link, SendData, CheckPhase, Ends, Fails, RequestLost,
           StreamLostOrOpened, SendsOther
  <2> QED BY <2>1, StepInOrder
<1> QED BY <1>1, <1>2, TypeCorrect, PTL DEF Spec

LEMMA NumberedIsInOrder == TypeOK /\ Numbered => InOrder
<1> SUFFICES ASSUME TypeOK, Numbered PROVE InOrder
  OBVIOUS
<1>1. SentSoFar \in Nat /\ Carried \cup dropped = 1 .. SentSoFar
  BY SentSoFarType DEF Numbered, Done
<1> QED BY <1>1 DEF InOrder, Numbered, Ordered

(* What is written of a request is in order within each buffer (_sendData, *)
(* _sendDataToClient), and in all where _write reports back when the call  *)
(* is over or no read is cut; CLOSE comes behind it; and a piece that is   *)
(* missing had its turn while there was no stream, or no request, for it.  *)
THEOREM ArrivesWholeAndInOrder == Spec => []WholeAndInOrder
<1>1. TypeOK /\ (OneAtATime => Numbered) /\ Whole /\ BuffersInOrder => WholeAndInOrder
  BY NumberedIsInOrder DEF WholeAndInOrder
<1> QED BY <1>1, NumberedInvariant, BuffersAreInOrder, TypeCorrect, EndWaits, PTL
==============================================================================
