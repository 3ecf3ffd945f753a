------------------------ MODULE PointCloudFrames ------------------------
(***************************************************************************)
(* The conversions of PointCloudStream are right for every frame: what is  *)
(* made of it, in either format, are its returns in order (ConvertIsFrame, *)
(* SimpleIsFrame), and the returns of several frames add up                *)
(* (ReturnsOfAllSteps).  Each of the model's folds is a chain of values    *)
(* (FoldLemmas), and what is said of its last value is proved by induction *)
(* along the chain.                                                        *)
(***************************************************************************)
EXTENDS PointCloudStream, FoldLemmas, FiniteSetTheorems

-----------------------------------------------------------------------------
(* How many returns there are before a pulse. *)

Adding(s) == [k \in 1..Len(s) |-> [v \in Nat |-> v + s[k]]]

\* A sum is the last of its partial sums.
LEMMA SumChain ==
  ASSUME NEW s \in Seq(Nat)
  PROVE  \E h \in [0..Len(s) -> Nat] :
           /\ IsChain(h, Len(s), 0, Adding(s))
           /\ FoldLeft(LAMBDA a, b : a + b, 0, s) = h[Len(s)]
<1> DEFINE n == Len(s)
           G == Adding(s)
           E(f) == f = [t \in SUBSET (DOMAIN s) |->
                          IF t = {} THEN 0 ELSE f[t \ {Max(t)}] + s[Max(t)]]
           c == CHOOSE f : E(f)
<1>0. n \in Nat /\ DOMAIN s = 1..n /\ 0 \in Nat /\ \A k \in 1..n : s[k] \in Nat
  OBVIOUS
<1>1. FoldLeft(LAMBDA a, b : a + b, 0, s) = c[DOMAIN s]
  BY DEF FoldLeft, MapThenFoldSet
<1>2. G \in [1..n -> [Nat -> Nat]]
  <2>1. \A k \in 1..n : [v \in Nat |-> v + s[k]] \in [Nat -> Nat] BY <1>0
  <2> QED BY <2>1 DEF Adding
<1>3. \A k \in 1..n : \A v \in Nat : G[k][v] = v + s[k] BY DEF Adding
<1> HIDE DEF G
<1>4. PICK it \in [SUBSET (1..n) -> Nat] : IsTable(it, n, 0, G)
  BY <1>0, <1>2, TableExists DEF HasTable
<1>5. E(it)
  <2>1. ASSUME NEW t \in SUBSET (1..n)
        PROVE  it[t] = IF t = {} THEN 0 ELSE it[t \ {Max(t)}] + s[Max(t)]
    <3>1. CASE t = {} BY <3>1, <1>4 DEF IsTable
    <3>2. CASE t # {}
      <4>1. Max(t) \in 1..n BY <3>2, <1>0, MaxInSet
      <4>2. t \ {Max(t)} \in SUBSET (1..n) OBVIOUS
      <4>3. it[t] = G[Max(t)][it[t \ {Max(t)}]] BY <3>2, <1>4 DEF IsTable
      <4>4. it[t \ {Max(t)}] \in Nat BY <4>2
      <4> QED BY <3>2, <4>1, <4>3, <4>4, <1>3
    <3> QED BY <3>1, <3>2
  <2> QED BY <2>1, <1>0
<1>6. E(c) BY <1>5
<1> HIDE DEF c
<1>7. FoldsFirst(c, n, Nat, 0, G)
  <2>1. c[{}] = 0 BY <1>6, <1>0
  <2>2. ASSUME NEW k \in 1..n, c[1..k-1] \in Nat PROVE c[1..k] = G[k][c[1..k-1]]
    <3>1. k \in Nat /\ k # 0 /\ 1..k \in SUBSET (1..n) /\ k \in 1..k
      <4>1. \A x \in 1..k : x \in 1..n BY <1>0
      <4> QED BY <4>1
    <3>2. Max(1..k) = k /\ (1..k) \ {k} = 1..k-1 BY <3>1, MaxOfFirst
    <3>3. c[1..k] = c[(1..k) \ {Max(1..k)}] + s[Max(1..k)] BY <1>6, <3>1, <1>0
    <3> QED BY <3>2, <3>3, <2>2, <1>3
  <2> QED BY <2>1, <2>2 DEF FoldsFirst
<1>8. \E h \in [0..n -> Nat] : IsChain(h, n, 0, G) /\ h[n] = c[1..n]
  <2>1. IsFold(c, n, Nat, 0, G) BY <1>0, <1>2, <1>7 DEF IsFold
  <2>2. HasChain(c, n, Nat, 0, G) BY <2>1, IntervalChain, Zenon
  <2> QED BY <2>2, Zenon DEF HasChain
<1>9. c[DOMAIN s] = c[1..n] BY <1>0
<1>10. PICK h \in [0..n -> Nat] : IsChain(h, n, 0, G) /\ h[n] = c[1..n] BY <1>8
<1>11. FoldLeft(LAMBDA a, b : a + b, 0, s) = h[n] BY <1>1, <1>9, <1>10, Zenon
<1> QED BY <1>10, <1>11, Zenon DEF G

\* Each pulse adds its returns.
LEMMA BeforeStep ==
  ASSUME NEW f, f.pulses \in Seq(Nat)
  PROVE  /\ \A n \in 0..Len(f.pulses) : Before(f, n) \in Nat
         /\ Before(f, 0) = 0
         /\ \A n \in 1..Len(f.pulses) : Before(f, n) = Before(f, n - 1) + f.pulses[n]
<1> DEFINE q == f.pulses
           N == Len(q)
           Part(n) == SubSeq(q, 1, n)
<1>0. N \in Nat /\ \A k \in 1..N : q[k] \in Nat OBVIOUS
<1>1. ASSUME NEW n \in 0..N
      PROVE  Part(n) \in Seq(Nat) /\ Len(Part(n)) = n /\ \A k \in 1..n : Part(n)[k] = q[k]
  <2>1. n \in Int /\ 1 \in Int /\ \A i \in 1..n : q[i] \in Nat BY <1>0
  <2>2. /\ SubSeq(q, 1, n) \in Seq(Nat)
        /\ Len(SubSeq(q, 1, n)) = IF 1 <= n THEN n - 1 + 1 ELSE 0
        /\ \A i \in 1 .. n - 1 + 1 : SubSeq(q, 1, n)[i] = q[1 + i - 1]
    BY <2>1, SubSeqProperties
  <2>3. n - 1 + 1 = n /\ (~(1 <= n) => n = 0) /\ \A i \in 1..n : 1 + i - 1 = i BY <1>0
  <2> QED BY <2>2, <2>3
<1>2. ASSUME NEW n \in 0..N
      PROVE  \E h : /\ h \in [0..n -> Nat]
                    /\ IsChain(h, n, 0, Adding(Part(n))) /\ Before(f, n) = h[n]
  <2> DEFINE s == Part(n)
  <2>1. s \in Seq(Nat) /\ Len(s) = n BY <1>1
  <2>2. Before(f, n) = FoldLeft(LAMBDA a, b : a + b, 0, s) BY Zenon DEF Before
  <2> HIDE DEF s
  <2>3. PICK h \in [0..Len(s) -> Nat] : /\ IsChain(h, Len(s), 0, Adding(s))
                                        /\ FoldLeft(LAMBDA a, b : a + b, 0, s) = h[Len(s)]
    BY <2>1, SumChain, Zenon
  <2>4. Before(f, n) = h[Len(s)] BY <2>2, <2>3, Zenon
  <2>5. h \in [0..n -> Nat] /\ IsChain(h, n, 0, Adding(s)) /\ Before(f, n) = h[n]
    BY <2>1, <2>3, <2>4, Zenon
  <2> QED BY <2>5 DEF s
<1>3. ASSUME NEW n \in 0..N, NEW k \in 1..n
      PROVE  Adding(Part(n))[k] = [v \in Nat |-> v + q[k]]
  <2> DEFINE s == Part(n)
  <2>1. Len(s) = n /\ s[k] = q[k] BY <1>1
  <2> HIDE DEF s
  <2>2. Adding(s)[k] = [v \in Nat |-> v + s[k]] BY <2>1 DEF Adding
  <2>3. Adding(s)[k] = [v \in Nat |-> v + q[k]] BY <2>1, <2>2
  <2> QED BY <2>3 DEF s
<1> HIDE DEF Part
<1>4. \A n \in 0..N : Before(f, n) \in Nat
  <2> SUFFICES ASSUME NEW n \in 0..N PROVE Before(f, n) \in Nat
    OBVIOUS
  <2>1. PICK h : /\ h \in [0..n -> Nat]
                /\ IsChain(h, n, 0, Adding(Part(n))) /\ Before(f, n) = h[n]
    BY <1>2
  <2> QED BY <2>1, <1>0
<1>5. Before(f, 0) = 0
  <2> DEFINE m == 0
  <2>0. m \in 0..N BY <1>0
  <2> HIDE DEF m
  <2>1. PICK h : /\ h \in [0..m -> Nat]
                /\ IsChain(h, m, 0, Adding(Part(m))) /\ Before(f, m) = h[m]
    BY <1>2, <2>0
  <2>2. h[0] = 0 BY <2>1 DEF IsChain
  <2> QED BY <2>1, <2>2 DEF m
<1>6. ASSUME NEW n \in 1..N PROVE Before(f, n) = Before(f, n - 1) + q[n]
  <2> DEFINE m == n - 1
  <2>0. n \in 0..N /\ m \in 0..N /\ m \in Nat /\ n \in Nat /\ m \in 0..m /\ n \in 1..n BY <1>0
  <2> HIDE DEF m
  <2>1. PICK g : /\ g \in [0..n -> Nat]
                /\ IsChain(g, n, 0, Adding(Part(n))) /\ Before(f, n) = g[n]
    BY <1>2, <2>0
  <2>2. PICK h : /\ h \in [0..m -> Nat]
                /\ IsChain(h, m, 0, Adding(Part(m))) /\ Before(f, m) = h[m]
    BY <1>2, <2>0
  <2>3. IsChain(g, m, 0, Adding(Part(m)))
    <3>1. g[0] = 0 BY <2>1 DEF IsChain
    <3>2. ASSUME NEW k \in 1..m PROVE g[k] = Adding(Part(m))[k][g[k - 1]]
      <4>1. k \in 1..n BY <2>0 DEF m
      <4>2. g[k] = Adding(Part(n))[k][g[k - 1]] BY <2>1, <4>1 DEF IsChain
      <4>3. Adding(Part(n))[k] = Adding(Part(m))[k] BY <1>3, <2>0, <4>1
      <4> QED BY <4>2, <4>3
    <3> QED BY <3>1, <3>2 DEF IsChain
  <2>4. g[m] = h[m]
    <3> DEFINE A == Adding(Part(m))
               z == 0
    <3>1. IsChain(g, m, z, A) /\ IsChain(h, m, z, A) BY <2>2, <2>3
    <3> HIDE DEF A, z
    <3>2. \A k \in 0..m : g[k] = h[k] BY <3>1, <2>0, ChainUnique
    <3>3. m \in 0..m BY <2>0
    <3> QED BY <3>2, <3>3
  <2>5. g[n] = Adding(Part(n))[n][g[n - 1]] BY <2>1, <2>0 DEF IsChain
  <2>6. Adding(Part(n))[n] = [v \in Nat |-> v + q[n]] BY <1>3, <2>0
  <2>7. g[m] \in Nat BY <2>0, <2>1 DEF m
  <2>8. g[n] = g[m] + q[n] BY <2>5, <2>6, <2>7 DEF m
  <2>9. Before(f, n) = Before(f, m) + q[n] BY <2>1, <2>2, <2>4, <2>8
  <2> QED BY <2>9 DEF m
<1>7. \A n \in 1..N : Before(f, n) = Before(f, n - 1) + q[n] BY <1>6
<1> QED BY <1>4, <1>5, <1>7

-----------------------------------------------------------------------------
(* The returns in the order of the pulses. *)

PulseReturns(f) == [p \in DOMAIN f.pulses |-> [n \in 1..f.pulses[p] |-> p - 1]]

\* There are as many as the pulses say, and each pulse has its own in one place.
LEMMA ScanOfPulses ==
  ASSUME NEW f, f.pulses \in Seq(Nat)
  PROVE  /\ PulsesOfReturns(f) \in Seq(0..Len(f.pulses) - 1)
         /\ Len(PulsesOfReturns(f)) = Returns(f)
         /\ \A p \in 1..Len(f.pulses) :
              /\ Before(f, p) <= Returns(f)
              /\ \A i \in Before(f, p - 1) + 1 .. Before(f, p) : PulsesOfReturns(f)[i] = p - 1
<1> DEFINE q == f.pulses
           N == Len(q)
           V == 0..N - 1
           s == PulseReturns(f)
<1>0. N \in Nat /\ DOMAIN q = 1..N /\ \A k \in 1..N : q[k] \in Nat OBVIOUS
<1>1. ASSUME NEW p \in 1..N
      PROVE  s[p] \in Seq(V) /\ Len(s[p]) = q[p] /\ \A i \in 1..q[p] : s[p][i] = p - 1
  <2> DEFINE m == q[p]
             w == [i \in 1..m |-> p - 1]
  <2>1. s[p] = w BY <1>0 DEF PulseReturns
  <2>2. m \in Nat /\ p - 1 \in V BY <1>0
  <2> HIDE DEF m, V
  <2>3. w \in Seq(V) /\ Len(w) = m /\ \A i \in 1..m : w[i] = p - 1 BY <2>2
  <2> HIDE DEF w, s
  <2> QED BY <2>1, <2>3 DEF m
<1>2. s \in Seq(Seq(V)) /\ Len(s) = N
  <2>1. DOMAIN s = 1..N BY <1>0 DEF PulseReturns
  <2>2. s = [p \in 1..N |-> s[p]] BY <1>0 DEF PulseReturns
  <2> HIDE DEF s, V
  <2>3. s \in [1..N -> Seq(V)] BY <2>2, <1>1
  <2> QED BY <2>3, <1>0
<1>3. PulsesOfReturns(f) = FlattenSeq(s) BY DEF PulsesOfReturns, PulseReturns
<1> HIDE DEF s, V
<1>4. PICK h : IsFlattening(h, s, V) /\ FlattenSeq(s) = h[Len(s)] BY <1>2, FlattenChain
<1>t. \A k \in 0..N : h[k] \in Seq(V) BY <1>2, <1>4 DEF IsFlattening
<1>5. ASSUME NEW p \in 1..N PROVE h[p] = h[p - 1] \o s[p]
  BY <1>2, <1>4, Zenon DEF IsFlattening
<1>6. \A k \in 0..N : Len(h[k]) = Before(f, k)
  <2> DEFINE S == {k \in Nat : k <= N => Len(h[k]) = Before(f, k)}
  <2>1. 0 \in S
    <3>1. h[0] = <<>> BY <1>4, Zenon DEF IsFlattening
    <3>2. Len(h[0]) = 0 BY <3>1
    <3>3. Before(f, 0) = 0 BY BeforeStep
    <3> QED BY <3>2, <3>3
  <2>2. ASSUME NEW k \in Nat, k \in S PROVE k + 1 \in S
    <3> SUFFICES ASSUME k + 1 <= N PROVE Len(h[k + 1]) = Before(f, k + 1)
      OBVIOUS
    <3> DEFINE m == k + 1
    <3>1. m \in 1..N /\ m - 1 = k /\ k \in 0..N BY <1>0
    <3>2. Len(h[k]) = Before(f, k) BY <2>2, <3>1, <1>0
    <3> HIDE DEF m, S
    <3>3. Before(f, m) = Before(f, m - 1) + q[m] BY <3>1, BeforeStep
    <3>4. h[m] = h[m - 1] \o s[m] BY <3>1, <1>5
    <3>5. h[k] \in Seq(V) /\ s[m] \in Seq(V) BY <3>1, <1>t, <1>1
    <3>6. Len(h[k] \o s[m]) = Len(h[k]) + Len(s[m]) BY <3>5, ConcatProperties
    <3>7. Len(s[m]) = q[m] BY <3>1, <1>1
    <3>8. h[m] = h[k] \o s[m] BY <3>1, <3>4
    <3>9. Before(f, m) = Before(f, k) + q[m] BY <3>1, <3>3
    <3>10. Len(h[m]) = Before(f, m) BY <3>2, <3>6, <3>7, <3>8, <3>9
    <3> QED BY <3>10 DEF m
  <2> HIDE DEF S
  <2>3. Nat \subseteq S BY <2>1, <2>2, NatInd
  <2> QED BY <2>3, <1>0 DEF S
<1>7. PulsesOfReturns(f) = h[N] BY <1>2, <1>3, <1>4
<1>8. Len(h[N]) = Returns(f)
  <2>1. N \in 0..N BY <1>0
  <2> QED BY <2>1, <1>6 DEF Returns
<1>9. ASSUME NEW p \in 1..N
      PROVE  /\ Before(f, p) <= Returns(f)
             /\ \A i \in Before(f, p - 1) + 1 .. Before(f, p) : h[N][i] = p - 1
  <2> DEFINE j == p - 1
  <2>0. p \in 0..N /\ N \in 0..N /\ p <= N /\ j \in 0..N /\ p - 1 = j BY <1>0
  <2> HIDE DEF j
  <2>1. Len(h[p]) <= Len(h[N]) /\ \A i \in 1..Len(h[p]) : h[N][i] = h[p][i]
    <3>1. p \in 0..Len(s) /\ N \in 0..Len(s) /\ IsFlattening(h, s, V) /\ s \in Seq(Seq(V))
      BY <2>0, <1>2, <1>4
    <3> DEFINE e == N
    <3>2. e \in 0..Len(s) /\ p <= e BY <3>1, <2>0
    <3> HIDE DEF e
    <3>3. Len(h[p]) <= Len(h[e]) /\ \A i \in 1..Len(h[p]) : h[e][i] = h[p][i]
      BY <3>1, <3>2, FlattenPrefix
    <3> QED BY <3>3 DEF e
  <2>2. Len(h[p]) = Before(f, p) /\ Len(h[j]) = Before(f, j) BY <1>6, <2>0
  <2>3. ASSUME NEW i \in Before(f, j) + 1 .. Before(f, p) PROVE h[N][i] = j
    <3> DEFINE a == h[j]
               b == s[p]
    <3>1. a \in Seq(V) /\ b \in Seq(V) /\ Len(b) = q[p] /\ \A l \in 1..q[p] : b[l] = j
      BY <1>t, <1>1, <2>0
    <3>2. h[p] = a \o b BY <1>5, <2>0
    <3> HIDE DEF a, b
    <3>3. Len(a) = Before(f, j) BY <2>2 DEF a
    <3>4. Len(a) \in Nat /\ Len(b) \in Nat BY <3>1
    <3>5. Before(f, p) = Len(a) + Len(b)
      <4>1. Before(f, p) = Before(f, p - 1) + q[p] BY BeforeStep
      <4> QED BY <4>1, <3>1, <3>3, <2>0
    <3>6. i \in 1..Len(a) + Len(b) /\ ~(i <= Len(a)) /\ i - Len(a) \in 1..Len(b)
      BY <3>3, <3>4, <3>5
    <3>7. (a \o b)[i] = b[i - Len(a)] BY <3>1, <3>6, ConcatProperties
    <3>8. h[p][i] = j BY <3>1, <3>2, <3>6, <3>7
    <3>9. i \in 1..Len(h[p]) BY <2>2, <3>4, <3>5, <3>6
    <3> QED BY <2>1, <3>8, <3>9
  <2>4. Before(f, p) <= Returns(f) BY <2>1, <2>2, <1>8
  <2> QED BY <2>3, <2>4, <2>0
<1>10. h[N] \in Seq(V) BY <1>t, <1>0
<1>11. PulsesOfReturns(f) \in Seq(0..N - 1) BY <1>7, <1>10 DEF V
<1> QED BY <1>7, <1>8, <1>9, <1>11

-----------------------------------------------------------------------------
(* Scanlines of points of returns, and what the three loops make of them. *)

ReturnType == [pulse : Nat, at : Nat \X Nat]
PointType == {p \in [id : Nat, light : Nat, returns : Seq(ReturnType)] : p.light = Light(p.id)}
LineType(Ids) == [id : Ids, points : Seq(PointType)]
EntryType == [at : Nat \X Nat, light : Nat, id : Nat]

\* A point makes entries.
LEMMA OfPointType ==
  ASSUME NEW p \in PointType
  PROVE  OfPoint(p) \in Seq(EntryType)
<1> DEFINE s == p.returns
           n == Len(s)
           a == p.light
           b == p.id
           t == [i \in 1..n |-> [at |-> s[i].at, light |-> a, id |-> b]]
<1>1. s \in Seq(ReturnType) /\ a \in Nat /\ b \in Nat BY DEF PointType
<1>2. OfPoint(p) = t BY <1>1 DEF OfPoint
<1>3. n \in Nat /\ \A i \in 1..n : s[i] \in ReturnType BY <1>1
<1>4. \A i \in 1..n : s[i].at \in Nat \X Nat BY <1>3 DEF ReturnType
<1> HIDE DEF s, n, a, b
<1>5. t \in [1..n -> EntryType] BY <1>1, <1>4 DEF EntryType
<1> HIDE DEF t
<1>6. t \in Seq(EntryType) BY <1>3, <1>5
<1> QED BY <1>2, <1>6

\* One return more at the end of a point.
LEMMA OfPointAppend ==
  ASSUME NEW p \in PointType, NEW r \in ReturnType
  PROVE  LET p2 == [p EXCEPT !.returns = Append(@, r)] IN
           /\ p2 \in PointType
           /\ OfPoint(p2) = OfPoint(p) \o <<[at |-> r.at, light |-> p.light, id |-> p.id]>>
<1> DEFINE s == p.returns
           n == Len(s)
           a == p.light
           b == p.id
           u == Append(s, r)
           p2 == [p EXCEPT !.returns = Append(@, r)]
           e == [at |-> r.at, light |-> p.light, id |-> p.id]
<1>1. s \in Seq(ReturnType) /\ a \in Nat /\ b \in Nat /\ n \in Nat BY DEF PointType
<1>2. u \in Seq(ReturnType) /\ Len(u) = n + 1 /\ u[n + 1] = r /\ \A i \in 1..n : u[i] = s[i]
  BY <1>1
<1>3. p2.returns = u /\ p2.light = a /\ p2.id = b /\ p2 \in PointType
  BY <1>2 DEF PointType
<1>4. e \in EntryType BY <1>1 DEF EntryType, ReturnType
<1>5. OfPoint(p) \in Seq(EntryType) /\ OfPoint(p2) \in Seq(EntryType) BY <1>3, OfPointType
<1>6. Len(OfPoint(p)) = n /\ \A i \in 1..n : OfPoint(p)[i] = [at |-> s[i].at, light |-> a, id |-> b]
  BY <1>1 DEF OfPoint
<1>7. /\ Len(OfPoint(p2)) = n + 1
      /\ \A i \in 1..n + 1 : OfPoint(p2)[i] = [at |-> u[i].at, light |-> a, id |-> b]
  <2> HIDE DEF p2, u, a, b, s
  <2>1. DOMAIN u = 1..n + 1 BY <1>2, <1>1
  <2>2. OfPoint(p2) = [i \in 1..n + 1 |-> [at |-> u[i].at, light |-> a, id |-> b]]
    BY <2>1, <1>3 DEF OfPoint
  <2>3. n + 1 \in Nat BY <1>1
  <2> QED BY <2>2, <2>3
<1> DEFINE x == OfPoint(p)
           y == OfPoint(p2)
<1> HIDE DEF x, y, e, p2, u, s, n, a, b
<1>8. x \o <<e>> \in Seq(EntryType) /\ Len(x \o <<e>>) = n + 1
      /\ (x \o <<e>>)[n + 1] = e /\ \A i \in 1..n : (x \o <<e>>)[i] = x[i]
  <2>1. x \in Seq(EntryType) /\ Len(x) = n /\ n \in Nat /\ e \in EntryType
    BY <1>1, <1>4, <1>5, <1>6 DEF x
  <2>2. <<e>> \in Seq(EntryType) /\ Len(<<e>>) = 1 /\ <<e>>[1] = e BY <2>1
  <2>3. /\ x \o <<e>> \in Seq(EntryType) /\ Len(x \o <<e>>) = Len(x) + Len(<<e>>)
        /\ \A i \in 1..Len(x) + Len(<<e>>) :
             (x \o <<e>>)[i] = IF i <= Len(x) THEN x[i] ELSE <<e>>[i - Len(x)]
    BY <2>1, <2>2, ConcatProperties
  <2>4. n + 1 \in 1..Len(x) + Len(<<e>>) /\ ~(n + 1 <= Len(x)) /\ n + 1 - Len(x) = 1
        /\ \A i \in 1..n : i \in 1..Len(x) + Len(<<e>>) /\ i <= Len(x)
    BY <2>1, <2>2
  <2>5. (x \o <<e>>)[n + 1] = e BY <2>2, <2>3, <2>4
  <2>6. \A i \in 1..n : (x \o <<e>>)[i] = x[i] BY <2>3, <2>4
  <2> QED BY <2>1, <2>2, <2>3, <2>5, <2>6
<1>9. \A i \in 1..n + 1 : y[i] = (x \o <<e>>)[i]
  <2>1. \A i \in 1..n + 1 : i = n + 1 \/ i \in 1..n BY <1>1
  <2>2. y[n + 1] = e
    <3>1. n + 1 \in 1..n + 1 BY <1>1
    <3>2. y[n + 1] = [at |-> u[n + 1].at, light |-> a, id |-> b] BY <1>7, <3>1 DEF y
    <3> QED BY <3>2, <1>2 DEF e, a, b
  <2>3. ASSUME NEW i \in 1..n PROVE y[i] = x[i]
    <3>1. i \in 1..n + 1 BY <1>1
    <3> QED BY <3>1, <1>2, <1>6, <1>7 DEF x, y
  <2> QED BY <2>1, <2>2, <2>3, <1>8
<1>10. y = x \o <<e>> BY <1>5, <1>7, <1>8, <1>9, SeqEqual DEF y
<1> QED BY <1>3, <1>10 DEF x, y, p2, e

\* So do the points of a line, one after the other ...
LEMMA OfLineType ==
  ASSUME NEW s \in Seq(PointType)
  PROVE  /\ [k \in DOMAIN s |-> OfPoint(s[k])] \in Seq(Seq(EntryType))
         /\ Len([k \in DOMAIN s |-> OfPoint(s[k])]) = Len(s)
         /\ FlattenSeq([k \in DOMAIN s |-> OfPoint(s[k])]) \in Seq(EntryType)
<1> DEFINE n == Len(s)
           t == [k \in 1..n |-> OfPoint(s[k])]
<1>1. n \in Nat /\ DOMAIN s = 1..n /\ \A k \in 1..n : s[k] \in PointType OBVIOUS
<1>2. \A k \in 1..n : OfPoint(s[k]) \in Seq(EntryType) BY <1>1, OfPointType
<1>3. t \in Seq(Seq(EntryType)) /\ Len(t) = n BY <1>1, <1>2
<1>4. FlattenSeq(t) \in Seq(EntryType) BY <1>3, FlattenType
<1> QED BY <1>1, <1>3, <1>4

\* ... and the lines.
LEMMA OfLinesType ==
  ASSUME NEW Ids, NEW s \in Seq(LineType(Ids))
  PROVE  /\ [k \in DOMAIN s |-> OfLine(s[k])] \in Seq(Seq(EntryType))
         /\ Len([k \in DOMAIN s |-> OfLine(s[k])]) = Len(s)
         /\ OfLines(s) \in Seq(EntryType)
<1> DEFINE n == Len(s)
           t == [k \in 1..n |-> OfLine(s[k])]
<1>1. n \in Nat /\ DOMAIN s = 1..n /\ \A k \in 1..n : s[k] \in LineType(Ids) OBVIOUS
<1>2. \A k \in 1..n : OfLine(s[k]) \in Seq(EntryType) 
  BY <1>1, OfLineType DEF OfLine, LineType
<1>3. t \in Seq(Seq(EntryType)) /\ Len(t) = n BY <1>1, <1>2
<1>4. FlattenSeq(t) \in Seq(EntryType) BY <1>3, FlattenType
<1> QED BY <1>1, <1>3, <1>4 DEF OfLines

\* The points of a line.
OfPoints(s) == FlattenSeq([k \in DOMAIN s |-> OfPoint(s[k])])

\* A point more at the end of a line adds its entries.
LEMMA PointsAppend ==
  ASSUME NEW s \in Seq(PointType), NEW p \in PointType
  PROVE  OfPoints(Append(s, p)) = OfPoints(s) \o OfPoint(p)
<1> DEFINE n == Len(s)
           u == Append(s, p)
           M == [k \in DOMAIN s |-> OfPoint(s[k])]
           K == [k \in DOMAIN u |-> OfPoint(u[k])]
           x == OfPoint(p)
<1>1. n \in Nat /\ DOMAIN s = 1..n BY LenProperties
<1>2. u \in Seq(PointType) /\ Len(u) = n + 1 /\ u[n + 1] = p /\ \A k \in 1..n : u[k] = s[k]
      /\ DOMAIN u = 1..n + 1
  BY <1>1
<1>3. M \in Seq(Seq(EntryType)) /\ Len(M) = n /\ K \in Seq(Seq(EntryType)) /\ Len(K) = n + 1
  <2> HIDE DEF u
  <2> QED BY <1>2, OfLineType
<1>4. x \in Seq(EntryType) BY OfPointType
<1>5. \A k \in 1..n : M[k] = OfPoint(s[k]) BY <1>1
<1>6. K[n + 1] = x /\ \A k \in 1..n : K[k] = OfPoint(s[k])
  <2> HIDE DEF u
  <2>1. \A k \in 1..n + 1 : K[k] = OfPoint(u[k]) BY <1>2
  <2>2. n + 1 \in 1..n + 1 /\ \A k \in 1..n : k \in 1..n + 1 BY <1>1
  <2> QED BY <2>1, <2>2, <1>2
<1>7. OfPoints(s) = FlattenSeq(M) /\ OfPoints(u) = FlattenSeq(K) BY DEF OfPoints
<1> HIDE DEF M, K, x, u
<1>8. Append(M, x) \in Seq(Seq(EntryType)) /\ Len(Append(M, x)) = n + 1
      /\ Append(M, x)[n + 1] = x /\ \A k \in 1..n : Append(M, x)[k] = M[k]
  BY <1>1, <1>3, <1>4
<1>9. \A k \in 1..n + 1 : K[k] = Append(M, x)[k]
  <2>1. \A k \in 1..n + 1 : k = n + 1 \/ k \in 1..n BY <1>1
  <2> QED BY <2>1, <1>5, <1>6, <1>8
<1>10. K = Append(M, x) BY <1>3, <1>8, <1>9, SeqEqual
<1>11. FlattenSeq(Append(M, x)) = FlattenSeq(M) \o x BY <1>3, <1>4, FlattenAppend, SMTT(30)
<1>12. OfPoints(u) = OfPoints(s) \o x BY <1>7, <1>10, <1>11
<1> QED BY <1>12 DEF u, x

\* What the last point of a line makes more, the line makes more ...
LEMMA PointsLast ==
  ASSUME NEW s \in Seq(PointType), s # <<>>, NEW p \in PointType, NEW y \in Seq(EntryType),
         OfPoint(p) = OfPoint(s[Len(s)]) \o y
  PROVE  /\ [s EXCEPT ![Len(s)] = p] \in Seq(PointType)
         /\ OfPoints([s EXCEPT ![Len(s)] = p]) = OfPoints(s) \o y
<1> DEFINE n == Len(s)
           u == [s EXCEPT ![n] = p]
           M == [k \in DOMAIN s |-> OfPoint(s[k])]
           K == [k \in DOMAIN u |-> OfPoint(u[k])]
<1>1. n \in Nat /\ n # 0 /\ n \in 1..n /\ DOMAIN s = 1..n BY LenProperties, EmptySeq
<1>2. u \in Seq(PointType) /\ Len(u) = n /\ u[n] = p /\ (\A k \in 1..n : k # n => u[k] = s[k])
      /\ DOMAIN u = 1..n
  <2>1. /\ u \in Seq(PointType) /\ Len(u) = n
        /\ \A j \in 1..n : u[j] = IF j = n THEN p ELSE s[j]
    BY <1>1, ExceptSeq
  <2> HIDE DEF u
  <2>2. DOMAIN u = 1..n BY <2>1, LenProperties
  <2> HIDE DEF n
  <2> QED BY <2>1, <2>2, <1>1
<1>3. M \in Seq(Seq(EntryType)) /\ Len(M) = n /\ K \in Seq(Seq(EntryType)) /\ Len(K) = n
  <2> HIDE DEF u
  <2> QED BY <1>2, OfLineType
<1>4. \A k \in 1..n : M[k] = OfPoint(s[k]) BY <1>1
<1>5. \A k \in 1..n : K[k] = OfPoint(u[k])
  <2> HIDE DEF u
  <2> QED BY <1>2
<1>6. OfPoints(s) = FlattenSeq(M) /\ OfPoints(u) = FlattenSeq(K) BY DEF OfPoints
<1> HIDE DEF M, K, u
<1>7. M[n] \in Seq(EntryType) BY <1>1, <1>3
<1>8. M[n] \o y \in Seq(EntryType) BY <1>7, ConcatProperties
<1> DEFINE z == M[n] \o y
<1> HIDE DEF z
<1>9. [M EXCEPT ![n] = z] \in Seq(Seq(EntryType)) /\ Len([M EXCEPT ![n] = z]) = n
      /\ \A k \in 1..n : [M EXCEPT ![n] = z][k] = IF k = n THEN z ELSE M[k]
  <2>1. n \in 1..Len(M) /\ z \in Seq(EntryType) BY <1>1, <1>3, <1>8 DEF z
  <2> QED BY <2>1, <1>3, ExceptSeq
<1>10. z = OfPoint(p) BY <1>1, <1>4 DEF z
<1>11. \A k \in 1..n : K[k] = [M EXCEPT ![n] = z][k]
  <2>1. \A k \in 1..n : k # n => K[k] = M[k] BY <1>2, <1>4, <1>5
  <2>2. K[n] = z BY <1>1, <1>2, <1>5, <1>10
  <2> TAKE k \in 1..n
  <2>3. CASE k = n BY ONLY <2>2, <2>3, <1>9, <1>1
  <2>4. CASE k # n BY ONLY <2>1, <2>4, <1>9, k \in 1..n
  <2> QED BY <2>3, <2>4, Zenon
<1>12. K = [M EXCEPT ![n] = z]
  <2> DEFINE w == [M EXCEPT ![n] = z]
  <2>1. w \in Seq(Seq(EntryType)) /\ Len(w) = n /\ \A k \in 1..n : K[k] = w[k]
    BY <1>9, <1>11
  <2> HIDE DEF w
  <2>2. K = w BY <2>1, <1>3, SeqEqual
  <2> QED BY <2>2 DEF w
<1>13. M # <<>> BY <1>1, <1>3
<1>14. FlattenSeq([M EXCEPT ![n] = M[n] \o y]) = FlattenSeq(M) \o y
  <2>1. FlattenSeq([M EXCEPT ![Len(M)] = @ \o y]) = FlattenSeq(M) \o y
    BY <1>3, <1>13, FlattenLast
  <2> QED BY <2>1, <1>3
<1>15. OfPoints(u) = OfPoints(s) \o y BY <1>6, <1>12, <1>14 DEF z
<1> QED BY <1>2, <1>15 DEF u

\* ... and what the last line makes more, the lines do.
LEMMA LinesLast ==
  ASSUME NEW Ids, NEW s \in Seq(LineType(Ids)), s # <<>>, NEW l \in LineType(Ids),
         NEW y \in Seq(EntryType), OfLine(l) = OfLine(s[Len(s)]) \o y
  PROVE  /\ [s EXCEPT ![Len(s)] = l] \in Seq(LineType(Ids))
         /\ OfLines([s EXCEPT ![Len(s)] = l]) = OfLines(s) \o y
<1> DEFINE n == Len(s)
           u == [s EXCEPT ![n] = l]
           M == [k \in DOMAIN s |-> OfLine(s[k])]
           K == [k \in DOMAIN u |-> OfLine(u[k])]
<1>1. n \in Nat /\ n # 0 /\ n \in 1..n /\ DOMAIN s = 1..n BY LenProperties, EmptySeq
<1>2. u \in Seq(LineType(Ids)) /\ Len(u) = n /\ u[n] = l
      /\ (\A k \in 1..n : k # n => u[k] = s[k]) /\ DOMAIN u = 1..n
  <2>1. /\ u \in Seq(LineType(Ids)) /\ Len(u) = n
        /\ \A j \in 1..n : u[j] = IF j = n THEN l ELSE s[j]
    BY <1>1, ExceptSeq
  <2> HIDE DEF u
  <2>2. DOMAIN u = 1..n BY <2>1, LenProperties
  <2> HIDE DEF n
  <2> QED BY <2>1, <2>2, <1>1
<1>3. M \in Seq(Seq(EntryType)) /\ Len(M) = n /\ K \in Seq(Seq(EntryType)) /\ Len(K) = n
  <2> HIDE DEF u
  <2> QED BY <1>2, OfLinesType
<1>4. \A k \in 1..n : M[k] = OfLine(s[k]) BY <1>1
<1>5. \A k \in 1..n : K[k] = OfLine(u[k])
  <2> HIDE DEF u
  <2> QED BY <1>2
<1>6. OfLines(s) = FlattenSeq(M) /\ OfLines(u) = FlattenSeq(K) BY DEF OfLines
<1> HIDE DEF M, K, u
<1>7. M[n] \in Seq(EntryType) BY <1>1, <1>3
<1>8. M[n] \o y \in Seq(EntryType) BY <1>7, ConcatProperties
<1> DEFINE z == M[n] \o y
<1> HIDE DEF z
<1>9. [M EXCEPT ![n] = z] \in Seq(Seq(EntryType)) /\ Len([M EXCEPT ![n] = z]) = n
      /\ \A k \in 1..n : [M EXCEPT ![n] = z][k] = IF k = n THEN z ELSE M[k]
  <2>1. n \in 1..Len(M) /\ z \in Seq(EntryType) BY <1>1, <1>3, <1>8 DEF z
  <2> QED BY <2>1, <1>3, ExceptSeq
<1>10. z = OfLine(l) BY <1>1, <1>4 DEF z
<1>11. \A k \in 1..n : K[k] = [M EXCEPT ![n] = z][k]
  <2>1. \A k \in 1..n : k # n => K[k] = M[k] BY <1>2, <1>4, <1>5
  <2>2. K[n] = z BY <1>1, <1>2, <1>5, <1>10
  <2> TAKE k \in 1..n
  <2>3. CASE k = n BY ONLY <2>2, <2>3, <1>9, <1>1
  <2>4. CASE k # n BY ONLY <2>1, <2>4, <1>9, k \in 1..n
  <2> QED BY <2>3, <2>4, Zenon
<1>12. K = [M EXCEPT ![n] = z]
  <2> DEFINE w == [M EXCEPT ![n] = z]
  <2>1. w \in Seq(Seq(EntryType)) /\ Len(w) = n /\ \A k \in 1..n : K[k] = w[k]
    BY <1>9, <1>11
  <2> HIDE DEF w
  <2>2. K = w BY <2>1, <1>3, SeqEqual
  <2> QED BY <2>2 DEF w
<1>13. M # <<>> BY <1>1, <1>3
<1>14. FlattenSeq([M EXCEPT ![n] = M[n] \o y]) = FlattenSeq(M) \o y
  <2>1. FlattenSeq([M EXCEPT ![Len(M)] = @ \o y]) = FlattenSeq(M) \o y
    BY <1>3, <1>13, FlattenLast
  <2> QED BY <2>1, <1>3
<1>15. OfLines(u) = OfLines(s) \o y BY <1>6, <1>12, <1>14 DEF z
<1> QED BY <1>2, <1>15 DEF u

Entry(r) == [at |-> r.at, light |-> Light(r.pulse), id |-> r.pulse]

\* PushLine adds no entry.
LEMMA PushLineFlat ==
  ASSUME NEW Ids, NEW s \in Seq(LineType(Ids)), NEW id \in Ids
  PROVE  /\ PushLine(s, id) \in Seq(LineType(Ids)) /\ Len(PushLine(s, id)) = Len(s) + 1
         /\ PushLine(s, id)[Len(s) + 1] = [id |-> id, points |-> <<>>]
         /\ OfLines(PushLine(s, id)) = OfLines(s)
<1> DEFINE n == Len(s)
           l == [id |-> id, points |-> <<>>]
           u == Append(s, l)
           M == [k \in DOMAIN s |-> OfLine(s[k])]
           K == [k \in DOMAIN u |-> OfLine(u[k])]
<1>0. l \in LineType(Ids) /\ l.points = <<>> BY EmptySeq DEF LineType
<1>1. n \in Nat /\ DOMAIN s = 1..n BY LenProperties
<1>2. u \in Seq(LineType(Ids)) /\ Len(u) = n + 1 /\ u[n + 1] = l /\ (\A k \in 1..n : u[k] = s[k])
      /\ DOMAIN u = 1..n + 1
  <2> HIDE DEF l
  <2>1. /\ u \in Seq(LineType(Ids)) /\ Len(u) = n + 1 /\ u[n + 1] = l
        /\ (\A k \in 1..n : u[k] = s[k])
    BY <1>0, <1>1, AppendProperties
  <2> HIDE DEF u
  <2> QED BY <2>1, LenProperties
<1>3. M \in Seq(Seq(EntryType)) /\ Len(M) = n /\ K \in Seq(Seq(EntryType)) /\ Len(K) = n + 1
      /\ FlattenSeq(M) = OfLines(s) /\ FlattenSeq(K) = OfLines(u) /\ OfLines(s) \in Seq(EntryType)
  <2> HIDE DEF u
  <2> QED BY <1>2, OfLinesType DEF OfLines
<1>4. OfLine(l) = <<>>
  <2>1. [k \in DOMAIN <<>> |-> OfPoint(<<>>[k])] = <<>> OBVIOUS
  <2>2. OfLine(l) = FlattenSeq(<<>>) BY <1>0, <2>1 DEF OfLine
  <2> QED BY <2>2, FlattenEmpty
<1>5. \A k \in 1..n : M[k] = OfLine(s[k]) BY <1>1
<1>6. K[n + 1] = <<>> /\ \A k \in 1..n : K[k] = OfLine(s[k])
  <2> HIDE DEF u, l
  <2>1. \A k \in 1..n + 1 : K[k] = OfLine(u[k]) BY <1>2
  <2>2. n + 1 \in 1..n + 1 /\ \A k \in 1..n : k \in 1..n + 1 BY <1>1
  <2> QED BY <2>1, <2>2, <1>2, <1>4
<1> HIDE DEF M, K, u, l
<1> DEFINE x == Append(M, <<>>)
<1>7. x \in Seq(Seq(EntryType)) /\ Len(x) = n + 1 /\ x[n + 1] = <<>>
      /\ \A k \in 1..n : x[k] = M[k]
  <2>1. <<>> \in Seq(EntryType) BY EmptySeq
  <2> QED BY <2>1, <1>1, <1>3, AppendProperties
<1>8. FlattenSeq(x) = FlattenSeq(M) \o <<>>
  <2>1. <<>> \in Seq(EntryType) BY EmptySeq
  <2> QED BY <2>1, <1>3, FlattenAppend
<1> HIDE DEF x
<1>9. K = x
  <2>1. \A k \in 1..n + 1 : k = n + 1 \/ k \in 1..n BY <1>1
  <2>2. \A k \in 1..n + 1 : K[k] = x[k] BY <2>1, <1>5, <1>6, <1>7
  <2> QED BY <2>2, <1>3, <1>7, SeqEqual
<1>10. FlattenSeq(M) \o <<>> = FlattenSeq(M) BY <1>3, ConcatEmptySeq
<1>11. OfLines(u) = OfLines(s) BY <1>3, <1>8, <1>9, <1>10
<1>12. PushLine(s, id) = u BY DEF PushLine, u, l
<1> QED BY <1>2, <1>11, <1>12 DEF l

\* PushPoint adds the entries of the point.
LEMMA PushPointFlat ==
  ASSUME NEW Ids, NEW s \in Seq(LineType(Ids)), s # <<>>, NEW p \in PointType
  PROVE  /\ PushPoint(s, p) \in Seq(LineType(Ids)) /\ Len(PushPoint(s, p)) = Len(s)
         /\ PushPoint(s, p)[Len(s)].points = Append(s[Len(s)].points, p)
         /\ OfLines(PushPoint(s, p)) = OfLines(s) \o OfPoint(p)
<1> DEFINE n == Len(s)
           a == s[n]
           q == a.points
           b == [a EXCEPT !.points = Append(@, p)]
           u == [s EXCEPT ![n] = b]
<1>1. n \in Nat /\ n # 0 /\ n \in 1..n BY LenProperties, EmptySeq
<1>2. a \in LineType(Ids) /\ q \in Seq(PointType)
  <2>1. s[n] \in LineType(Ids) BY <1>1, ElementOfSeq
  <2> QED BY <2>1 DEF LineType
<1>3. Append(q, p) \in Seq(PointType) BY <1>2, AppendProperties
<1>4. b \in LineType(Ids) /\ b.points = Append(q, p) BY <1>2, <1>3 DEF LineType
<1>5. OfPoint(p) \in Seq(EntryType) BY OfPointType
<1>6. OfLine(b) = OfLine(a) \o OfPoint(p)
  <2>1. OfPoints(Append(q, p)) = OfPoints(q) \o OfPoint(p) BY <1>2, PointsAppend
  <2>2. OfLine(b) = OfPoints(b.points) /\ OfLine(a) = OfPoints(a.points) BY DEF OfLine, OfPoints
  <2> QED BY <2>1, <2>2, <1>4
<1>7. PushPoint(s, p) = u BY DEF PushPoint
<1>8. u \in Seq(LineType(Ids)) /\ OfLines(u) = OfLines(s) \o OfPoint(p)
  <2> HIDE DEF b
  <2> QED BY <1>4, <1>5, <1>6, LinesLast
<1>9. Len(u) = n /\ u[n] = b
  <2> HIDE DEF b
  <2> QED BY <1>1, <1>4, ExceptSeq
<1> HIDE DEF u
<1> QED BY <1>4, <1>7, <1>8, <1>9

\* PushReturn, where the last point is of its pulse, adds the entry of the return.
LEMMA PushReturnFlat ==
  ASSUME NEW Ids, NEW s \in Seq(LineType(Ids)), s # <<>>, s[Len(s)].points # <<>>,
         NEW r \in ReturnType,
         s[Len(s)].points[Len(s[Len(s)].points)].id = r.pulse
  PROVE  /\ PushReturn(s, r) \in Seq(LineType(Ids))
         /\ OfLines(PushReturn(s, r)) = OfLines(s) \o <<Entry(r)>>
<1> DEFINE n == Len(s)
           a == s[n]
           q == a.points
           m == Len(q)
           c == q[m]
           d == [c EXCEPT !.returns = Append(@, r)]
           e == [at |-> r.at, light |-> c.light, id |-> c.id]
           w == [q EXCEPT ![m] = d]
           b == [a EXCEPT !.points = w]
           u == [s EXCEPT ![n] = b]
<1>1. n \in Nat /\ n # 0 /\ n \in 1..n BY LenProperties, EmptySeq
<1>2. a \in LineType(Ids) /\ q \in Seq(PointType)
  <2>1. s[n] \in LineType(Ids) BY <1>1, ElementOfSeq
  <2> QED BY <2>1 DEF LineType
<1>3. m \in Nat /\ m # 0 /\ m \in 1..m BY <1>2, LenProperties, EmptySeq
<1>4. c \in PointType BY <1>2, <1>3, ElementOfSeq
<1>5. d \in PointType /\ OfPoint(d) = OfPoint(c) \o <<e>>
  <2> HIDE DEF c
  <2> QED BY <1>4, OfPointAppend, Zenon
<1>6. e = Entry(r) BY <1>4 DEF Entry, PointType
<1>7. <<e>> \in Seq(EntryType)
  <2>1. e \in EntryType BY <1>4 DEF EntryType, PointType, ReturnType
  <2> HIDE DEF e
  <2> QED BY <2>1
<1>8. w \in Seq(PointType) /\ OfPoints(w) = OfPoints(q) \o <<e>>
  <2> HIDE DEF d, e, q
  <2>1. OfPoint(d) = OfPoint(q[Len(q)]) \o <<e>> /\ q # <<>> BY <1>5 DEF q
  <2> QED BY <2>1, <1>2, <1>5, <1>7, PointsLast
<1>9. b \in LineType(Ids) /\ b.points = w
  <2> HIDE DEF w
  <2> QED BY <1>2, <1>8 DEF LineType
<1>10. OfLine(b) = OfLine(a) \o <<e>>
  <2>1. OfLine(b) = OfPoints(b.points) /\ OfLine(a) = OfPoints(a.points) BY DEF OfLine, OfPoints
  <2> HIDE DEF w, b, e
  <2> QED BY <2>1, <1>8, <1>9
<1> DEFINE z == <<e>>
<1>13. z \in Seq(EntryType) /\ OfLine(b) = OfLine(s[Len(s)]) \o z BY <1>7, <1>10
<1>11. u \in Seq(LineType(Ids)) /\ OfLines(u) = OfLines(s) \o z
  <2>1. b \in LineType(Ids) BY <1>9
  <2> HIDE DEF b, z
  <2> QED BY <2>1, <1>13, LinesLast
<1>12. PushReturn(s, r) = u BY DEF PushReturn
<1> HIDE DEF u
<1>14. z = <<Entry(r)>> BY <1>6
<1> HIDE DEF z
<1> QED BY <1>11, <1>12, <1>14

-----------------------------------------------------------------------------
(* The frames of the device, and packed returns made scanlines. *)

Patterns == {s.pattern : s \in Shapes} \cup {NoPattern}
FrameType == [id : Nat, packed : BOOLEAN, ids : BOOLEAN, pulses : Seq(Nat), pattern : Patterns]

\* What scanlines there can be: of any pulse, or of none.
LineIds(f) == {ScanlineOf(f, p) : p \in Nat} \cup {Unset}

\* A scanline for a pulse adds no entry.
LEMMA OnLineFlat ==
  ASSUME NEW f, NEW s \in Seq(LineType(LineIds(f))), NEW pulse \in Nat
  PROVE  /\ OnLine(f, s, pulse) \in Seq(LineType(LineIds(f)))
         /\ OnLine(f, s, pulse) # <<>>
         /\ OfLines(OnLine(f, s, pulse)) = OfLines(s)
<1> DEFINE Ids == LineIds(f)
           id == ScanlineOf(f, pulse)
<1>1. id \in Ids BY DEF LineIds
<1>2. CASE s # <<>> /\ s[Len(s)].id = id
  BY <1>2 DEF OnLine
<1>3. CASE ~(s # <<>> /\ s[Len(s)].id = id)
  <2>1. OnLine(f, s, pulse) = PushLine(s, id) BY <1>3 DEF OnLine
  <2> HIDE DEF Ids, id
  <2>2. /\ PushLine(s, id) \in Seq(LineType(Ids)) /\ Len(PushLine(s, id)) = Len(s) + 1
        /\ OfLines(PushLine(s, id)) = OfLines(s)
    <3>1. s \in Seq(LineType(Ids)) BY DEF Ids
    <3> QED BY <3>1, <1>1, PushLineFlat
  <2>3. PushLine(s, id) # <<>>
    <3>1. Len(s) \in Nat BY LenProperties
    <3>2. Len(<<>>) = 0 OBVIOUS
    <3> QED BY <3>1, <3>2, <2>2
  <2> QED BY <2>1, <2>2, <2>3 DEF Ids
<1> QED BY <1>2, <1>3

\* A turn of the loop adds the entry of its return.
LEMMA UnpackReturnFlat ==
  ASSUME NEW f, NEW s \in Seq(LineType(LineIds(f))), NEW r \in ReturnType
  PROVE  /\ UnpackReturn(f, s, r) \in Seq(LineType(LineIds(f)))
         /\ OfLines(UnpackReturn(f, s, r)) = OfLines(s) \o <<Entry(r)>>
<1> DEFINE Ids == LineIds(f)
           l == OnLine(f, s, r.pulse)
           n == Len(l)
           points == l[n].points
           new == [id |-> r.pulse, light |-> Light(r.pulse), returns |-> <<>>]
           p == IF points # <<>> /\ points[Len(points)].id = r.pulse THEN l
                ELSE PushPoint(l, new)
<1>0. r.pulse \in Nat BY DEF ReturnType
<1>1. l \in Seq(LineType(Ids)) /\ l # <<>> /\ OfLines(l) = OfLines(s) BY <1>0, OnLineFlat
<1>2. UnpackReturn(f, s, r) = PushReturn(p, r) BY DEF UnpackReturn
<1> HIDE DEF l
<1>3. p \in Seq(LineType(Ids)) /\ p # <<>> /\ OfLines(p) = OfLines(s)
      /\ p[Len(p)].points # <<>>
      /\ p[Len(p)].points[Len(p[Len(p)].points)].id = r.pulse
  <2>1. CASE points # <<>> /\ points[Len(points)].id = r.pulse
    BY <2>1, <1>1
  <2>2. CASE ~(points # <<>> /\ points[Len(points)].id = r.pulse)
    <3>1. p = PushPoint(l, new) BY <2>2
    <3>2. new \in PointType /\ OfPoint(new) = <<>>
      <4>1. new \in PointType
        <5>1. Light(r.pulse) \in Nat BY <1>0 DEF Light
        <5>2. <<>> \in Seq(ReturnType) BY EmptySeq
        <5> QED BY <5>1, <5>2, <1>0 DEF PointType
      <4>2. DOMAIN new.returns = {} OBVIOUS
      <4>3. OfPoint(new) = [i \in {} |-> [at |-> new.returns[i].at, light |-> new.light, id |-> new.id]]
        BY <4>2 DEF OfPoint
      <4>4. OfPoint(new) = <<>> BY <4>3
      <4> QED BY <4>1, <4>4
    <3>5. new.id = r.pulse OBVIOUS
    <3> DEFINE q == PushPoint(l, new)
    <3> HIDE DEF new
    <3>3. /\ q \in Seq(LineType(Ids)) /\ Len(q) = n
          /\ q[n].points = Append(points, new)
          /\ OfLines(q) = OfLines(l) \o OfPoint(new)
      BY <1>1, <3>2, PushPointFlat
    <3>4. OfLines(q) = OfLines(s)
      <4>1. OfLines(l) \in Seq(EntryType) BY <1>1, OfLinesType
      <4>2. OfLines(l) \o <<>> = OfLines(l) BY <4>1, ConcatEmptySeq
      <4> QED BY <3>2, <3>3, <4>2, <1>1
    <3>6. points \in Seq(PointType)
      <4>1. n \in Nat /\ n # 0 /\ n \in 1..n BY <1>1, LenProperties, EmptySeq
      <4>2. l[n] \in LineType(Ids) BY <4>1, <1>1, ElementOfSeq
      <4> QED BY <4>2 DEF LineType
    <3> HIDE DEF q
    <3>7. /\ q[n].points # <<>>
          /\ q[n].points[Len(q[n].points)].id = r.pulse
      <4> HIDE DEF points
      <4>1. /\ Append(points, new) # <<>> /\ Len(Append(points, new)) = Len(points) + 1
            /\ Append(points, new)[Len(points) + 1] = new
        <5>1. Append(points, new) \in Seq(PointType) /\ Len(Append(points, new)) = Len(points) + 1
              /\ Append(points, new)[Len(points) + 1] = new
          BY <3>2, <3>6, AppendProperties
        <5>2. Len(points) \in Nat BY <3>6, LenProperties
        <5>3. Len(<<>>) = 0 OBVIOUS
        <5> QED BY <5>1, <5>2, <5>3
      <4> QED BY <3>3, <3>5, <4>1
    <3>8. q # <<>>
      <4>1. n \in Nat /\ n # 0 BY <1>1, LenProperties, EmptySeq
      <4>2. Len(<<>>) = 0 OBVIOUS
      <4> QED BY <3>3, <4>1, <4>2
    <3>9. p = q BY <3>1 DEF q, new
    <3> HIDE DEF p
    <3> QED BY <3>3, <3>4, <3>7, <3>8, <3>9
  <2> QED BY <2>1, <2>2
<1> HIDE DEF p, Ids
<1>4. /\ PushReturn(p, r) \in Seq(LineType(Ids))
      /\ OfLines(PushReturn(p, r)) = OfLines(p) \o <<Entry(r)>>
  BY <1>3, PushReturnFlat
<1> QED BY <1>2, <1>3, <1>4 DEF Ids

\* What there is to know of a scanned return.
LEMMA ScanType ==
  ASSUME NEW f \in FrameType
  PROVE  /\ Scan(f) \in Seq(ReturnType) /\ Len(Scan(f)) = Returns(f) /\ Returns(f) \in Nat
         /\ \A i \in 1..Returns(f) : Scan(f)[i].at = <<f.id, i>> /\ Scan(f)[i] \in ReturnType
         /\ \A p \in 1..Len(f.pulses) :
              /\ Before(f, p) <= Returns(f)
              /\ \A i \in Before(f, p - 1) + 1 .. Before(f, p) :
                   i \in 1..Returns(f) /\ Scan(f)[i].pulse = p - 1
<1> DEFINE P == PulsesOfReturns(f)
           N == Len(f.pulses)
           t == [i \in 1..Len(P) |-> [pulse |-> P[i], at |-> <<f.id, i>>]]
<1>1. f.pulses \in Seq(Nat) /\ f.id \in Nat BY DEF FrameType
<1>2. /\ P \in Seq(0..N - 1) /\ Len(P) = Returns(f)
      /\ \A p \in 1..N :
           /\ Before(f, p) <= Returns(f)
           /\ \A i \in Before(f, p - 1) + 1 .. Before(f, p) : P[i] = p - 1
  BY <1>1, ScanOfPulses
<1>3. \A k \in 0..N : Before(f, k) \in Nat BY <1>1, BeforeStep
<1>4. N \in Nat BY <1>1
<1>5. Len(P) \in Nat /\ DOMAIN P = 1..Len(P) /\ \A i \in 1..Len(P) : P[i] \in Nat
  <2> HIDE DEF P, N
  <2>1. \A x \in 0..N - 1 : x \in Nat BY <1>4
  <2>2. Len(P) \in Nat /\ DOMAIN P = 1..Len(P) /\ \A i \in 1..Len(P) : P[i] \in 0..N - 1
    BY <1>2, LenProperties, ElementOfSeq
  <2> QED BY <2>1, <2>2
<1>6. Scan(f) = t BY <1>5 DEF Scan
<1> HIDE DEF P
<1>7. \A i \in 1..Len(P) : [pulse |-> P[i], at |-> <<f.id, i>>] \in ReturnType
  BY <1>1, <1>5 DEF ReturnType
<1>8. t \in [1..Len(P) -> ReturnType] BY <1>7
<1>9. /\ t \in Seq(ReturnType) /\ Len(t) = Len(P)
      /\ \A i \in 1..Len(P) : t[i].pulse = P[i] /\ t[i].at = <<f.id, i>> /\ t[i] \in ReturnType
  <2>1. \A i \in 1..Len(P) : t[i].pulse = P[i] /\ t[i].at = <<f.id, i>> OBVIOUS
  <2> HIDE DEF t
  <2>2. t \in Seq(ReturnType) BY <1>5, <1>8
  <2>3. Len(t) = Len(P) BY <1>5, <1>8
  <2> QED BY <1>8, <2>1, <2>2, <2>3
<1> HIDE DEF t
<1>10. ASSUME NEW p \in 1..N, NEW i \in Before(f, p - 1) + 1 .. Before(f, p)
       PROVE  i \in 1..Returns(f) /\ t[i].pulse = p - 1
  <2>1. p \in 0..N /\ p - 1 \in 0..N BY <1>4
  <2>2. Before(f, p - 1) \in Nat /\ Before(f, p) \in Nat BY <2>1, <1>3
  <2>3. i \in 1..Returns(f)
    <3>1. Returns(f) \in Nat /\ Before(f, p) <= Returns(f) BY <1>2, <1>5
    <3> QED BY <2>2, <3>1
  <2> QED BY <2>3, <1>2, <1>9
<1> QED BY <1>2, <1>5, <1>6, <1>9, <1>10

Unpacking(f, s) ==
  [k \in 1..Len(s) |-> [v \in Seq(LineType(LineIds(f))) |-> UnpackReturn(f, v, s[k])]]

UnpacksTo(h, f, s) ==
  /\ h \in [0..Len(s) -> Seq(LineType(LineIds(f)))]
  /\ IsChain(h, Len(s), <<>>, Unpacking(f, s))
  /\ FoldLeft(LAMBDA lines, r : UnpackReturn(f, lines, r), <<>>, s) = h[Len(s)]

\* The loop over packed returns goes through the scanlines of its turns.
LEMMA UnpackChain ==
  ASSUME NEW f, NEW s \in Seq(ReturnType)
  PROVE  \E h : UnpacksTo(h, f, s)
<1> DEFINE n == Len(s)
           V == Seq(LineType(LineIds(f)))
           z == <<>>
           G == Unpacking(f, s)
           E(x) == x = [t \in SUBSET (DOMAIN s) |->
                          IF t = {} THEN z ELSE UnpackReturn(f, x[t \ {Max(t)}], s[Max(t)])]
           c == CHOOSE x : E(x)
<1>0. n \in Nat /\ DOMAIN s = 1..n /\ \A k \in 1..n : s[k] \in ReturnType
  OBVIOUS
<1>z. z \in V BY EmptySeq
<1>1. FoldLeft(LAMBDA lines, r : UnpackReturn(f, lines, r), <<>>, s) = c[DOMAIN s]
  BY DEF FoldLeft, MapThenFoldSet
<1>3. \A k \in 1..n : G[k] = [v \in V |-> UnpackReturn(f, v, s[k])] BY DEF Unpacking
<1>8. DOMAIN G = 1..n /\ G = [k \in 1..n |-> G[k]] BY DEF Unpacking
<1>5. \A k \in 1..n : \A v \in V : UnpackReturn(f, v, s[k]) \in V
  BY <1>0, UnpackReturnFlat
<1> HIDE DEF G, V, z
<1>4. \A k \in 1..n : G[k] \in [V -> V] /\ \A v \in V : G[k][v] = UnpackReturn(f, v, s[k])
  BY <1>3, <1>5
<1>2. G \in [1..n -> [V -> V]] BY <1>4, <1>8
<1>6. PICK it \in [SUBSET (1..n) -> V] : IsTable(it, n, z, G)
  BY <1>0, <1>2, <1>z, TableExists DEF HasTable
<1>7. E(it)
  <2>1. ASSUME NEW t \in SUBSET (1..n)
        PROVE  it[t] = IF t = {} THEN z ELSE UnpackReturn(f, it[t \ {Max(t)}], s[Max(t)])
    <3>1. CASE t = {} BY <3>1, <1>6 DEF IsTable
    <3>2. CASE t # {}
      <4>1. Max(t) \in 1..n BY <3>2, <1>0, MaxInSet
      <4>2. t \ {Max(t)} \in SUBSET (1..n) OBVIOUS
      <4>3. it[t] = G[Max(t)][it[t \ {Max(t)}]] BY <3>2, <1>6 DEF IsTable
      <4>4. it[t \ {Max(t)}] \in V BY <4>2
      <4> QED BY <3>2, <4>1, <4>3, <4>4, <1>4
    <3> QED BY <3>1, <3>2
  <2> QED BY <2>1, <1>0
<1>9. E(c) BY <1>7
<1> HIDE DEF c
<1>10. FoldsFirst(c, n, V, z, G)
  <2>1. c[{}] = z BY <1>9, <1>0
  <2>2. ASSUME NEW k \in 1..n, c[1..k-1] \in V PROVE c[1..k] = G[k][c[1..k-1]]
    <3>1. k \in Nat /\ k # 0 /\ 1..k \in SUBSET (1..n) /\ k \in 1..k
      <4>1. \A x \in 1..k : x \in 1..n BY <1>0
      <4> QED BY <4>1
    <3>2. Max(1..k) = k /\ (1..k) \ {k} = 1..k-1 BY <3>1, MaxOfFirst
    <3>3. c[1..k] = UnpackReturn(f, c[(1..k) \ {Max(1..k)}], s[Max(1..k)]) BY <1>9, <3>1, <1>0
    <3> QED BY <3>2, <3>3, <2>2, <1>4
  <2> QED BY <2>1, <2>2 DEF FoldsFirst
<1>11. PICK h \in [0..n -> V] : IsChain(h, n, z, G) /\ h[n] = c[1..n]
  <2>1. IsFold(c, n, V, z, G) BY <1>0, <1>z, <1>2, <1>10 DEF IsFold
  <2>2. HasChain(c, n, V, z, G) BY <2>1, IntervalChain, Zenon
  <2> QED BY <2>2, Zenon DEF HasChain
<1>12. FoldLeft(LAMBDA lines, r : UnpackReturn(f, lines, r), <<>>, s) = h[n]
  BY <1>0, <1>1, <1>11, Zenon
<1> QED BY <1>11, <1>12, Zenon DEF UnpacksTo, G, V, z

\* Where the parts of a concatenation are.
LEMMA ConcatParts ==
  ASSUME NEW V, NEW a \in Seq(V), NEW b \in Seq(V)
  PROVE  /\ a \o b \in Seq(V) /\ Len(a \o b) = Len(a) + Len(b)
         /\ \A i \in 1..Len(a) : (a \o b)[i] = a[i]
         /\ \A i \in 1..Len(b) : (a \o b)[Len(a) + i] = b[i]
<1>1. Len(a) \in Nat /\ Len(b) \in Nat BY LenProperties
<1>2. /\ a \o b \in Seq(V) /\ Len(a \o b) = Len(a) + Len(b)
      /\ \A i \in 1..Len(a) + Len(b) :
           (a \o b)[i] = IF i <= Len(a) THEN a[i] ELSE b[i - Len(a)]
  BY ConcatProperties
<1>3. ASSUME NEW i \in 1..Len(b) PROVE (a \o b)[Len(a) + i] = b[i]
  <2> DEFINE j == Len(a) + i
  <2>1. j \in 1..Len(a) + Len(b) /\ ~(j <= Len(a)) /\ j - Len(a) = i BY <1>1
  <2> HIDE DEF j
  <2>2. (a \o b)[j] = b[i] BY <1>2, <2>1
  <2> QED BY <2>2 DEF j
<1>4. ASSUME NEW i \in 1..Len(a) PROVE (a \o b)[i] = a[i]
  <2>1. i \in 1..Len(a) + Len(b) /\ i <= Len(a) BY <1>1
  <2> QED BY <1>2, <2>1
<1> QED BY <1>2, <1>3, <1>4

\* Entries of a frame: one for each return, in order.
IsScan(e, f) ==
  /\ e \in Seq(EntryType) /\ Len(e) = Returns(f)
  /\ \A i \in 1..Returns(f) : e[i] = Entry(Scan(f)[i])

\* The entry of a return is an entry.
LEMMA EntryIsTyped == ASSUME NEW r \in ReturnType PROVE Entry(r) \in EntryType
BY DEF Entry, EntryType, ReturnType, Light

\* Packed returns with point ids, unpacked, are the scan.
LEMMA UnpackIsScan ==
  ASSUME NEW f \in FrameType
  PROVE  IsScan(OfLines(UnpackAll(f)), f)
<1> DEFINE s == Scan(f)
           n == Len(s)
           V == Seq(LineType(LineIds(f)))
<1>1. s \in Seq(ReturnType) /\ n = Returns(f) /\ n \in Nat /\ \A i \in 1..n : s[i] \in ReturnType
  BY ScanType
<1>2. UnpackAll(f) = FoldLeft(LAMBDA lines, r : UnpackReturn(f, lines, r), <<>>, s)
  BY Zenon DEF UnpackAll
<1> HIDE DEF s, V
<1>10. PICK h : UnpacksTo(h, f, s) BY <1>1, UnpackChain
<1>3. /\ h \in [0..n -> V] /\ IsChain(h, n, <<>>, Unpacking(f, s))
      /\ FoldLeft(LAMBDA lines, r : UnpackReturn(f, lines, r), <<>>, s) = h[n]
  BY <1>10, Zenon DEF UnpacksTo, V
<1>4. UnpackAll(f) = h[n] BY <1>2, <1>3, Zenon
<1>5. ASSUME NEW k \in 1..n PROVE h[k] = UnpackReturn(f, h[k - 1], s[k])
  <2>1. k - 1 \in 0..n BY <1>1
  <2>2. h[k - 1] \in V BY <2>1, <1>3
  <2>3. h[k] = Unpacking(f, s)[k][h[k - 1]] BY <1>3 DEF IsChain
  <2>4. Unpacking(f, s)[k] = [v \in V |-> UnpackReturn(f, v, s[k])] BY DEF Unpacking, V
  <2> QED BY <2>2, <2>3, <2>4
<1> DEFINE Good(k) == /\ OfLines(h[k]) \in Seq(EntryType) /\ Len(OfLines(h[k])) = k
                      /\ \A i \in 1..k : OfLines(h[k])[i] = Entry(s[i])
           S == {k \in Nat : k <= n => Good(k)}
<1>6. 0 \in S
  <2>1. h[0] = <<>> BY <1>3 DEF IsChain
  <2>2. [k \in DOMAIN <<>> |-> OfLine(<<>>[k])] = <<>> OBVIOUS
  <2>3. OfLines(<<>>) = FlattenSeq(<<>>) BY <2>2 DEF OfLines
  <2>4. OfLines(h[0]) = <<>> BY <2>1, <2>3, FlattenEmpty
  <2>5. <<>> \in Seq(EntryType) /\ Len(<<>>) = 0 /\ \A i \in 1..0 : FALSE OBVIOUS
  <2>6. Good(0) BY <2>4, <2>5
  <2> HIDE DEF Good
  <2> QED BY <2>6
<1>7. ASSUME NEW k \in Nat, k \in S PROVE k + 1 \in S
  <2> SUFFICES ASSUME k + 1 <= n PROVE Good(k + 1)
    OBVIOUS
  <2> DEFINE m == k + 1
  <2>1. m \in 1..n /\ m - 1 = k /\ k \in 0..n /\ m = k + 1 /\ k <= n BY <1>1
  <2>2. Good(k) BY <1>7, <2>1
  <2> HIDE DEF m, S
  <2>3. h[m] = UnpackReturn(f, h[k], s[m]) BY <1>5, <2>1
  <2>4. h[k] \in V /\ s[m] \in ReturnType BY <1>1, <1>3, <2>1
  <2>5. OfLines(h[m]) = OfLines(h[k]) \o <<Entry(s[m])>> BY <2>3, <2>4, UnpackReturnFlat DEF V
  <2> DEFINE a == OfLines(h[k])
             e == Entry(s[m])
             b == <<e>>
  <2>6. e \in EntryType BY <2>4, EntryIsTyped
  <2>7. a \in Seq(EntryType) /\ Len(a) = k /\ \A i \in 1..k : a[i] = Entry(s[i]) BY <2>2
  <2>8. b \in Seq(EntryType) /\ Len(b) = 1 /\ b[1] = e
    <3> HIDE DEF e
    <3> QED BY <2>6
  <2>9. OfLines(h[m]) = a \o b BY <2>5
  <2> HIDE DEF a, b
  <2>10. a \o b \in Seq(EntryType) /\ Len(a \o b) = Len(a) + Len(b)
         /\ (\A i \in 1..Len(a) : (a \o b)[i] = a[i])
         /\ (\A i \in 1..Len(b) : (a \o b)[Len(a) + i] = b[i])
    <3>1. a \in Seq(EntryType) /\ b \in Seq(EntryType) BY <2>7, <2>8
    <3> QED BY <3>1, ConcatParts
  <2>11. (a \o b)[m] = e
    <3>1. 1 \in 1..1 OBVIOUS
    <3>2. (a \o b)[Len(a) + 1] = b[1] BY <2>8, <2>10, <3>1
    <3> QED BY <2>1, <2>7, <2>8, <3>2
  <2>12. ASSUME NEW i \in 1..m PROVE (a \o b)[i] = Entry(s[i])
    <3>1. i = m \/ i \in 1..k BY <2>1
    <3> QED BY <3>1, <2>7, <2>10, <2>11
  <2>13. Len(a \o b) = m BY <2>1, <2>7, <2>8, <2>10
  <2>14. Good(m) BY <2>9, <2>10, <2>12, <2>13
  <2> QED BY <2>14 DEF m
<1> HIDE DEF S, Good
<1>8. Nat \subseteq S BY <1>6, <1>7, NatInd
<1>9. Good(n) BY <1>1, <1>8 DEF S
<1> QED BY <1>1, <1>4, <1>9 DEF IsScan, Good, s

PulseAdds(f, s, p) ==
  \E w \in Seq(EntryType) :
    /\ OfLines(PushPulse(f, s, p - 1)) = OfLines(s) \o w /\ Len(w) = f.pulses[p]
    /\ \A i \in 1..Len(w) : w[i] = Entry(Scan(f)[Before(f, p - 1) + i])

\* A pulse of a device that does not pack adds the entries of its returns.
LEMMA PushPulseFlat ==
  ASSUME NEW f \in FrameType, NEW s \in Seq(LineType(LineIds(f))),
         NEW p \in 1..Len(f.pulses)
  PROVE  /\ PushPulse(f, s, p - 1) \in Seq(LineType(LineIds(f)))
         /\ PulseAdds(f, s, p)
<1> DEFINE Ids == LineIds(f)
           pulse == p - 1
           l == OnLine(f, s, pulse)
           x == Before(f, p - 1)
           y == Before(f, p)
           c == SubSeq(Scan(f), x + 1, y)
           new == [id |-> pulse, light |-> Light(pulse), returns |-> c]
           w == OfPoint(new)
<1>1. f.pulses \in Seq(Nat) BY DEF FrameType
<1>2. Len(f.pulses) \in Nat /\ pulse \in Nat /\ pulse \in 0..Len(f.pulses) /\ p \in 0..Len(f.pulses)
      /\ pulse + 1 = p /\ f.pulses[p] \in Nat
  BY <1>1
<1>3. l \in Seq(LineType(Ids)) /\ l # <<>> /\ OfLines(l) = OfLines(s) BY <1>2, OnLineFlat
<1>4. x \in Nat /\ y \in Nat /\ y = x + f.pulses[p] /\ y <= Returns(f)
  <2>1. x \in Nat /\ y \in Nat /\ y = x + f.pulses[p] BY <1>1, <1>2, BeforeStep
  <2>2. y <= Returns(f) BY ScanType
  <2> QED BY <2>1, <2>2
<1>5. \A i \in x + 1 .. y : Scan(f)[i].pulse = pulse /\ Scan(f)[i] \in ReturnType BY ScanType
<1>6. PushPulse(f, s, pulse) = PushPoint(l, new) BY <1>2 DEF PushPulse
<1>7. c \in Seq(ReturnType) /\ Len(c) = f.pulses[p]
      /\ \A i \in 1..f.pulses[p] : c[i] = Scan(f)[x + i]
  <2> DEFINE r == Scan(f)
             d == x + 1
  <2> HIDE DEF x, y, r
  <2>0. d \in Int /\ y \in Int BY <1>4
  <2>1. \A i \in d..y : r[i] \in ReturnType BY <1>5 DEF r
  <2> HIDE DEF d
  <2>2. /\ SubSeq(r, d, y) \in Seq(ReturnType)
        /\ Len(SubSeq(r, d, y)) = IF d <= y THEN y - d + 1 ELSE 0
        /\ \A i \in 1 .. y - d + 1 : SubSeq(r, d, y)[i] = r[d + i - 1]
    BY <2>0, <2>1, SubSeqProperties
  <2>3. y - d + 1 = f.pulses[p] /\ (~(d <= y) => f.pulses[p] = 0)
        /\ \A i \in 1..f.pulses[p] : d + i - 1 = x + i
    BY <1>2, <1>4 DEF d
  <2> QED BY <2>2, <2>3 DEF r, d
<1>8. ASSUME NEW i \in 1..f.pulses[p] PROVE c[i].pulse = pulse /\ c[i] = Scan(f)[x + i]
  <2>1. x + i \in x + 1 .. y BY <1>2, <1>4
  <2> QED BY <2>1, <1>5, <1>7
<1> HIDE DEF c, l
<1>9. Light(pulse) \in Nat BY <1>2 DEF Light
<1>10. new \in PointType BY <1>2, <1>7, <1>9 DEF PointType
<1>11. w \in Seq(EntryType) /\ Len(w) = f.pulses[p]
       /\ \A i \in 1..f.pulses[p] : w[i] = Entry(Scan(f)[x + i])
  <2>1. DOMAIN c = 1..f.pulses[p] BY <1>7, LenProperties
  <2>2. w = [i \in 1..f.pulses[p] |-> [at |-> c[i].at, light |-> Light(pulse), id |-> pulse]]
    BY <2>1 DEF OfPoint
  <2>3. w \in Seq(EntryType) BY <1>10, OfPointType
  <2>4. \A i \in 1..f.pulses[p] :
          [at |-> c[i].at, light |-> Light(pulse), id |-> pulse] = Entry(Scan(f)[x + i])
    BY <1>8 DEF Entry
  <2> HIDE DEF w
  <2>5. Len(w) = f.pulses[p] BY <2>2, <2>3, <1>2
  <2> QED BY <2>2, <2>3, <2>4, <2>5
<1> HIDE DEF new, pulse
<1>12. /\ PushPoint(l, new) \in Seq(LineType(Ids))
       /\ OfLines(PushPoint(l, new)) = OfLines(l) \o w
  BY <1>3, <1>10, PushPointFlat
<1> HIDE DEF w
<1> QED BY <1>3, <1>6, <1>11, <1>12 DEF pulse, PulseAdds

Pushing(f) ==
  [k \in 1..Len(f.pulses) |-> [v \in Seq(LineType(LineIds(f))) |-> PushPulse(f, v, k - 1)]]

PushesTo(h, f) ==
  /\ h \in [0..Len(f.pulses) -> Seq(LineType(LineIds(f)))]
  /\ IsChain(h, Len(f.pulses), <<>>, Pushing(f))
  /\ DeviceLines(f) = h[Len(f.pulses)]

\* A device that does not pack adds one pulse after the other.
LEMMA PushChain ==
  ASSUME NEW f \in FrameType
  PROVE  \E h : PushesTo(h, f)
<1> DEFINE s == [p \in DOMAIN f.pulses |-> p - 1]
           n == Len(f.pulses)
           V == Seq(LineType(LineIds(f)))
           z == <<>>
           G == Pushing(f)
           E(x) == x = [t \in SUBSET (DOMAIN s) |->
                          IF t = {} THEN z ELSE PushPulse(f, x[t \ {Max(t)}], s[Max(t)])]
           c == CHOOSE x : E(x)
<1>0. n \in Nat /\ DOMAIN s = 1..n /\ \A k \in 1..n : s[k] = k - 1
  <2>1. f.pulses \in Seq(Nat) BY DEF FrameType
  <2> QED BY <2>1
<1>z. z \in V BY EmptySeq
<1>1. DeviceLines(f) = c[DOMAIN s]
  BY DEF DeviceLines, FoldLeft, MapThenFoldSet
<1>3. \A k \in 1..n : G[k] = [v \in V |-> PushPulse(f, v, k - 1)] BY DEF Pushing
<1>8. DOMAIN G = 1..n /\ G = [k \in 1..n |-> G[k]] BY DEF Pushing
<1>5. \A k \in 1..n : \A v \in V : PushPulse(f, v, k - 1) \in V BY PushPulseFlat
<1> HIDE DEF G, V, z, s
<1>4. \A k \in 1..n : G[k] \in [V -> V] /\ \A v \in V : G[k][v] = PushPulse(f, v, k - 1)
  BY <1>3, <1>5
<1>2. G \in [1..n -> [V -> V]] BY <1>4, <1>8
<1>6. PICK it \in [SUBSET (1..n) -> V] : IsTable(it, n, z, G)
  BY <1>0, <1>2, <1>z, TableExists DEF HasTable
<1>7. E(it)
  <2>1. ASSUME NEW t \in SUBSET (1..n)
        PROVE  it[t] = IF t = {} THEN z ELSE PushPulse(f, it[t \ {Max(t)}], s[Max(t)])
    <3>1. CASE t = {} BY <3>1, <1>6 DEF IsTable
    <3>2. CASE t # {}
      <4>1. Max(t) \in 1..n BY <3>2, <1>0, MaxInSet
      <4>2. t \ {Max(t)} \in SUBSET (1..n) OBVIOUS
      <4>3. it[t] = G[Max(t)][it[t \ {Max(t)}]] BY <3>2, <1>6 DEF IsTable
      <4>4. it[t \ {Max(t)}] \in V BY <4>2
      <4>5. s[Max(t)] = Max(t) - 1 BY <4>1, <1>0
      <4> QED BY <3>2, <4>1, <4>3, <4>4, <4>5, <1>4
    <3> QED BY <3>1, <3>2
  <2> QED BY <2>1, <1>0
<1>9. E(c) BY <1>7
<1> HIDE DEF c
<1>10. FoldsFirst(c, n, V, z, G)
  <2>1. c[{}] = z BY <1>9, <1>0
  <2>2. ASSUME NEW k \in 1..n, c[1..k-1] \in V PROVE c[1..k] = G[k][c[1..k-1]]
    <3>1. k \in Nat /\ k # 0 /\ 1..k \in SUBSET (1..n) /\ k \in 1..k
      <4>1. \A x \in 1..k : x \in 1..n BY <1>0
      <4> QED BY <4>1
    <3>2. Max(1..k) = k /\ (1..k) \ {k} = 1..k-1 BY <3>1, MaxOfFirst
    <3>3. c[1..k] = PushPulse(f, c[(1..k) \ {Max(1..k)}], s[Max(1..k)]) BY <1>9, <3>1, <1>0
    <3>4. s[k] = k - 1 BY <1>0
    <3> QED BY <3>2, <3>3, <3>4, <2>2, <1>4
  <2> QED BY <2>1, <2>2 DEF FoldsFirst
<1>11. PICK h \in [0..n -> V] : IsChain(h, n, z, G) /\ h[n] = c[1..n]
  <2>1. IsFold(c, n, V, z, G) BY <1>0, <1>z, <1>2, <1>10 DEF IsFold
  <2>2. HasChain(c, n, V, z, G) BY <2>1, IntervalChain, Zenon
  <2> QED BY <2>2, Zenon DEF HasChain
<1>12. DeviceLines(f) = h[n] BY <1>0, <1>1, <1>11, Zenon
<1> QED BY <1>11, <1>12, Zenon DEF PushesTo, G, V, z

\* What a device sends that does not pack is the scan.
LEMMA DeviceIsScan ==
  ASSUME NEW f \in FrameType
  PROVE  IsScan(OfLines(DeviceLines(f)), f)
<1> DEFINE s == Scan(f)
           n == Len(f.pulses)
           V == Seq(LineType(LineIds(f)))
<1>0. f.pulses \in Seq(Nat) /\ n \in Nat
  <2>1. f.pulses \in Seq(Nat) BY DEF FrameType
  <2> QED BY <2>1
<1>1. /\ \A k \in 0..n : Before(f, k) \in Nat
      /\ Before(f, 0) = 0
      /\ \A k \in 1..n : Before(f, k) = Before(f, k - 1) + f.pulses[k]
  BY <1>0, BeforeStep
<1>2. PICK h : PushesTo(h, f) BY PushChain
<1>3. h \in [0..n -> V] /\ IsChain(h, n, <<>>, Pushing(f)) /\ DeviceLines(f) = h[n]
  BY <1>2 DEF PushesTo
<1>5. ASSUME NEW k \in 1..n PROVE h[k] = PushPulse(f, h[k - 1], k - 1) /\ h[k - 1] \in V
  <2>1. k - 1 \in 0..n BY <1>0
  <2>2. h[k - 1] \in V BY <2>1, <1>3
  <2> HIDE DEF V
  <2>3. h[k] = Pushing(f)[k][h[k - 1]] BY <1>3 DEF IsChain
  <2>4. Pushing(f)[k] = [v \in V |-> PushPulse(f, v, k - 1)] BY DEF Pushing, V
  <2> QED BY <2>2, <2>3, <2>4
<1> DEFINE Good(k) == /\ OfLines(h[k]) \in Seq(EntryType) /\ Len(OfLines(h[k])) = Before(f, k)
                      /\ \A i \in 1..Before(f, k) : OfLines(h[k])[i] = Entry(s[i])
           S == {k \in Nat : k <= n => Good(k)}
<1>6. 0 \in S
  <2>1. h[0] = <<>> BY <1>3 DEF IsChain
  <2>2. [k \in DOMAIN <<>> |-> OfLine(<<>>[k])] = <<>> OBVIOUS
  <2>3. OfLines(<<>>) = FlattenSeq(<<>>) BY <2>2 DEF OfLines
  <2>4. OfLines(h[0]) = <<>> BY <2>1, <2>3, FlattenEmpty
  <2>5. <<>> \in Seq(EntryType) /\ Len(<<>>) = 0 /\ \A i \in 1..0 : FALSE OBVIOUS
  <2>6. Good(0) BY <2>4, <2>5, <1>1
  <2> HIDE DEF Good
  <2> QED BY <2>6
<1>7. ASSUME NEW k \in Nat, k \in S PROVE k + 1 \in S
  <2> SUFFICES ASSUME k + 1 <= n PROVE Good(k + 1)
    OBVIOUS
  <2> DEFINE m == k + 1
  <2>1. m \in 1..n /\ m - 1 = k /\ k \in 0..n /\ m \in 0..n /\ k <= n BY <1>0
  <2>2. Good(k) BY <1>7, <2>1
  <2> HIDE DEF m, S, V
  <2>3. h[m] = PushPulse(f, h[k], m - 1) /\ h[k] \in V BY <1>5, <2>1
  <2>4. PICK w \in Seq(EntryType) :
          /\ OfLines(h[m]) = OfLines(h[k]) \o w /\ Len(w) = f.pulses[m]
          /\ \A i \in 1..Len(w) : w[i] = Entry(Scan(f)[Before(f, m - 1) + i])
    <3>1. h[k] \in Seq(LineType(LineIds(f))) BY <2>3 DEF V
    <3> DEFINE v == h[k]
    <3> HIDE DEF v
    <3>2. PulseAdds(f, v, m) BY <3>1, <2>1, PushPulseFlat DEF v
    <3>3. PushPulse(f, v, m - 1) = h[m] BY <2>3 DEF v
    <3> QED BY <3>2, <3>3, Zenon DEF PulseAdds, v
  <2> DEFINE a == OfLines(h[k])
             x == Before(f, k)
  <2>5. Before(f, m) = x + Len(w) /\ x \in Nat /\ Len(w) \in Nat
    <3>1. Before(f, m) = Before(f, m - 1) + f.pulses[m] BY <1>1, <2>1
    <3>2. Before(f, k) \in Nat BY <1>1, <2>1
    <3>3. Len(w) \in Nat BY <2>4, LenProperties
    <3> QED BY <3>1, <3>2, <3>3, <2>1, <2>4
  <2>6. a \in Seq(EntryType) /\ Len(a) = x /\ \A i \in 1..x : a[i] = Entry(s[i]) BY <2>2
  <2>7. \A i \in 1..Len(w) : w[i] = Entry(s[x + i]) BY <2>1, <2>4
  <2>8. OfLines(h[m]) = a \o w BY <2>4
  <2> HIDE DEF a, x, Good, s
  <2>9. a \o w \in Seq(EntryType) /\ Len(a \o w) = Len(a) + Len(w)
        /\ (\A i \in 1..Len(a) : (a \o w)[i] = a[i])
        /\ (\A i \in 1..Len(w) : (a \o w)[Len(a) + i] = w[i])
    <3>1. a \in Seq(EntryType) BY <2>6
    <3> QED BY <3>1, ConcatParts
  <2>10. ASSUME NEW i \in 1..x + Len(w) PROVE (a \o w)[i] = Entry(s[i])
    <3>1. CASE i \in 1..x BY <3>1, <2>6, <2>9
    <3>2. CASE i \notin 1..x
      <4> DEFINE j == i - x
      <4>1. j \in 1..Len(w) /\ x + j = i BY <3>2, <2>5
      <4> HIDE DEF j
      <4>2. (a \o w)[x + j] = w[j] BY <4>1, <2>6, <2>9
      <4>3. w[j] = Entry(s[x + j]) BY <4>1, <2>7
      <4> QED BY <4>1, <4>2, <4>3
    <3> QED BY <3>1, <3>2
  <2>11. Good(m) BY <2>5, <2>6, <2>8, <2>9, <2>10 DEF Good
  <2> QED BY <2>11 DEF m
<1> HIDE DEF S, Good
<1>8. Nat \subseteq S BY <1>6, <1>7, NatInd
<1>9. Good(n) BY <1>0, <1>8 DEF S
<1>10. Before(f, n) = Returns(f) BY DEF Returns
<1> QED BY <1>3, <1>9, <1>10 DEF IsScan, Good

-----------------------------------------------------------------------------
(* The conversions are right. *)

\* Whatever the format, the node's loops make of a converted frame its returns.
THEOREM ConvertIsFrame ==
  ASSUME NEW f \in FrameType
  PROVE  /\ Flat(Convert(f)) \in Seq(EntryType) /\ Len(Flat(Convert(f))) = Returns(f)
         /\ Convert(f).id = f.id /\ Convert(f).total = Returns(f)
         /\ IsFrame(Flat(Convert(f)), f)
<1>0. /\ Scan(f) \in Seq(ReturnType) /\ Len(Scan(f)) = Returns(f) /\ Returns(f) \in Nat
      /\ \A i \in 1..Returns(f) : Scan(f)[i].at = <<f.id, i>> /\ Scan(f)[i] \in ReturnType
  BY ScanType
<1>1. Convert(f).id = f.id /\ Convert(f).total = Returns(f) BY DEF Convert
<1>2. ASSUME NEW e, IsScan(e, f), ~f.packed \/ f.ids
      PROVE  e \in Seq(EntryType) /\ Len(e) = Returns(f) /\ IsFrame(e, f)
  <2>1. e \in Seq(EntryType) /\ Len(e) = Returns(f) /\ DOMAIN e = 1..Returns(f)
        /\ \A i \in 1..Returns(f) : e[i] = Entry(Scan(f)[i])
    BY <1>2 DEF IsScan
  <2>2. \A i \in 1..Returns(f) : /\ e[i].at = Scan(f)[i].at /\ e[i].id = Scan(f)[i].pulse
                                /\ e[i].light = Light(Scan(f)[i].pulse)
    BY <2>1 DEF Entry
  <2> QED BY <1>0, <1>2, <2>1, <2>2 DEF IsFrame
<1>3. CASE ~f.packed
  <2>1. Flat(Convert(f)) = OfLines(DeviceLines(f)) BY <1>3 DEF Flat, Convert
  <2> QED BY <1>1, <1>2, <1>3, <2>1, DeviceIsScan
<1>4. CASE f.packed /\ f.ids
  <2>1. Flat(Convert(f)) = OfLines(UnpackAll(f)) BY <1>4 DEF Flat, Convert
  <2> QED BY <1>1, <1>2, <1>4, <2>1, UnpackIsScan
<1>5. CASE f.packed /\ ~f.ids
  <2> DEFINE p == [id |-> Unset, light |-> Unset, returns |-> Scan(f)]
             l == [id |-> Unset, points |-> <<p>>]
             e == OfPoint(p)
  <2>1. Flat(Convert(f)) = OfLines(<<l>>) BY <1>5 DEF Flat, Convert
  <2>2. e = [i \in 1..Returns(f) |-> [at |-> Scan(f)[i].at, light |-> Unset, id |-> Unset]]
    BY <1>0 DEF OfPoint
  <2>3. e \in Seq(EntryType) /\ Len(e) = Returns(f) /\ DOMAIN e = 1..Returns(f)
    <3>1. \A i \in 1..Returns(f) : Scan(f)[i].at \in Nat \X Nat BY <1>0 DEF ReturnType
    <3>2. e \in [1..Returns(f) -> EntryType] BY <2>2, <3>1 DEF EntryType, Unset
    <3> HIDE DEF e
    <3> QED BY <1>0, <3>2
  <2>4. ASSUME NEW x \in Seq(EntryType) PROVE FlattenSeq(<<x>>) = x
    <3>1. FlattenSeq(Append(<<>>, x)) = FlattenSeq(<<>>) \o x
      <4>1. <<>> \in Seq(Seq(EntryType)) BY EmptySeq
      <4> QED BY <4>1, FlattenAppend
    <3>2. Append(<<>>, x) = <<x>> OBVIOUS
    <3>3. <<>> \o x = x BY <2>4, ConcatEmptySeq
    <3> QED BY <3>1, <3>2, <3>3, FlattenEmpty
  <2>5. OfLine(l) = e
    <3> HIDE DEF p
    <3>1. l.points = <<p>> OBVIOUS
    <3>2. [k \in DOMAIN <<p>> |-> OfPoint(<<p>>[k])] = <<OfPoint(p)>> OBVIOUS
    <3>3. OfLine(l) = FlattenSeq(<<e>>) BY <3>1, <3>2 DEF OfLine
    <3> HIDE DEF e, l
    <3> QED BY <2>3, <2>4, <3>3
  <2> HIDE DEF l
  <2>6. OfLines(<<l>>) = e
    <3>1. [k \in DOMAIN <<l>> |-> OfLine(<<l>>[k])] = <<OfLine(l)>> OBVIOUS
    <3>2. OfLines(<<l>>) = FlattenSeq(<<OfLine(l)>>) BY <3>1 DEF OfLines
    <3> HIDE DEF e
    <3>3. OfLines(<<l>>) = FlattenSeq(<<e>>) BY <2>5, <3>2
    <3> QED BY <2>3, <2>4, <3>3
  <2>7. \A i \in 1..Returns(f) : e[i].at = Scan(f)[i].at /\ e[i].id = Unset BY <2>2
  <2> HIDE DEF e
  <2>8. IsFrame(e, f) BY <1>0, <1>5, <2>3, <2>7 DEF IsFrame
  <2> QED BY <1>1, <2>1, <2>3, <2>6, <2>8
<1> QED BY <1>3, <1>4, <1>5 DEF FrameType

\* So is the conversion to the simple frame.
LEMMA SimpleIsFrame ==
  ASSUME NEW f \in FrameType
  PROVE  IsFrame(Simple(f), f)
<1>0. /\ Len(Scan(f)) = Returns(f) /\ Returns(f) \in Nat
      /\ \A i \in 1..Returns(f) : Scan(f)[i].at = <<f.id, i>> /\ Scan(f)[i] \in ReturnType
  BY ScanType
<1> DEFINE e == Simple(f)
<1>1. e = [i \in 1..Returns(f) |->
             [at |-> Scan(f)[i].at, light |-> Light(Scan(f)[i].pulse),
              id |-> IF f.packed /\ ~f.ids THEN Unset ELSE Scan(f)[i].pulse]]
  BY DEF Simple
<1>2. Len(e) = Returns(f) /\ DOMAIN e = 1..Returns(f) BY <1>0, <1>1
<1>3. \A i \in 1..Returns(f) :
         /\ e[i].at = Scan(f)[i].at /\ e[i].light = Light(Scan(f)[i].pulse)
         /\ e[i].id = IF f.packed /\ ~f.ids THEN Unset ELSE Scan(f)[i].pulse
  BY <1>1
<1> HIDE DEF e
<1>4. IsFrame(e, f) BY <1>0, <1>2, <1>3 DEF IsFrame
<1> QED BY <1>4 DEF e

Counting(s) == [k \in 1..Len(s) |-> [v \in Nat |-> v + Returns(s[k])]]
CountsTo(h, s) ==
  /\ h \in [0..Len(s) -> Nat] /\ IsChain(h, Len(s), 0, Counting(s))
  /\ ReturnsOfAll(s) = h[Len(s)]

\* The returns of several frames are counted one frame after the other.
LEMMA CountChain ==
  ASSUME NEW s \in Seq(FrameType)
  PROVE  \E h : CountsTo(h, s)
<1> DEFINE n == Len(s)
           V == Nat
           z == 0
           G == Counting(s)
           E(x) == x = [t \in SUBSET (DOMAIN s) |->
                          IF t = {} THEN z ELSE x[t \ {Max(t)}] + Returns(s[Max(t)])]
           c == CHOOSE x : E(x)
<1>0. n \in Nat /\ DOMAIN s = 1..n /\ \A k \in 1..n : s[k] \in FrameType
  OBVIOUS
<1>z. z \in V OBVIOUS
<1>1. ReturnsOfAll(s) = c[DOMAIN s]
  BY DEF ReturnsOfAll, FoldLeft, MapThenFoldSet
<1>3. \A k \in 1..n : G[k] = [v \in V |-> v + Returns(s[k])] BY DEF Counting
<1>8. DOMAIN G = 1..n /\ G = [k \in 1..n |-> G[k]] BY DEF Counting
<1>5. \A k \in 1..n : \A v \in V : v + Returns(s[k]) \in V
  <2>1. \A k \in 1..n : Returns(s[k]) \in Nat BY <1>0, ScanType
  <2> QED BY <2>1
<1> HIDE DEF G, V, z
<1>4. \A k \in 1..n : G[k] \in [V -> V] /\ \A v \in V : G[k][v] = v + Returns(s[k])
  BY <1>3, <1>5
<1>2. G \in [1..n -> [V -> V]] BY <1>4, <1>8
<1>6. PICK it \in [SUBSET (1..n) -> V] : IsTable(it, n, z, G)
  BY <1>0, <1>2, <1>z, TableExists DEF HasTable
<1>7. E(it)
  <2>1. ASSUME NEW t \in SUBSET (1..n)
        PROVE  it[t] = IF t = {} THEN z ELSE it[t \ {Max(t)}] + Returns(s[Max(t)])
    <3>1. CASE t = {} BY <3>1, <1>6 DEF IsTable
    <3>2. CASE t # {}
      <4>1. Max(t) \in 1..n BY <3>2, <1>0, MaxInSet
      <4>2. t \ {Max(t)} \in SUBSET (1..n) OBVIOUS
      <4>3. it[t] = G[Max(t)][it[t \ {Max(t)}]] BY <3>2, <1>6 DEF IsTable
      <4>4. it[t \ {Max(t)}] \in V BY <4>2
      <4> QED BY <3>2, <4>1, <4>3, <4>4, <1>4
    <3> QED BY <3>1, <3>2
  <2> QED BY <2>1, <1>0
<1>9. E(c) BY <1>7
<1> HIDE DEF c
<1>10. FoldsFirst(c, n, V, z, G)
  <2>1. c[{}] = z BY <1>9, <1>0
  <2>2. ASSUME NEW k \in 1..n, c[1..k-1] \in V PROVE c[1..k] = G[k][c[1..k-1]]
    <3>1. k \in Nat /\ k # 0 /\ 1..k \in SUBSET (1..n) /\ k \in 1..k
      <4>1. \A x \in 1..k : x \in 1..n BY <1>0
      <4> QED BY <4>1
    <3>2. Max(1..k) = k /\ (1..k) \ {k} = 1..k-1 BY <3>1, MaxOfFirst
    <3>3. c[1..k] = c[(1..k) \ {Max(1..k)}] + Returns(s[Max(1..k)]) BY <1>9, <3>1, <1>0
    <3> QED BY <3>2, <3>3, <2>2, <1>4
  <2> QED BY <2>1, <2>2 DEF FoldsFirst
<1>11. PICK h \in [0..n -> V] : IsChain(h, n, z, G) /\ h[n] = c[1..n]
  <2>1. IsFold(c, n, V, z, G) BY <1>0, <1>z, <1>2, <1>10 DEF IsFold
  <2>2. HasChain(c, n, V, z, G) BY <2>1, IntervalChain, Zenon
  <2> QED BY <2>2, Zenon DEF HasChain
<1>12. ReturnsOfAll(s) = h[n] BY <1>0, <1>1, <1>11, Zenon
<1> QED BY <1>11, <1>12, Zenon DEF CountsTo, G, V, z

\* One frame more.
LEMMA ReturnsOfAllSteps ==
  /\ ReturnsOfAll(<<>>) = 0
  /\ \A s \in Seq(FrameType) : \A f \in FrameType :
       ReturnsOfAll(Append(s, f)) = ReturnsOfAll(s) + Returns(f)
<1>1. ReturnsOfAll(<<>>) = 0
  <2> DEFINE s == <<>>
  <2>1. s \in Seq(FrameType) /\ Len(s) = 0 BY EmptySeq
  <2> HIDE DEF s
  <2>2. PICK h : CountsTo(h, s) BY <2>1, CountChain
  <2>3. ReturnsOfAll(s) = h[0] /\ h[0] = 0 BY <2>1, <2>2 DEF CountsTo, IsChain
  <2> QED BY <2>3 DEF s
<1>2. ASSUME NEW s \in Seq(FrameType), NEW f \in FrameType
      PROVE  ReturnsOfAll(Append(s, f)) = ReturnsOfAll(s) + Returns(f)
  <2> DEFINE n == Len(s)
             u == Append(s, f)
             m == n + 1
             z == 0
             A == Counting(s)
  <2>1. n \in Nat /\ u \in Seq(FrameType) /\ Len(u) = m /\ u[m] = f
        /\ (\A k \in 1..n : u[k] = s[k]) /\ m \in 1..m /\ m - 1 = n /\ n \in 0..n
        /\ m \in Nat /\ \A k \in 1..n : k \in 1..m
    BY AppendProperties, LenProperties
  <2> HIDE DEF u, m
  <2>2. PICK g : CountsTo(g, s) BY CountChain
  <2>3. PICK h : CountsTo(h, u) BY <2>1, CountChain
  <2>4. g[0] = 0 /\ h[0] = 0 /\ ReturnsOfAll(s) = g[n] /\ ReturnsOfAll(u) = h[m]
    BY <2>1, <2>2, <2>3 DEF CountsTo, IsChain
  <2>5. IsChain(h, n, z, A)
    <3>1. ASSUME NEW k \in 1..n PROVE h[k] = A[k][h[k - 1]]
      <4>1. k \in 1..m BY <2>1
      <4>2. h[k] = Counting(u)[k][h[k - 1]] BY <2>1, <2>3, <4>1 DEF CountsTo, IsChain
      <4>3. Counting(u)[k] = [v \in Nat |-> v + Returns(u[k])] BY <2>1, <4>1 DEF Counting
      <4>4. A[k] = [v \in Nat |-> v + Returns(s[k])] BY DEF Counting
      <4>5. u[k] = s[k] BY <2>1
      <4> HIDE DEF A
      <4> QED BY <4>2, <4>3, <4>4, <4>5
    <3> HIDE DEF A
    <3> QED BY <3>1, <2>4 DEF IsChain
  <2>6. IsChain(g, n, z, A) BY <2>2 DEF CountsTo
  <2> HIDE DEF A, z
  <2>7. h[n] = g[n] BY <2>1, <2>5, <2>6, ChainUnique
  <2>8. h[n] \in Nat
    <3>1. h \in [0..m -> Nat] BY <2>1, <2>3 DEF CountsTo
    <3>2. n \in 0..m BY <2>1 DEF m
    <3> QED BY <3>1, <3>2
  <2>9. h[m] = h[n] + Returns(f)
    <3>1. h[m] = Counting(u)[m][h[n]] BY <2>1, <2>3 DEF CountsTo, IsChain
    <3>2. Counting(u)[m] = [v \in Nat |-> v + Returns(u[m])] BY <2>1 DEF Counting
    <3> QED BY <2>1, <2>8, <3>1, <3>2
  <2> QED BY <2>4, <2>7, <2>9 DEF u
<1> QED BY <1>1, <1>2
=============================================================================
