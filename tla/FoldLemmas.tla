------------------------------ MODULE FoldLemmas ------------------------------
(***************************************************************************)
(* Lemmas about the folds of SequencesExt.  A fold over a sequence of n    *)
(* elements is, in its definition, a function on the sets of places 1..n   *)
(* that some function with a recursive equation is chosen for: there is    *)
(* one (TableExists), and what is chosen is, on the sets 1..k, a chain of  *)
(* values each of which follows from the one before (IntervalChain).       *)
(* FlattenSeq likewise (FlattenChain).  The induction is over the least    *)
(* element of a set of numbers (NatInd), from WFMin.                       *)
(***************************************************************************)
EXTENDS Integers, SequencesExt, SequenceTheorems, WellFoundedInduction, TLAPS

\* Induction over the natural numbers, for a set: the least number outside it has a
\* predecessor inside.
LEMMA NatInd ==
  ASSUME NEW S, 0 \in S, \A n \in Nat : n \in S => n + 1 \in S
  PROVE  Nat \subseteq S
<1> DEFINE T == Nat \ S
<1>1. SUFFICES ASSUME T # {} PROVE FALSE
  OBVIOUS
<1>2. PICK x \in T : \A y \in T : ~ (<<y, x>> \in OpToRel(<, Nat))
  <2>1. T \subseteq Nat OBVIOUS
  <2> HIDE DEF T
  <2>2. IsWellFoundedOn(OpToRel(<, Nat), Nat) BY NatLessThanWellFounded
  <2> QED BY <1>1, <2>1, <2>2, WFMin, Zenon
<1>3. x \in Nat /\ x # 0 BY <1>2
<1>4. x - 1 \in Nat BY <1>3
<1>5. x - 1 \in T
  <2>1. x - 1 + 1 = x BY <1>3
  <2>2. x \notin S OBVIOUS
  <2> QED BY <2>1, <2>2, <1>4
<1>6. <<x - 1, x>> \in OpToRel(<, Nat) BY <1>3, <1>4 DEF OpToRel
<1> QED BY <1>2, <1>5, <1>6

\* A table of the steps of a fold: what it is to be for each set of places.
IsTable(it, n, b, G) ==
  \A s \in SUBSET (1..n) :
    it[s] = IF s = {} THEN b ELSE G[Max(s)][it[s \ {Max(s)}]]

HasTable(n, V, b, G) == \E it \in [SUBSET (1..n) -> V] : IsTable(it, n, b, G)

\* The last place of a set that has it is its greatest.
LEMMA MaxOfInterval ==
  ASSUME NEW k \in Nat, NEW s \in SUBSET (1..k+1), k + 1 \in s
  PROVE  Max(s) = k + 1
<1>1. \A y \in s : k + 1 >= y OBVIOUS
<1>2. \A x \in s : (\A y \in s : x >= y) => x = k + 1
  OBVIOUS
<1> QED BY <1>1, <1>2, Zenon DEF Max

\* There is a table of the steps of any fold.
LEMMA TableExists ==
  ASSUME NEW n \in Nat, NEW V, NEW b \in V, NEW G \in [1..n -> [V -> V]]
  PROVE  HasTable(n, V, b, G)
<1> DEFINE S == {k \in Nat : k <= n => HasTable(k, V, b, G)}
<1>1. 0 \in S
  <2>1. 1..0 = {} OBVIOUS
  <2> DEFINE it == [s \in SUBSET (1..0) |-> b]
  <2>2. it \in [SUBSET (1..0) -> V] OBVIOUS
  <2>3. IsTable(it, 0, b, G) BY <2>1 DEF IsTable
  <2> HIDE DEF it
  <2>4. HasTable(0, V, b, G) BY <2>2, <2>3 DEF HasTable
  <2> QED BY <2>4
<1>2. ASSUME NEW k \in Nat, k \in S PROVE k + 1 \in S
  <2> SUFFICES ASSUME k + 1 <= n PROVE HasTable(k + 1, V, b, G)
    OBVIOUS
  <2>0. HasTable(k, V, b, G) BY <1>2
  <2>1. PICK it \in [SUBSET (1..k) -> V] : IsTable(it, k, b, G)
    BY <2>0 DEF HasTable
  <2> DEFINE up == [s \in SUBSET (1..k+1) |->
                      IF k + 1 \in s THEN G[k + 1][it[s \ {k + 1}]] ELSE it[s]]
  <2>2. ASSUME NEW s \in SUBSET (1..k+1)
        PROVE  /\ up[s] \in V
               /\ up[s] = IF s = {} THEN b ELSE G[Max(s)][up[s \ {Max(s)}]]
    <3>1. CASE k + 1 \in s
      <4>1. Max(s) = k + 1 BY <3>1, MaxOfInterval
      <4>2. s \ {k + 1} \in SUBSET (1..k) /\ s \ {k + 1} \in SUBSET (1..k+1) BY <3>1
      <4>3. up[s \ {k + 1}] = it[s \ {k + 1}] BY <4>2
      <4>4. it[s \ {k + 1}] \in V BY <4>2
      <4>5. up[s] = G[k + 1][it[s \ {k + 1}]] BY <3>1
      <4>6. G[k + 1] \in [V -> V] OBVIOUS
      <4> HIDE DEF up
      <4> QED BY <3>1, <4>1, <4>3, <4>4, <4>5, <4>6
    <3>2. CASE k + 1 \notin s
      <4>1. s \in SUBSET (1..k) /\ s \ {Max(s)} \in SUBSET (1..k)
        <5>1. \A x \in s : x \in 1..k BY <3>2
        <5> QED BY <5>1
      <4>2. up[s] = it[s] BY <3>2
      <4>3. up[s \ {Max(s)}] = it[s \ {Max(s)}] BY <3>2, <4>1
      <4>4. it[s] \in V BY <4>1
      <4>5. it[s] = IF s = {} THEN b ELSE G[Max(s)][it[s \ {Max(s)}]]
        BY <4>1, <2>1 DEF IsTable
      <4> HIDE DEF up
      <4> QED BY <4>2, <4>3, <4>4, <4>5
    <3> QED BY <3>1, <3>2
  <2>3. up \in [SUBSET (1..k+1) -> V] BY <2>2
  <2>4. IsTable(up, k + 1, b, G) BY <2>2 DEF IsTable
  <2> HIDE DEF up
  <2> QED BY <2>3, <2>4 DEF HasTable
<1> HIDE DEF S
<1>3. Nat \subseteq S BY <1>1, <1>2, NatInd
<1> USE DEF S
<1> QED BY <1>3

\* A finite set of numbers has a greatest.
LEMMA MaxInSet ==
  ASSUME NEW n \in Nat, NEW s \in SUBSET (1..n), s # {}
  PROVE  Max(s) \in s
<1> DEFINE S == {k \in Nat : \A t \in SUBSET (1..k) : t # {} => \E x \in t : \A y \in t : x >= y}
<1>1. 0 \in S
  <2>1. 1..0 = {} OBVIOUS
  <2>2. \A t \in SUBSET (1..0) : t = {} BY <2>1
  <2> QED BY <2>2
<1>2. ASSUME NEW k \in Nat, k \in S PROVE k + 1 \in S
  <2> SUFFICES ASSUME NEW t \in SUBSET (1..k+1), t # {}
               PROVE  \E x \in t : \A y \in t : x >= y
    OBVIOUS
  <2>1. CASE k + 1 \in t
    <3>1. \A y \in t : k + 1 >= y OBVIOUS
    <3> QED BY <2>1, <3>1
  <2>2. CASE k + 1 \notin t
    <3>1. \A x \in t : x \in 1..k BY <2>2
    <3>2. t \in SUBSET (1..k) BY <3>1
    <3> QED BY <1>2, <3>2
  <2> QED BY <2>1, <2>2
<1> HIDE DEF S
<1>3. Nat \subseteq S BY <1>1, <1>2, NatInd
<1>4. \E x \in s : \A y \in s : x >= y BY <1>3 DEF S
<1> QED BY <1>4, Zenon DEF Max

\* The values of a fold, one after the other.
IsChain(h, n, b, G) == h[0] = b /\ \A k \in 1..n : h[k] = G[k][h[k - 1]]

\* What a table is for the first places is a chain.
FoldsFirst(f, n, V, b, G) ==
  f[{}] = b /\ \A k \in 1..n : f[1..k-1] \in V => f[1..k] = G[k][f[1..k-1]]

IsFold(f, n, V, b, G) ==
  n \in Nat /\ b \in V /\ G \in [1..n -> [V -> V]] /\ FoldsFirst(f, n, V, b, G)

\* The last of a chain in V is what f is for all places.
HasChain(f, n, V, b, G) == \E h \in [0..n -> V] : IsChain(h, n, b, G) /\ h[n] = f[1..n]

\* A function that folds the first places is, on them, a chain in V.
LEMMA IntervalChain ==
  ASSUME NEW n, NEW V, NEW b, NEW G, NEW f, IsFold(f, n, V, b, G)
  PROVE  HasChain(f, n, V, b, G)
<1> USE DEF IsFold
<1> DEFINE h == [k \in 0..n |-> f[1..k]]
           S == {k \in Nat : k <= n => f[1..k] \in V}
<1>0. 1..0 = {} OBVIOUS
<1>9. f[{}] = b /\ \A k \in 1..n : f[1..k-1] \in V => f[1..k] = G[k][f[1..k-1]]
  BY DEF FoldsFirst
<1>1. 0 \in S BY <1>0, <1>9
<1>2. ASSUME NEW k \in Nat, k \in S PROVE k + 1 \in S
  <2> SUFFICES ASSUME k + 1 <= n PROVE f[1..k+1] \in V
    OBVIOUS
  <2>1. k + 1 \in 1..n /\ k + 1 - 1 = k BY <1>2
  <2>2. f[1..k] \in V BY <1>2
  <2>3. f[1..k+1] = G[k + 1][f[1..k]] BY <2>1, <2>2, <1>9
  <2>4. G[k + 1] \in [V -> V] BY <2>1
  <2> QED BY <2>2, <2>3, <2>4
<1> HIDE DEF S
<1>3. Nat \subseteq S BY <1>1, <1>2, NatInd
<1>4. \A k \in 0..n : f[1..k] \in V BY <1>3 DEF S
<1>5. h \in [0..n -> V] BY <1>4
<1>6. h[0] = b BY <1>0, <1>9
<1>7. ASSUME NEW k \in 1..n PROVE h[k] = G[k][h[k - 1]]
  <2>1. k - 1 \in 0..n /\ k \in 0..n OBVIOUS
  <2>2. f[1..k-1] \in V BY <1>4, <2>1
  <2>3. h[k] = f[1..k] /\ h[k - 1] = f[1..k-1] BY <2>1
  <2> QED BY <2>2, <2>3, <1>9
<1>8. h[n] = f[1..n] OBVIOUS
<1> HIDE DEF h
<1> QED BY <1>5, <1>6, <1>7, <1>8 DEF IsChain, HasChain

\* The greatest of the first k places is k.
LEMMA MaxOfFirst ==
  ASSUME NEW k \in Nat, k # 0
  PROVE  Max(1..k) = k /\ (1..k) \ {k} = 1..k-1
<1>1. \A x \in 1..k : (\A y \in 1..k : x >= y) => x = k OBVIOUS
<1>2. k \in 1..k /\ \A y \in 1..k : k >= y OBVIOUS
<1> QED BY <1>1, <1>2 DEF Max

\* There is a chain of the steps of any fold ...
LEMMA ChainExists ==
  ASSUME NEW n \in Nat, NEW V, NEW b \in V, NEW G \in [1..n -> [V -> V]]
  PROVE  \E h \in [0..n -> V] : IsChain(h, n, b, G)
<1>1. PICK it \in [SUBSET (1..n) -> V] : IsTable(it, n, b, G)
  BY TableExists DEF HasTable
<1>2. it[{}] = b BY <1>1 DEF IsTable
<1>3. ASSUME NEW k \in 1..n PROVE it[1..k] = G[k][it[1..k-1]]
  <2>1. 1..k \in SUBSET (1..n) /\ 1..k # {}
    <3>1. k \in Nat /\ k <= n /\ k # 0 /\ k \in 1..k OBVIOUS
    <3>2. \A x \in 1..k : x \in 1..n BY <3>1
    <3> QED BY <3>1, <3>2
  <2>2. it[1..k] = G[Max(1..k)][it[(1..k) \ {Max(1..k)}]] BY <1>1, <2>1 DEF IsTable
  <2>3. Max(1..k) = k /\ (1..k) \ {k} = 1..k-1
    <3>1. k \in Nat /\ k # 0 OBVIOUS
    <3> QED BY <3>1, MaxOfFirst
  <2> QED BY <2>2, <2>3
<1>4. \A k \in 1..n : it[1..k-1] \in V => it[1..k] = G[k][it[1..k-1]]
  BY <1>3
<1>5. FoldsFirst(it, n, V, b, G) BY <1>2, <1>4 DEF FoldsFirst
<1>6. IsFold(it, n, V, b, G) BY <1>5 DEF IsFold
<1>7. HasChain(it, n, V, b, G) BY <1>6, IntervalChain, Zenon
<1> QED BY <1>7, Zenon DEF HasChain

\* ... and only one.
LEMMA ChainUnique ==
  ASSUME NEW n \in Nat, NEW b, NEW G, NEW g, NEW h, IsChain(g, n, b, G), IsChain(h, n, b, G)
  PROVE  \A k \in 0..n : g[k] = h[k]
<1> DEFINE S == {k \in Nat : k <= n => g[k] = h[k]}
<1>1. 0 \in S BY DEF IsChain
<1>2. ASSUME NEW k \in Nat, k \in S PROVE k + 1 \in S
  <2> SUFFICES ASSUME k + 1 <= n PROVE g[k + 1] = h[k + 1]
    OBVIOUS
  <2>1. k + 1 \in 1..n /\ k + 1 - 1 = k BY <1>2
  <2>2. g[k + 1] = G[k + 1][g[k]] /\ h[k + 1] = G[k + 1][h[k]] BY <2>1 DEF IsChain
  <2> QED BY <1>2, <2>2
<1> HIDE DEF S
<1>3. Nat \subseteq S BY <1>1, <1>2, NatInd
<1> QED BY <1>3 DEF S

-----------------------------------------------------------------------------
(* Flattening a sequence of sequences. *)

IsFlattening(h, s, V) ==
  /\ h \in [0..Len(s) -> Seq(V)]
  /\ h[0] = <<>> /\ \A k \in 1..Len(s) : h[k] = h[k - 1] \o s[k]

\* FlattenSeq is the last of a chain of concatenations.
LEMMA FlattenChain ==
  ASSUME NEW V, NEW s \in Seq(Seq(V))
  PROVE  \E h : IsFlattening(h, s, V) /\ FlattenSeq(s) = h[Len(s)]
<1> DEFINE n == Len(s)
           W == Seq(V)
           G == [k \in 1..n |-> [v \in W |-> v \o s[k]]]
<1>0. n \in Nat /\ \A k \in 1..n : s[k] \in W OBVIOUS
<1>1. G \in [1..n -> [W -> W]] BY <1>0
<1>2. <<>> \in W OBVIOUS
<1> HIDE DEF G
<1>3. PICK h \in [0..n -> W] : IsChain(h, n, <<>>, G)
  BY <1>0, <1>1, <1>2, ChainExists
<1>4. h[0] = <<>> /\ \A k \in 1..n : h[k] = h[k - 1] \o s[k]
  <2>1. h[0] = <<>> BY <1>3 DEF IsChain
  <2>2. ASSUME NEW k \in 1..n PROVE h[k] = h[k - 1] \o s[k]
    <3>1. k - 1 \in 0..n BY <1>0
    <3>2. h[k - 1] \in W BY <3>1, <1>3
    <3>3. h[k] = G[k][h[k - 1]] BY <1>3 DEF IsChain
    <3> QED BY <3>2, <3>3 DEF G
  <2> QED BY <2>1, <2>2
<1>5. IsFlattening(h, s, V) BY <1>3, <1>4 DEF IsFlattening
<1>6. FlattenSeq(s) = h[n]
  <2>1. CASE n = 0
    <3>1. s = <<>> BY <2>1
    <3> QED BY <2>1, <3>1, <1>4 DEF FlattenSeq
  <2>2. CASE n # 0
    <3> DEFINE E(f) == f = [i \in 1..n |-> IF i = 1 THEN s[i] ELSE f[i - 1] \o s[i]]
               c == CHOOSE f : E(f)
    <3>1. FlattenSeq(s) = c[n] BY <2>2 DEF FlattenSeq
    <3> DEFINE g == [i \in 1..n |-> h[i]]
    <3>2. E(g)
      <4>1. ASSUME NEW i \in 1..n PROVE h[i] = IF i = 1 THEN s[i] ELSE g[i - 1] \o s[i]
        <5>1. CASE i = 1
          <6>1. h[1] = h[0] \o s[1]
            <7>1. 1 \in 1..n /\ 1 - 1 = 0 BY <5>1, <1>0
            <7>2. h[1] = h[1 - 1] \o s[1] BY <1>4, <7>1, Zenon
            <7> QED BY <7>1, <7>2, Zenon
          <6>2. s[1] \in Seq(V) BY <5>1, <1>0
          <6>3. h[1] = s[1] BY <6>1, <6>2, <1>4, ConcatEmptySeq
          <6> QED BY <6>3, <5>1
        <5>2. CASE i # 1
          <6>1. i - 1 \in 1..n BY <5>2, <1>0
          <6> QED BY <6>1, <5>2, <1>4
        <5> QED BY <5>1, <5>2
      <4> QED BY <4>1
    <3> HIDE DEF g
    <3>3. E(c) BY <3>2
    <3> HIDE DEF c
    <3> DEFINE S == {k \in Nat : k + 1 <= n => c[k + 1] = h[k + 1]}
    <3>4. 0 \in S
      <4>1. CASE 1 <= n
        <5>1. c[1] = s[1] BY <3>3, <4>1, <1>0
        <5>2. h[1] = h[0] \o s[1]
          <6>1. 1 \in 1..n /\ 1 - 1 = 0 BY <4>1, <1>0
          <6>2. h[1] = h[1 - 1] \o s[1] BY <1>4, <6>1, Zenon
          <6> QED BY <6>1, <6>2, Zenon
        <5>3. s[1] \in Seq(V) BY <4>1, <1>0
        <5> QED BY <5>1, <5>2, <5>3, <1>4, ConcatEmptySeq
      <4> QED BY <4>1
    <3>5. ASSUME NEW k \in Nat, k \in S PROVE k + 1 \in S
      <4> SUFFICES ASSUME k + 1 + 1 <= n PROVE c[k + 1 + 1] = h[k + 1 + 1]
        OBVIOUS
      <4>1. k + 1 + 1 \in 1..n /\ k + 1 + 1 - 1 = k + 1 /\ k + 1 + 1 # 1 BY <1>0
      <4> DEFINE m == k + 1 + 1
      <4>5. m \in 1..n /\ m - 1 = k + 1 /\ m # 1 BY <4>1
      <4> HIDE DEF m
      <4>6. c[m] = IF m = 1 THEN s[m] ELSE c[m - 1] \o s[m] BY <3>3, <4>5
      <4>7. h[m] = h[m - 1] \o s[m] BY <1>4, <4>5, Zenon
      <4>2. c[k + 1 + 1] = c[k + 1] \o s[k + 1 + 1] BY <4>5, <4>6 DEF m
      <4>3. h[k + 1 + 1] = h[k + 1] \o s[k + 1 + 1] BY <4>5, <4>7 DEF m
      <4>4. c[k + 1] = h[k + 1] BY <3>5, <4>1, <1>0
      <4> QED BY <4>1, <4>2, <4>3, <4>4, Zenon
    <3> HIDE DEF S
    <3>6. Nat \subseteq S BY <3>4, <3>5, NatInd
    <3>7. n - 1 \in Nat /\ n - 1 + 1 = n BY <1>0, <2>2
    <3>8. c[n] = h[n]
      <4>1. n - 1 \in S BY <3>6, <3>7
      <4>2. n - 1 + 1 <= n => c[n - 1 + 1] = h[n - 1 + 1] BY <4>1 DEF S
      <4>3. n - 1 + 1 <= n BY <3>7, <1>0
      <4> QED BY <4>2, <4>3, <3>7, Zenon
    <3> QED BY <3>1, <3>8
  <2> QED BY <2>1, <2>2
<1> QED BY <1>5, <1>6

\* Nothing flattened is nothing.
LEMMA FlattenEmpty == FlattenSeq(<<>>) = <<>>
BY DEF FlattenSeq

\* What is flattened has the elements of the sequences.
LEMMA FlattenType ==
  ASSUME NEW V, NEW s \in Seq(Seq(V)) PROVE FlattenSeq(s) \in Seq(V)
<1>1. PICK h : IsFlattening(h, s, V) /\ FlattenSeq(s) = h[Len(s)] BY FlattenChain
<1>2. h \in [0..Len(s) -> Seq(V)] BY <1>1 DEF IsFlattening
<1>3. Len(s) \in 0..Len(s) OBVIOUS
<1> QED BY <1>1, <1>2, <1>3

\* One sequence more at the end.
LEMMA FlattenAppend ==
  ASSUME NEW V, NEW s \in Seq(Seq(V)), NEW x \in Seq(V)
  PROVE  FlattenSeq(Append(s, x)) = FlattenSeq(s) \o x
<1> DEFINE t == Append(s, x)
           n == Len(s)
<1>1. t \in Seq(Seq(V)) /\ Len(t) = n + 1 /\ n \in Nat /\ t[n + 1] = x
      /\ \A k \in 1..n : t[k] = s[k]
  OBVIOUS
<1> HIDE DEF t
<1>2. PICK g : IsFlattening(g, s, V) /\ FlattenSeq(s) = g[n] BY FlattenChain
<1>3. PICK h : IsFlattening(h, t, V) /\ FlattenSeq(t) = h[n + 1] BY FlattenChain, <1>1
<1> DEFINE S == {k \in Nat : k <= n => h[k] = g[k]}
<1>4. 0 \in S BY <1>2, <1>3 DEF IsFlattening
<1>5. ASSUME NEW k \in Nat, k \in S PROVE k + 1 \in S
  <2> SUFFICES ASSUME k + 1 <= n PROVE h[k + 1] = g[k + 1]
    OBVIOUS
  <2>1. k + 1 \in 1..n /\ k + 1 \in 1..Len(t) /\ k + 1 - 1 = k BY <1>1
  <2> DEFINE m == k + 1
  <2>6. m \in 1..Len(s) /\ m \in 1..Len(t) /\ m - 1 = k BY <2>1
  <2> HIDE DEF m
  <2>7. g[m] = g[m - 1] \o s[m] BY <1>2, <2>6, Zenon DEF IsFlattening
  <2>8. h[m] = h[m - 1] \o t[m] BY <1>3, <2>6, Zenon DEF IsFlattening
  <2>2. g[k + 1] = g[k] \o s[k + 1] BY <2>6, <2>7 DEF m
  <2>3. h[k + 1] = h[k] \o t[k + 1] BY <2>6, <2>8 DEF m
  <2>4. t[k + 1] = s[k + 1] BY <1>1, <2>1
  <2>5. h[k] = g[k] BY <1>5, <1>1
  <2> QED BY <2>1, <2>2, <2>3, <2>4, <2>5, Zenon
<1> HIDE DEF S
<1>6. Nat \subseteq S BY <1>4, <1>5, NatInd
<1>7. h[n] = g[n] BY <1>6, <1>1 DEF S
<1>8. h[n + 1] = h[n] \o x
  <2>1. n + 1 \in 1..Len(t) /\ n + 1 - 1 = n BY <1>1
  <2> DEFINE m == n + 1
  <2>3. m \in 1..Len(t) /\ m - 1 = n BY <2>1
  <2> HIDE DEF m
  <2>4. h[m] = h[m - 1] \o t[m] BY <1>3, <2>3, Zenon DEF IsFlattening
  <2>2. h[n + 1] = h[n] \o t[n + 1] BY <2>3, <2>4 DEF m
  <2> QED BY <2>1, <2>2, <1>1, Zenon
<1>9. FlattenSeq(t) = FlattenSeq(s) \o x BY <1>2, <1>3, <1>7, <1>8
<1> QED BY <1>9 DEF t

\* Something more at the end of the last sequence.
LEMMA FlattenLast ==
  ASSUME NEW V, NEW s \in Seq(Seq(V)), s # <<>>, NEW y \in Seq(V)
  PROVE  FlattenSeq([s EXCEPT ![Len(s)] = @ \o y]) = FlattenSeq(s) \o y
<1> DEFINE n == Len(s)
           a == SubSeq(s, 1, n - 1)
           l == s[n]
           t == [s EXCEPT ![n] = l \o y]
<1>0. n \in Nat /\ n # 0 /\ l \in Seq(V) BY EmptySeq
<1>1. a \in Seq(Seq(V)) /\ Len(a) = n - 1 /\ \A k \in 1..n - 1 : a[k] = s[k]
  <2>1. \A i \in 1..n - 1 : s[i] \in Seq(V) BY <1>0
  <2>2. /\ SubSeq(s, 1, n - 1) \in Seq(Seq(V))
        /\ Len(SubSeq(s, 1, n - 1)) = IF 1 <= n - 1 THEN n - 1 - 1 + 1 ELSE 0
        /\ \A i \in 1 .. n - 1 - 1 + 1 : SubSeq(s, 1, n - 1)[i] = s[1 + i - 1]
    <3>1. n - 1 \in Int /\ 1 \in Int BY <1>0
    <3> QED BY <2>1, <3>1, SubSeqProperties
  <2>3. n - 1 - 1 + 1 = n - 1 /\ \A i \in 1..n - 1 : 1 + i - 1 = i BY <1>0
  <2> QED BY <1>0, <2>2, <2>3
<1>2. l \o y \in Seq(V) BY <1>0
<1>3. t \in Seq(Seq(V)) /\ Len(t) = n /\ t[n] = l \o y /\ \A k \in 1..n - 1 : t[k] = s[k]
  BY <1>0, <1>2
<1> HIDE DEF a, l, t
<1>4. s = Append(a, l)
  <2>1. Append(a, l) \in Seq(Seq(V)) /\ Len(Append(a, l)) = n
        /\ Append(a, l)[n] = l /\ \A k \in 1..n - 1 : Append(a, l)[k] = s[k]
    BY <1>0, <1>1
  <2>2. \A k \in 1..n : Append(a, l)[k] = s[k]
    <3>1. \A k \in 1..n : k = n \/ k \in 1..n - 1 BY <1>0
    <3>2. s[n] = l BY DEF l
    <3> QED BY <2>1, <3>1, <3>2
  <2> QED BY <2>1, <2>2, SeqEqual
<1>5. t = Append(a, l \o y)
  <2>1. Append(a, l \o y) \in Seq(Seq(V)) /\ Len(Append(a, l \o y)) = n
        /\ Append(a, l \o y)[n] = l \o y /\ \A k \in 1..n - 1 : Append(a, l \o y)[k] = s[k]
    <3> DEFINE z == l \o y
    <3> HIDE DEF z
    <3>1. z \in Seq(V) BY <1>2 DEF z
    <3>2. Append(a, z) \in Seq(Seq(V)) /\ Len(Append(a, z)) = n
          /\ Append(a, z)[n] = z /\ \A k \in 1..n - 1 : Append(a, z)[k] = s[k]
      BY <1>0, <1>1, <3>1
    <3> QED BY <3>2 DEF z
  <2>2. \A k \in 1..n : Append(a, l \o y)[k] = t[k]
    <3> SUFFICES ASSUME NEW k \in 1..n PROVE Append(a, l \o y)[k] = t[k]
      OBVIOUS
    <3>1. CASE k = n BY <2>1, <3>1, <1>3
    <3>2. CASE k # n
      <4>1. k \in 1..n - 1 BY <1>0, <3>2
      <4> QED BY <2>1, <3>2, <4>1, <1>3
    <3> QED BY <3>1, <3>2
  <2> QED BY <2>1, <2>2, <1>3, SeqEqual
<1>6. FlattenSeq(s) = FlattenSeq(a) \o l
  <2>1. FlattenSeq(Append(a, l)) = FlattenSeq(a) \o l BY <1>0, <1>1, FlattenAppend
  <2> QED BY <2>1, <1>4
<1>7. FlattenSeq(t) = FlattenSeq(a) \o (l \o y)
  <2>1. FlattenSeq(Append(a, l \o y)) = FlattenSeq(a) \o (l \o y)
    BY <1>1, <1>2, FlattenAppend
  <2> QED BY <2>1, <1>5
<1>8. FlattenSeq(a) \o (l \o y) = (FlattenSeq(a) \o l) \o y
  <2>1. FlattenSeq(a) \in Seq(V) BY <1>1, FlattenType
  <2> QED BY <2>1, <1>0, ConcatAssociative, SMTT(30)
<1>9. FlattenSeq(t) = FlattenSeq(s) \o y BY <1>6, <1>7, <1>8
<1> QED BY <1>9 DEF t, l

\* What is flattened first stays where it is.
LEMMA FlattenPrefix ==
  ASSUME NEW V, NEW s \in Seq(Seq(V)), NEW h, IsFlattening(h, s, V),
         NEW j \in 0..Len(s), NEW k \in 0..Len(s), j <= k
  PROVE  Len(h[j]) <= Len(h[k]) /\ \A i \in 1..Len(h[j]) : h[k][i] = h[j][i]
<1> DEFINE Good(m) == Len(h[j]) <= Len(h[m]) /\ \A i \in 1..Len(h[j]) : h[m][i] = h[j][i]
           S == {d \in Nat : j + d <= Len(s) => Good(j + d)}
<1>0. j \in Nat /\ Len(s) \in Nat OBVIOUS
<1>t. \A m \in 0..Len(s) : h[m] \in Seq(V) BY DEF IsFlattening
<1>1. 0 \in S
  <2>1. Good(j) BY <1>t
  <2>2. j + 0 = j BY <1>0
  <2> QED BY <2>1, <2>2
<1>2. ASSUME NEW d \in Nat, d \in S PROVE d + 1 \in S
  <2> SUFFICES ASSUME j + (d + 1) <= Len(s) PROVE Good(j + (d + 1))
    OBVIOUS
  <2> DEFINE m == j + (d + 1)
             p == j + d
  <2>1. m \in 1..Len(s) /\ m - 1 = p /\ p \in 0..Len(s) /\ m \in 0..Len(s) BY <1>0
  <2>2. Good(p) BY <1>2, <2>1, <1>0
  <2> HIDE DEF m, p, S
  <2>3. h[m] = h[m - 1] \o s[m] BY <2>1, Zenon DEF IsFlattening
  <2>4. h[m] = h[p] \o s[m] BY <2>1, <2>3
  <2>5. h[p] \in Seq(V) /\ s[m] \in Seq(V) /\ h[j] \in Seq(V) BY <1>t, <2>1
  <2> DEFINE a == h[p]
             b == s[m]
  <2> HIDE DEF a, b
  <2>6. Len(a \o b) = Len(a) + Len(b) /\ \A i \in 1..Len(a) : (a \o b)[i] = a[i]
    <3>1. a \in Seq(V) /\ b \in Seq(V) BY <2>5 DEF a, b
    <3> QED BY <3>1
  <2>7. Len(a) \in Nat /\ Len(b) \in Nat /\ Len(h[j]) \in Nat BY <2>5 DEF a, b
  <2>8. Len(h[j]) <= Len(a) /\ \A i \in 1..Len(h[j]) : a[i] = h[j][i]
    BY <2>2 DEF a
  <2>9. Len(h[j]) <= Len(a \o b) /\ \A i \in 1..Len(h[j]) : (a \o b)[i] = h[j][i]
    <3>1. \A i \in 1..Len(h[j]) : i \in 1..Len(a) BY <2>7, <2>8
    <3> QED BY <2>6, <2>7, <2>8, <3>1
  <2>10. h[m] = a \o b BY <2>4 DEF a, b
  <2>11. Good(m) BY <2>9, <2>10
  <2> QED BY <2>11 DEF m
<1> HIDE DEF S
<1>3. Nat \subseteq S BY <1>1, <1>2, NatInd
<1>4. k - j \in Nat /\ j + (k - j) = k /\ k <= Len(s) BY <1>0
<1> HIDE DEF Good
<1>5. k - j \in S BY <1>3, <1>4
<1>6. Good(j + (k - j)) BY <1>4, <1>5 DEF S
<1>7. Good(k) BY <1>4, <1>6
<1> QED BY <1>7 DEF Good
=============================================================================
