-------------------------- MODULE VisibilityTableProofs --------------------------
(***************************************************************************)
(* The index World::isVisible computes, for maps of every size: it is a    *)
(* place in the table, and no two questions share one.                     *)
(***************************************************************************)
EXTENDS VisibilityTable, FiniteSetTheorems, SequenceTheorems, TLAPS

(* Two digits and the number they make in base n.                          *)
LEMMA DigitsUnique ==
    ASSUME NEW n \in Nat, NEW a \in Nat, NEW b \in 0 .. n - 1,
           NEW c \in Nat, NEW d \in 0 .. n - 1,
           a * n + b = c * n + d
    PROVE  a = c /\ b = d
<1>1. ~(a < c)
  <2>. SUFFICES ASSUME a < c PROVE FALSE
    OBVIOUS
  <2>1. PICK k \in Nat : c = a + 1 + k
    <3>1. c - a - 1 \in Nat /\ c = a + 1 + (c - a - 1)
      OBVIOUS
    <3>. QED BY <3>1
  <2>2. c * n = a * n + n + k * n
    BY <2>1
  <2>3. k * n \in Nat /\ a * n \in Nat
    OBVIOUS
  <2>. QED BY <2>2, <2>3
<1>2. ~(c < a)
  <2>. SUFFICES ASSUME c < a PROVE FALSE
    OBVIOUS
  <2>1. PICK k \in Nat : a = c + 1 + k
    <3>1. a - c - 1 \in Nat /\ a = c + 1 + (a - c - 1)
      OBVIOUS
    <3>. QED BY <3>1
  <2>2. a * n = c * n + n + k * n
    BY <2>1
  <2>3. k * n \in Nat /\ c * n \in Nat
    OBVIOUS
  <2>. QED BY <2>2, <2>3
<1>3. a = c
  BY <1>1, <1>2
<1>4. a * n \in Nat /\ c * n = a * n
  BY <1>3
<1>. QED BY <1>3, <1>4

(* A number of two digits is below the product of their bases.             *)
LEMMA DigitsInRange ==
    ASSUME NEW m \in Nat, NEW n \in Nat, NEW a \in 0 .. m - 1, NEW b \in 0 .. n - 1
    PROVE  a * n + b \in 0 .. m * n - 1
<1>1. PICK k \in Nat : m = a + 1 + k
  <2>1. m - a - 1 \in Nat /\ m = a + 1 + (m - a - 1)
    OBVIOUS
  <2>. QED BY <2>1
<1>2. m * n = a * n + n + k * n
  BY <1>1
<1>3. k * n \in Nat /\ a * n \in Nat
  OBVIOUS
<1>. QED BY <1>2, <1>3

(* The index is a number of five digits, in bases h, w, h and 3.           *)
LEMMA IndexByDigits ==
    ASSUME NEW w \in Nat, NEW h \in Nat,
           NEW v \in (0 .. w - 1) \X (0 .. h - 1),
           NEW o \in (0 .. w - 1) \X (0 .. h - 1), NEW s \in Stances
    PROVE  Index(w, h, v, o, s)
             = (((v[1] * h + v[2]) * w + o[1]) * h + o[2]) * 3 + s
<1>1. /\ v[1] \in Nat /\ v[2] \in Nat /\ o[1] \in Nat /\ o[2] \in Nat
      /\ s \in Nat
  BY DEF Stances, StanceCount
<1>2. \A a, b, c, d, e \in Nat :
        (((a * h + b) * w + c) * h + d) * 3 + e
          = a * h * w * h * 3 + b * w * h * 3 + c * h * 3 + d * 3 + e
  <2>. SUFFICES ASSUME NEW a \in Nat, NEW b \in Nat, NEW c \in Nat,
                       NEW d \in Nat, NEW e \in Nat
                PROVE  (((a * h + b) * w + c) * h + d) * 3 + e
          = a * h * w * h * 3 + b * w * h * 3 + c * h * 3 + d * 3 + e
    OBVIOUS
  <2>1. (a * h + b) * w = a * h * w + b * w
    OBVIOUS
  <2>2. ((a * h + b) * w + c) * h = a * h * w * h + b * w * h + c * h
    BY <2>1
  <2>3. /\ a * h * w * h \in Nat /\ b * w * h \in Nat /\ c * h \in Nat
    OBVIOUS
  <2>4. (a * h * w * h + b * w * h + c * h + d) * 3
          = a * h * w * h * 3 + b * w * h * 3 + c * h * 3 + d * 3
    BY <2>3
  <2>. QED BY <2>2, <2>4
<1>. QED BY <1>1, <1>2 DEF Index, StanceCount

(* isVisible stays inside a table of the size readCellVisibilities asks    *)
(* for, on a map of any size: no question of a trooper on the map reads    *)
(* beyond the vector.                                                      *)
THEOREM IndexInTable ==
    ASSUME NEW w \in Nat, NEW h \in Nat,
           NEW v \in (0 .. w - 1) \X (0 .. h - 1),
           NEW o \in (0 .. w - 1) \X (0 .. h - 1), NEW s \in Stances
    PROVE  Index(w, h, v, o, s) \in 0 .. w * h * w * h * StanceCount - 1
<1>1. v[1] * h + v[2] \in 0 .. w * h - 1
  BY DigitsInRange
<1>2. w * h \in Nat /\ w * h * w \in Nat /\ w * h * w * h \in Nat
  OBVIOUS
<1>3. (v[1] * h + v[2]) * w + o[1] \in 0 .. w * h * w - 1
  BY <1>1, <1>2, DigitsInRange
<1>4. ((v[1] * h + v[2]) * w + o[1]) * h + o[2] \in 0 .. w * h * w * h - 1
  BY <1>2, <1>3, DigitsInRange
<1>5. (((v[1] * h + v[2]) * w + o[1]) * h + o[2]) * 3 + s
        \in 0 .. w * h * w * h * 3 - 1
  <2>1. s \in 0 .. 3 - 1
    BY DEF Stances, StanceCount
  <2>. QED BY <1>2, <1>4, <2>1, DigitsInRange
<1>. QED BY <1>5, IndexByDigits DEF StanceCount

(* No two questions share an entry, on a map of any size, square or not:   *)
(* the five-dimensional table is addressed without overlap.                *)
THEOREM IndexUnique ==
    ASSUME NEW w \in Nat, NEW h \in Nat,
           NEW v \in (0 .. w - 1) \X (0 .. h - 1),
           NEW o \in (0 .. w - 1) \X (0 .. h - 1), NEW s \in Stances,
           NEW v2 \in (0 .. w - 1) \X (0 .. h - 1),
           NEW o2 \in (0 .. w - 1) \X (0 .. h - 1), NEW s2 \in Stances,
           Index(w, h, v, o, s) = Index(w, h, v2, o2, s2)
    PROVE  v = v2 /\ o = o2 /\ s = s2
<1> DEFINE A == v[1] * h + v[2]      C == v2[1] * h + v2[2]
           B == A * w + o[1]         D == C * w + o2[1]
           E == B * h + o[2]         F == D * h + o2[2]
<1>1. E * 3 + s = F * 3 + s2
  BY IndexByDigits
<1>2. /\ A \in Nat /\ B \in Nat /\ E \in Nat
      /\ C \in Nat /\ D \in Nat /\ F \in Nat
  <2>1. A \in Nat /\ C \in Nat
    BY DigitsInRange, w * h \in Nat
  <2>. HIDE DEF A, C
  <2>2. A * w \in Nat /\ C * w \in Nat
    BY <2>1
  <2>3. B \in Nat /\ D \in Nat
    BY <2>2
  <2>. HIDE DEF B, D
  <2>4. B * h \in Nat /\ D * h \in Nat
    BY <2>3
  <2>5. E \in Nat /\ F \in Nat
    BY <2>4
  <2>. QED BY <2>1, <2>3, <2>5
<1>3. E = F /\ s = s2
  <2>. HIDE DEF E, F
  <2>1. s \in 0 .. 3 - 1 /\ s2 \in 0 .. 3 - 1
    BY DEF Stances, StanceCount
  <2>. QED BY <1>1, <1>2, <2>1, DigitsUnique
<1>4. B = D /\ o[2] = o2[2]
  <2>1. B * h + o[2] = D * h + o2[2]
    BY <1>3
  <2>2. o[2] \in 0 .. h - 1 /\ o2[2] \in 0 .. h - 1
    OBVIOUS
  <2>. HIDE DEF B, D, E, F
  <2>. QED BY <1>2, <2>1, <2>2, DigitsUnique
<1>5. A = C /\ o[1] = o2[1]
  <2>1. A * w + o[1] = C * w + o2[1]
    BY <1>4
  <2>2. o[1] \in 0 .. w - 1 /\ o2[1] \in 0 .. w - 1
    OBVIOUS
  <2>. HIDE DEF A, B, C, D, E, F
  <2>. QED BY <1>2, <2>1, <2>2, DigitsUnique
<1>6. v[1] = v2[1] /\ v[2] = v2[2]
  <2> DEFINE a == v[1]   b == v[2]   c == v2[1]   d == v2[2]
  <2>1. a * h + b = c * h + d
    BY <1>5
  <2>2. a \in Nat /\ c \in Nat /\ b \in 0 .. h - 1 /\ d \in 0 .. h - 1
    OBVIOUS
  <2>3. a = c /\ b = d
    <3>. HIDE DEF a, b, c, d
    <3>. QED BY <2>1, <2>2, DigitsUnique
  <2>. QED BY <2>3
<1>. QED BY <1>3, <1>4, <1>5, <1>6
---------------------------------------------------------------------------------
(* The message, as a sequence *)

(* Every non-empty set of natural numbers has a least element.  The        *)
(* intervals 1 .. n of its elements are finite sets, and strict inclusion  *)
(* of finite sets is well-founded.                                         *)
LEMMA LeastNat ==
  ASSUME NEW T \in SUBSET Nat, T # {}
  PROVE  \E x \in T : \A y \in T : x <= y
<1>. DEFINE Intervals == {1 .. n : n \in T}
<1>1. Intervals # {} OBVIOUS
<1>2. \A n \in Nat : IsFiniteSet(1 .. n) BY FS_Interval
<1>3. Intervals \subseteq FiniteSubsetsOf(Nat) BY <1>2 DEF FiniteSubsetsOf
<1>4. PICK b \in Intervals :
        \A a \in Intervals : ~(<<a, b>> \in StrictSubsetOrdering(Nat))
  BY WFMin, FS_StrictSubsetOrderingWellFounded, <1>1, <1>3
<1>5. PICK x \in T : b = 1 .. x OBVIOUS
<1>6. ASSUME NEW y \in T PROVE x <= y
  <2>1. <<1 .. y, 1 .. x>> \notin StrictSubsetOrdering(Nat) BY <1>4, <1>5
  <2>2. SUFFICES ASSUME y < x PROVE FALSE OBVIOUS
  <2>3. (1 .. y) \subseteq (1 .. x) BY <2>2
  <2>4. x \in 1 .. x /\ x \notin 1 .. y BY <2>2
  <2>. QED BY <2>1, <2>3, <2>4 DEF StrictSubsetOrdering
<1>. QED BY <1>6

(* What the recursion in FlattenSeq computes: there is a function that     *)
(* satisfies its equation.                                                 *)
LEMMA FlattenDef ==
  ASSUME NEW n \in Nat \ {0}, NEW f
  PROVE  \E g : /\ g = [ i \in 1 .. n |->
                           IF i = 1 THEN f[i] ELSE g[i - 1] \o f[i] ]
                /\ DOMAIN f = 1 .. n /\ Len(f) = n => FlattenSeq(f) = g[n]
<1>. DEFINE Body(g, i) == IF i = 1 THEN f[i] ELSE g[i - 1] \o f[i]
            Upto(m) == \E g : g = [i \in 1 .. m |-> Body(g, i)]
            Bad == {m \in Nat : ~Upto(m)}
<1>1. Upto(n)
  <2>1. SUFFICES ASSUME Bad # {} PROVE FALSE OBVIOUS
  <2>2. PICK m \in Bad : \A k \in Bad : m <= k
    <3>. HIDE DEF Bad
    <3>1. Bad \in SUBSET Nat BY DEF Bad
    <3>. QED BY <2>1, <3>1, LeastNat
  <2>3. CASE m = 0
    <3>. DEFINE g == [i \in 1 .. 0 |-> << >>]
    <3>1. g = [i \in 1 .. 0 |-> Body(g, i)] OBVIOUS
    <3>. QED BY <2>2, <2>3, <3>1
  <2>4. CASE m # 0
    <3>1. m - 1 \in Nat /\ m - 1 \notin Bad
      <4>1. m \in Nat BY DEF Bad
      <4>2. m - 1 \in Nat /\ ~(m <= m - 1) BY <2>4, <4>1
      <4>. HIDE DEF Bad
      <4>. QED BY <2>2, <4>2
    <3>2. PICK g : g = [i \in 1 .. m - 1 |-> Body(g, i)] BY <3>1
    <3>. DEFINE h == [i \in 1 .. m |-> Body(g, i)]
    <3>3. ASSUME NEW i \in 1 .. m, i # 1 PROVE h[i - 1] = g[i - 1]
      <4>1. i - 1 \in 1 .. m - 1 /\ i - 1 \in 1 .. m BY <2>2, <3>3
      <4>. QED BY <3>2, <4>1
    <3>4. ASSUME NEW i \in 1 .. m PROVE Body(g, i) = Body(h, i)
      BY <3>3, <3>4
    <3>. HIDE DEF Body
    <3>5. h = [i \in 1 .. m |-> Body(h, i)] BY <3>4
    <3>. QED BY <2>2, <3>5
  <2>. QED BY <2>3, <2>4
<1>2. ASSUME DOMAIN f = 1 .. n, Len(f) = n
      PROVE  \E g : g = [i \in 1 .. n |-> Body(g, i)] /\ FlattenSeq(f) = g[n]
  <2>1. PICK g : g = [i \in 1 .. n |-> Body(g, i)] BY <1>1
  <2>. QED BY <1>2, <2>1 DEF FlattenSeq
<1>. QED BY <1>1, <1>2

(* An element of the i-th of n rows of length L has its place among the    *)
(* first n * L numbers.                                                    *)
LEMMA Place ==
  ASSUME NEW n \in Nat, NEW L \in Nat, NEW i \in 0 .. n - 1, NEW j \in 1 .. L
  PROVE  i * L + j \in 1 .. n * L
<1>1. j - 1 \in 0 .. L - 1 OBVIOUS
<1>2. i * L + (j - 1) \in 0 .. n * L - 1 BY <1>1, DigitsInRange
<1>3. i * L \in Nat /\ n * L \in Nat OBVIOUS
<1>. DEFINE a == i * L
            b == n * L
<1>. HIDE DEF a, b
<1>4. a + (j - 1) \in 0 .. b - 1 /\ a \in Nat /\ b \in Nat
  BY <1>2, <1>3 DEF a, b
<1>5. a + j \in 1 .. b BY <1>4
<1>. QED BY <1>5 DEF a, b

(* Rows(t, f, n, L): t is made of the n rows f[1], f[2], ... of length L.  *)
Rows(S, t, f, n, L) ==
  /\ t \in Seq(S) /\ Len(t) = n * L
  /\ \A i \in 0 .. n - 1 : \A j \in 1 .. L : t[i * L + j] = f[i + 1][j]

(* One row more.                                                           *)
LEMMA RowMore ==
  ASSUME NEW S, NEW n \in Nat, NEW L \in Nat, NEW f, NEW t, Rows(S, t, f, n, L),
         f[n + 1] \in Seq(S), Len(f[n + 1]) = L
  PROVE  Rows(S, t \o f[n + 1], f, n + 1, L)
<1>. DEFINE r == f[n + 1]
            u == t \o r
            m == n * L
<1>1. r \in Seq(S) /\ Len(r) = L /\ t \in Seq(S) /\ Len(t) = m /\ m \in Nat
  BY DEF Rows
<1>2. (n + 1) * L = m + L OBVIOUS
<1>. HIDE DEF r
<1>3. /\ u \in Seq(S) /\ Len(u) = m + L
      /\ \A i \in 1 .. m + L : u[i] = IF i <= m THEN t[i] ELSE r[i - m]
  <2>1. /\ t \o r \in Seq(S) /\ Len(t \o r) = Len(t) + Len(r)
        /\ \A i \in 1 .. Len(t) + Len(r) :
             (t \o r)[i] = IF i <= Len(t) THEN t[i] ELSE r[i - Len(t)]
    BY <1>1, ConcatProperties
  <2>. QED BY <1>1, <2>1
<1>. HIDE DEF u
<1>4. ASSUME NEW i \in 0 .. n, NEW j \in 1 .. L PROVE u[i * L + j] = f[i + 1][j]
  <2>1. CASE i = n
    <3>1. i * L = m BY <2>1
    <3>. HIDE DEF m
    <3>2. m + j \in 1 .. m + L /\ ~(m + j <= m) /\ (m + j) - m = j BY <1>1
    <3>. QED BY <1>3, <2>1, <3>1, <3>2 DEF r
  <2>2. CASE i # n
    <3>1. i \in 0 .. n - 1 BY <2>2
    <3>2. i * L + j \in 1 .. m BY <3>1, Place
    <3>3. t[i * L + j] = f[i + 1][j] BY <3>1 DEF Rows
    <3>. HIDE DEF m
    <3>4. \A p \in 1 .. m : u[p] = t[p] BY <1>1, <1>3
    <3>. QED BY <3>2, <3>3, <3>4
  <2>. QED BY <2>1, <2>2
<1>5. n + 1 - 1 = n OBVIOUS
<1>6. u \in Seq(S) /\ Len(u) = (n + 1) * L BY <1>2, <1>3
<1>7. Rows(S, u, f, n + 1, L) BY <1>4, <1>5, <1>6 DEF Rows
<1>. QED BY <1>7 DEF u, r

(* The sequences FlattenSeq puts one behind the other, if all are as long. *)
LEMMA FlattenEven ==
  ASSUME NEW S, NEW n \in Nat, NEW L \in Nat, NEW f \in [1 .. n -> Seq(S)],
         \A i \in 1 .. n : Len(f[i]) = L
  PROVE  Rows(S, FlattenSeq(f), f, n, L)
<1>1. f \in Seq(Seq(S)) /\ Len(f) = n /\ DOMAIN f = 1 .. n OBVIOUS
<1>2. CASE n = 0
  <2>1. f = << >> /\ f \in Seq(S) /\ Len(f) = 0 BY <1>2
  <2>2. FlattenSeq(f) = f BY <2>1 DEF FlattenSeq
  <2>3. 0 * L = 0 /\ 0 .. 0 - 1 = {} OBVIOUS
  <2>4. Rows(S, f, f, 0, L) BY <2>1, <2>3 DEF Rows
  <2>. QED BY <1>2, <2>2, <2>4
<1>3. CASE n # 0
  <2>1. n \in Nat \ {0} BY <1>3
  <2>2. PICK g : /\ g = [ i \in 1 .. n |->
                           IF i = 1 THEN f[i] ELSE g[i - 1] \o f[i] ]
                 /\ FlattenSeq(f) = g[n]
    BY <1>1, <2>1, FlattenDef
  <2>. DEFINE Body(i) == IF i = 1 THEN f[i] ELSE g[i - 1] \o f[i]
  <2>3. g = [i \in 1 .. n |-> Body(i)] BY <2>2
  <2>. HIDE DEF Body
  <2>4. \A i \in 1 .. n : g[i] = Body(i) BY <2>3
  <2>. DEFINE Bad == {m \in 1 .. n : ~Rows(S, g[m], f, m, L)}
  <2>5. Bad = {}
    <3>1. SUFFICES ASSUME Bad # {} PROVE FALSE OBVIOUS
    <3>2. PICK m \in Bad : \A k \in Bad : m <= k
      <4>1. Bad \in SUBSET Nat OBVIOUS
      <4>. HIDE DEF Bad
      <4>. QED BY <3>1, <4>1, LeastNat
    <3>3. m \in 1 .. n /\ f[m] \in Seq(S) /\ Len(f[m]) = L OBVIOUS
    <3>4. CASE m = 1
      <4>1. g[1] = f[1] BY <2>4, <3>3, <3>4 DEF Body
      <4>2. 1 * L = L /\ 0 * L = 0 OBVIOUS
      <4>3. \A i \in 0 .. 1 - 1 : i = 0 OBVIOUS
      <4>4. \A i \in 0 .. 1 - 1 : \A j \in 1 .. L : i * L + j = j /\ i + 1 = 1
        BY <4>2, <4>3
      <4>5. Rows(S, g[1], f, 1, L) BY <3>3, <3>4, <4>1, <4>2, <4>4 DEF Rows
      <4>. QED BY <3>4, <4>5
    <3>5. CASE m # 1
      <4>1. m - 1 \in 1 .. n /\ m - 1 \in Nat /\ m - 1 + 1 = m /\ ~(m <= m - 1)
        BY <3>3, <3>5
      <4>2. Rows(S, g[m - 1], f, m - 1, L) BY <3>2, <4>1
      <4>3. g[m] = g[m - 1] \o f[m] BY <2>4, <3>3, <3>5 DEF Body
      <4>. HIDE DEF Bad
      <4>4. Rows(S, g[m - 1] \o f[m], f, m, L)
        BY <3>3, <4>1, <4>2, RowMore
      <4>. QED BY <4>3, <4>4 DEF Bad
    <3>. QED BY <3>4, <3>5
  <2>6. n \in 1 .. n BY <2>1
  <2>7. Rows(S, g[n], f, n, L) BY <2>5, <2>6
  <2>. QED BY <2>2, <2>7
<1>. QED BY <1>2, <1>3

(* f[0], ..., f[n - 1] are sequences of length L; t is made of them.       *)
Even(S, f, n, L) ==
  /\ f \in [0 .. n - 1 -> Seq(S)] /\ n \in Nat /\ L \in Nat
  /\ \A i \in 0 .. n - 1 : Len(f[i]) = L

(* t is f[0], ..., f[n - 1], one behind the other.                         *)
Laid(S, t, f, n, L) ==
  /\ t \in Seq(S) /\ Len(t) = n * L
  /\ \A i \in 0 .. n - 1 : \A j \in 1 .. L : t[i * L + j] = f[i][j]

(* Loop puts them one behind the other.                                    *)
LEMMA LoopEven ==
  ASSUME NEW S, NEW n, NEW L, NEW f, Even(S, f, n, L)
  PROVE  Laid(S, Loop(f), f, n, L)
<1>. DEFINE r == [i \in 1 .. n |-> f[i - 1]]
<1>. USE DEF Even
<1>1. Cardinality(0 .. n - 1) = n
  <2>1. Cardinality(0 .. n - 1) = IF 0 > n - 1 THEN 0 ELSE n - 1 - 0 + 1
    BY FS_Interval
  <2>. QED BY <2>1
<1>2. DOMAIN f = 0 .. n - 1 OBVIOUS
<1>3. Loop(f) = FlattenSeq(r) BY <1>1, <1>2 DEF Loop
<1>4. \A i \in 1 .. n : i - 1 \in 0 .. n - 1 OBVIOUS
<1>5. r \in [1 .. n -> Seq(S)] /\ \A i \in 1 .. n : Len(r[i]) = L
  BY <1>4
<1>6. \A i \in 0 .. n - 1 : r[i + 1] = f[i]
  <2>1. \A i \in 0 .. n - 1 : i + 1 \in 1 .. n /\ i + 1 - 1 = i OBVIOUS
  <2>. QED BY <2>1
<1>. HIDE DEF r
<1>7. Rows(S, FlattenSeq(r), r, n, L) BY <1>5, FlattenEven
<1>. QED BY <1>3, <1>6, <1>7 DEF Rows, Laid

(* The entries a byte of the table can stand for,                          *)
EntrySet == [viewer: Nat \X Nat, object: Nat \X Nat, stance: Nat]

(* ... and what a place in it can hold: a size, a cell or an entry.        *)
Symbol == Int \union (Nat \X Nat) \union EntrySet

(* The loop over the columns of the object, and those inside it.           *)
RowsOf(w, h, x1, y1) ==
  Loop([x2 \in 0 .. w - 1 |-> Loop([y2 \in 0 .. h - 1 |->
    [i \in 1 .. StanceCount |-> Entry(x1, y1, x2, y2, i - 1)]])])

(* t holds the entries of one viewer, in the order of the loops.           *)
Seen(t, w, h, x1, y1) ==
  \A x2 \in 0 .. w - 1, y2 \in 0 .. h - 1, s \in 0 .. 2 :
    t[x2 * (h * 3) + (y2 * 3 + (s + 1))] = Entry(x1, y1, x2, y2, s)

(* The entries of one viewer, in their order.                              *)
LEMMA RowsOfOne ==
  ASSUME NEW w \in Nat, NEW h \in Nat, NEW x1 \in Nat, NEW y1 \in Nat
  PROVE  /\ RowsOf(w, h, x1, y1) \in Seq(EntrySet)
         /\ Len(RowsOf(w, h, x1, y1)) = w * (h * 3)
         /\ Seen(RowsOf(w, h, x1, y1), w, h, x1, y1)
<1>. DEFINE Cell(x2, y2) == [i \in 1 .. 3 |-> Entry(x1, y1, x2, y2, i - 1)]
            Line(x2) == [y2 \in 0 .. h - 1 |-> Cell(x2, y2)]
            Lines == [x2 \in 0 .. w - 1 |-> Loop(Line(x2))]
<1>1. ASSUME NEW x2 \in 0 .. w - 1, NEW y2 \in 0 .. h - 1
      PROVE  /\ Cell(x2, y2) \in Seq(EntrySet) /\ Len(Cell(x2, y2)) = 3
             /\ \A s \in 0 .. 2 : Cell(x2, y2)[s + 1] = Entry(x1, y1, x2, y2, s)
  <2>1. \A i \in 1 .. 3 : Entry(x1, y1, x2, y2, i - 1) \in EntrySet
    BY DEF Entry, EntrySet
  <2>2. \A s \in 0 .. 2 : s + 1 \in 1 .. 3 /\ s + 1 - 1 = s OBVIOUS
  <2>. QED BY <2>1, <2>2
<1>. HIDE DEF Cell
<1>2. ASSUME NEW x2 \in 0 .. w - 1
      PROVE  /\ Loop(Line(x2)) \in Seq(EntrySet)
             /\ Len(Loop(Line(x2))) = h * 3
             /\ \A y2 \in 0 .. h - 1 : \A j \in 1 .. 3 :
                  Loop(Line(x2))[y2 * 3 + j] = Cell(x2, y2)[j]
  <2>1. /\ Line(x2) \in [0 .. h - 1 -> Seq(EntrySet)]
        /\ \A y2 \in 0 .. h - 1 : Len(Line(x2)[y2]) = 3
        /\ \A y2 \in 0 .. h - 1 : Line(x2)[y2] = Cell(x2, y2)
        /\ 3 \in Nat
    BY <1>1
  <2>2. Even(EntrySet, Line(x2), h, 3) BY <2>1 DEF Even
  <2>. HIDE DEF Line
  <2>3. Laid(EntrySet, Loop(Line(x2)), Line(x2), h, 3) BY <2>2, LoopEven
  <2>. QED BY <2>1, <2>3 DEF Laid
<1>. HIDE DEF Line
<1>3. /\ Loop(Lines) \in Seq(EntrySet) /\ Len(Loop(Lines)) = w * (h * 3)
      /\ \A x2 \in 0 .. w - 1 : \A j \in 1 .. h * 3 :
           Loop(Lines)[x2 * (h * 3) + j] = Loop(Line(x2))[j]
  <2>1. /\ Lines \in [0 .. w - 1 -> Seq(EntrySet)]
        /\ \A x2 \in 0 .. w - 1 :
             Len(Lines[x2]) = h * 3 /\ Lines[x2] = Loop(Line(x2))
    BY <1>2
  <2>2. h * 3 \in Nat OBVIOUS
  <2>3. Even(EntrySet, Lines, w, h * 3) BY <2>1, <2>2 DEF Even
  <2>. HIDE DEF Lines
  <2>4. Laid(EntrySet, Loop(Lines), Lines, w, h * 3) BY <2>3, LoopEven
  <2>. QED BY <2>1, <2>4 DEF Laid
<1>4. RowsOf(w, h, x1, y1) = Loop(Lines)
  BY DEF RowsOf, Line, Cell, StanceCount
<1>. HIDE DEF Lines
<1>5. ASSUME NEW x2 \in 0 .. w - 1, NEW y2 \in 0 .. h - 1, NEW s \in 0 .. 2
      PROVE  Loop(Lines)[x2 * (h * 3) + (y2 * 3 + (s + 1))]
               = Entry(x1, y1, x2, y2, s)
  <2>1. s + 1 \in 1 .. 3 OBVIOUS
  <2>2. y2 * 3 + (s + 1) \in 1 .. h * 3 BY <2>1, Place
  <2>3. Loop(Line(x2))[y2 * 3 + (s + 1)] = Entry(x1, y1, x2, y2, s)
    BY <1>1, <1>2, <2>1
  <2>. QED BY <1>3, <2>2, <2>3
<1>. QED BY <1>3, <1>4, <1>5 DEF Seen

(* Every entry of the sequence t is where Index looks for it.              *)
InPlace(t, w, h) ==
  \A x1, x2 \in 0 .. w - 1, y1, y2 \in 0 .. h - 1, s \in 0 .. 2 :
    t[Index(w, h, <<x1, y1>>, <<x2, y2>>, s) + 1] = Entry(x1, y1, x2, y2, s)

(* The place of every entry in the message is the index isVisible          *)
(* computes for it.                                                        *)
LEMMA EntriesInOrder ==
  ASSUME NEW w \in Nat, NEW h \in Nat
  PROVE  /\ Entries(w, h) \in Seq(EntrySet)
         /\ Len(Entries(w, h)) = w * h * w * h * 3
         /\ InPlace(Entries(w, h), w, h)
<1>. DEFINE n == w * (h * 3)
            Line(x1) == [y1 \in 0 .. h - 1 |-> RowsOf(w, h, x1, y1)]
            Lines == [x1 \in 0 .. w - 1 |-> Loop(Line(x1))]
<1>1. n \in Nat /\ h * n \in Nat
  <2>1. n \in Nat OBVIOUS
  <2>. HIDE DEF n
  <2>. QED BY <2>1
<1>. HIDE DEF n
<1>2. ASSUME NEW x1 \in 0 .. w - 1
      PROVE  /\ Loop(Line(x1)) \in Seq(EntrySet)
             /\ Len(Loop(Line(x1))) = h * n
             /\ \A y1 \in 0 .. h - 1 : \A j \in 1 .. n :
                  Loop(Line(x1))[y1 * n + j] = RowsOf(w, h, x1, y1)[j]
  <2>1. \A y1 \in 0 .. h - 1 :
          RowsOf(w, h, x1, y1) \in Seq(EntrySet) /\ Len(RowsOf(w, h, x1, y1)) = n
    BY RowsOfOne DEF n
  <2>2. /\ Line(x1) \in [0 .. h - 1 -> Seq(EntrySet)]
        /\ \A y1 \in 0 .. h - 1 :
             Len(Line(x1)[y1]) = n /\ Line(x1)[y1] = RowsOf(w, h, x1, y1)
    BY <2>1
  <2>3. Even(EntrySet, Line(x1), h, n) BY <1>1, <2>2 DEF Even
  <2>. HIDE DEF Line
  <2>4. Laid(EntrySet, Loop(Line(x1)), Line(x1), h, n) BY <2>3, LoopEven
  <2>. QED BY <2>2, <2>4 DEF Laid
<1>. HIDE DEF Line
<1>3. /\ Loop(Lines) \in Seq(EntrySet) /\ Len(Loop(Lines)) = w * (h * n)
      /\ \A x1 \in 0 .. w - 1 : \A j \in 1 .. h * n :
           Loop(Lines)[x1 * (h * n) + j] = Loop(Line(x1))[j]
  <2>1. /\ Lines \in [0 .. w - 1 -> Seq(EntrySet)]
        /\ \A x1 \in 0 .. w - 1 :
             Len(Lines[x1]) = h * n /\ Lines[x1] = Loop(Line(x1))
    BY <1>2
  <2>2. Even(EntrySet, Lines, w, h * n) BY <1>1, <2>1 DEF Even
  <2>. HIDE DEF Lines
  <2>3. Laid(EntrySet, Loop(Lines), Lines, w, h * n) BY <2>2, LoopEven
  <2>. QED BY <2>1, <2>3 DEF Laid
<1>4. Entries(w, h) = Loop(Lines) BY DEF Entries, Line, RowsOf
<1>. HIDE DEF Lines
<1>5. w * (h * n) = w * h * w * h * 3
  <2>1. n = w * h * 3 BY DEF n
  <2>2. h * n = h * w * h * 3 BY <2>1
  <2>. QED BY <2>2
<1>6. ASSUME NEW x1 \in 0 .. w - 1, NEW x2 \in 0 .. w - 1,
             NEW y1 \in 0 .. h - 1, NEW y2 \in 0 .. h - 1, NEW s \in 0 .. 2
      PROVE  Loop(Lines)[Index(w, h, <<x1, y1>>, <<x2, y2>>, s) + 1]
               = Entry(x1, y1, x2, y2, s)
  <2>. DEFINE k == x2 * (h * 3) + (y2 * 3 + (s + 1))
  <2>1. y2 * 3 + (s + 1) \in 1 .. h * 3
    <3>1. s + 1 \in 1 .. 3 OBVIOUS
    <3>. QED BY <3>1, Place
  <2>2. k \in 1 .. n
    <3>1. h * 3 \in Nat OBVIOUS
    <3>. QED BY <2>1, <3>1, Place DEF n
  <2>3. y1 * n + k \in 1 .. h * n BY <1>1, <2>2, Place
  <2>4. RowsOf(w, h, x1, y1)[k] = Entry(x1, y1, x2, y2, s)
    <3>1. x1 \in Nat /\ y1 \in Nat OBVIOUS
    <3>2. Seen(RowsOf(w, h, x1, y1), w, h, x1, y1) BY <3>1, RowsOfOne
    <3>. QED BY <3>2 DEF Seen
  <2>. DEFINE i == Index(w, h, <<x1, y1>>, <<x2, y2>>, s)
  <2>5. x1 * (h * n) + (y1 * n + k) = i + 1
    <3>1. y1 * n = y1 * w * h * 3 BY DEF n
    <3>2. x1 * (h * n) = x1 * h * w * h * 3
      <4>1. h * n = h * w * h * 3 BY DEF n
      <4>2. x1 * (h * w * h * 3) = x1 * h * w * h * 3 OBVIOUS
      <4>. QED BY <4>1, <4>2
    <3>3. x2 * (h * 3) = x2 * h * 3 OBVIOUS
    <3>4. i = x1 * h * w * h * 3 + y1 * w * h * 3 + x2 * h * 3 + y2 * 3 + s
      BY DEF Index, StanceCount
    <3>5. /\ x1 * h * w * h * 3 \in Nat /\ y1 * w * h * 3 \in Nat
          /\ x2 * h * 3 \in Nat /\ y2 * 3 \in Nat
      OBVIOUS
    <3>. DEFINE a == x1 * h * w * h * 3
                b == y1 * w * h * 3
                c == x2 * h * 3
                d == y2 * 3
    <3>. HIDE DEF i
    <3>6. x1 * (h * n) = a /\ y1 * n = b /\ x2 * (h * 3) = c
          /\ i = a + b + c + d + s /\ a \in Nat /\ b \in Nat /\ c \in Nat
          /\ d \in Nat /\ k = c + (d + (s + 1))
      BY <3>1, <3>2, <3>3, <3>4, <3>5
    <3>. HIDE DEF a, b, c, d, k
    <3>. QED BY <3>6
  <2>. HIDE DEF k, i
  <2>6. Loop(Lines)[x1 * (h * n) + (y1 * n + k)] = Entry(x1, y1, x2, y2, s)
    BY <1>2, <1>3, <2>2, <2>3, <2>4
  <2>. QED BY <2>5, <2>6 DEF i
<1>7. InPlace(Loop(Lines), w, h) BY <1>6 DEF InPlace
<1>. QED BY <1>3, <1>4, <1>5, <1>7

(* A column of the map: its height and its cells.                          *)
LEMMA ColumnFields ==
  ASSUME NEW x \in Nat, NEW h \in Nat
  PROVE  /\ Column(x, h) \in Seq(Symbol) /\ Len(Column(x, h)) = h + 1
         /\ Column(x, h)[1] = h
         /\ \A y \in 1 .. h : Column(x, h)[y + 1] = <<x, y - 1>>
<1>. DEFINE c == [y \in 1 .. h |-> <<x, y - 1>>]
<1>1. c \in [1 .. h -> Nat \X Nat] /\ \A y \in 1 .. h : c[y] = <<x, y - 1>>
  OBVIOUS
<1>2. c \in Seq(Symbol) /\ Len(c) = h
  <2>1. c \in [1 .. h -> Symbol] BY <1>1 DEF Symbol
  <2>. HIDE DEF c
  <2>. QED BY <2>1
<1>3. << h >> \in Seq(Symbol) /\ Len(<< h >>) = 1 /\ << h >>[1] = h
  BY DEF Symbol
<1>. HIDE DEF c
<1>4. /\ << h >> \o c \in Seq(Symbol) /\ Len(<< h >> \o c) = 1 + h
      /\ \A i \in 1 .. 1 + h :
           (<< h >> \o c)[i] = IF i <= 1 THEN << h >>[i] ELSE c[i - 1]
  <2>. DEFINE s == << h >>
  <2>1. s \in Seq(Symbol) /\ Len(s) = 1 BY <1>3
  <2>. HIDE DEF s
  <2>2. /\ s \o c \in Seq(Symbol) /\ Len(s \o c) = Len(s) + Len(c)
        /\ \A i \in 1 .. Len(s) + Len(c) : (s \o c)[i] =
             IF i <= Len(s) THEN s[i] ELSE c[i - Len(s)]
    BY <1>2, <2>1, ConcatProperties
  <2>3. /\ s \o c \in Seq(Symbol) /\ Len(s \o c) = 1 + h
        /\ \A i \in 1 .. 1 + h :
             (s \o c)[i] = IF i <= 1 THEN s[i] ELSE c[i - 1]
    BY <1>2, <2>1, <2>2
  <2>. QED BY <2>3 DEF s
<1>5. Column(x, h) = << h >> \o c BY DEF Column, c
<1>. DEFINE k == Column(x, h)
<1>6. /\ k \in Seq(Symbol) /\ Len(k) = 1 + h
      /\ \A i \in 1 .. 1 + h : k[i] = IF i <= 1 THEN << h >>[i] ELSE c[i - 1]
  BY <1>4, <1>5
<1>. HIDE DEF k
<1>7. k[1] = h BY <1>3, <1>6
<1>8. ASSUME NEW y \in 1 .. h PROVE k[y + 1] = <<x, y - 1>>
  <2>1. y + 1 \in 1 .. 1 + h /\ ~(y + 1 <= 1) /\ y + 1 - 1 = y OBVIOUS
  <2>. QED BY <1>1, <1>6, <2>1
<1>. QED BY <1>6, <1>7, <1>8 DEF k

(* t holds the columns from x on, n of them.                               *)
Columns(t, x, n, h) ==
  \A i \in 0 .. n - 1 : \A j \in 1 .. h + 1 :
    t[i * (h + 1) + j] = Column(x + i, h)[j]

(* The map's columns, one after the other.                                 *)
LEMMA ColumnsInOrder ==
  ASSUME NEW w \in Nat, NEW h \in Nat, NEW t,
         t = Loop([x \in 0 .. w - 1 |-> Column(x, h)])
  PROVE  t \in Seq(Symbol) /\ Len(t) = w * (h + 1) /\ Columns(t, 0, w, h)
<1>. DEFINE f == [x \in 0 .. w - 1 |-> Column(x, h)]
<1>1. \A x \in 0 .. w - 1 :
        Column(x, h) \in Seq(Symbol) /\ Len(Column(x, h)) = h + 1
  BY ColumnFields
<1>2. /\ f \in [0 .. w - 1 -> Seq(Symbol)]
      /\ \A x \in 0 .. w - 1 : f[x] = Column(x, h) /\ Len(f[x]) = h + 1
  BY <1>1
<1>3. Even(Symbol, f, w, h + 1) BY <1>2 DEF Even
<1>4. t = Loop(f) OBVIOUS
<1>. HIDE DEF f
<1>5. Laid(Symbol, t, f, w, h + 1) BY <1>3, <1>4, LoopEven
<1>6. ASSUME NEW i \in 0 .. w - 1 PROVE f[i] = Column(0 + i, h)
  <2>1. 0 + i = i OBVIOUS
  <2>. QED BY <1>2, <2>1
<1>7. Columns(t, 0, w, h) BY <1>5, <1>6 DEF Laid, Columns
<1>. QED BY <1>5, <1>7 DEF Laid

(* What follows the map in a message, complete or not.                     *)
Tails(w, h) ==
  { << -1 >>, << w, -1 >>, << w, h, -1 >>,
    <<w, h, StanceCount>> \o Entries(w, h) }

(* t is n columns of the map from column x on, and what follows it, m      *)
(* symbols of which are gone.                                              *)
Remaining(t, x, n, m, tail, h) ==
  /\ t \in Seq(Symbol) /\ Len(t) = n * (h + 1) + (Len(tail) - m)
  /\ Columns(t, x, n, h)
  /\ \A j \in 1 .. Len(tail) - m : t[n * (h + 1) + j] = tail[m + j]

(* What is left of a sequence without its beginning.                       *)
LEMMA Dropped ==
  ASSUME NEW S, NEW s \in Seq(S), NEW n \in 0 .. Len(s)
  PROVE  /\ SubSeq(s, n + 1, Len(s)) \in Seq(S)
         /\ Len(SubSeq(s, n + 1, Len(s))) = Len(s) - n
         /\ \A i \in 1 .. Len(s) - n : SubSeq(s, n + 1, Len(s))[i] = s[n + i]
<1>. DEFINE l == Len(s)
<1>1. l \in Nat /\ n \in 0 .. l /\ \A i \in n + 1 .. l : s[i] \in S OBVIOUS
<1>. HIDE DEF l
<1>2. /\ SubSeq(s, n + 1, l) \in Seq(S)
      /\ Len(SubSeq(s, n + 1, l)) =
           IF n + 1 <= l THEN l - (n + 1) + 1 ELSE 0
      /\ \A i \in 1 .. l - (n + 1) + 1 :
           SubSeq(s, n + 1, l)[i] = s[n + 1 + i - 1]
  BY <1>1, SubSeqProperties
<1>3. Len(SubSeq(s, n + 1, l)) = l - n BY <1>1, <1>2
<1>4. ASSUME NEW i \in 1 .. l - n PROVE SubSeq(s, n + 1, l)[i] = s[n + i]
  <2>1. i \in 1 .. l - (n + 1) + 1 /\ n + 1 + i - 1 = n + i BY <1>1
  <2>. QED BY <1>2, <2>1
<1>. QED BY <1>2, <1>3, <1>4 DEF l

(* Symbols of a message that are put one behind the other.                 *)
LEMMA SymbolsJoined ==
  ASSUME NEW s \in Seq(Symbol), NEW t \in Seq(Symbol)
  PROVE  /\ s \o t \in Seq(Symbol) /\ Len(s \o t) = Len(s) + Len(t)
         /\ \A i \in 1 .. Len(s) : (s \o t)[i] = s[i]
         /\ \A i \in 1 .. Len(t) : (s \o t)[Len(s) + i] = t[i]
OBVIOUS

(* The map: the number of its columns, and its columns.                    *)
LEMMA MapFields ==
  ASSUME NEW w \in Nat, NEW h \in Nat
  PROVE  /\ Map(w, h) \in Seq(Symbol) /\ Len(Map(w, h)) = 1 + w * (h + 1)
         /\ Map(w, h)[1] = w
         /\ \E t : /\ Columns(t, 0, w, h)
                   /\ \A i \in 1 .. w * (h + 1) : Map(w, h)[1 + i] = t[i]
<1>. DEFINE t == Loop([x \in 0 .. w - 1 |-> Column(x, h)])
            s == << w >>
<1>1. t \in Seq(Symbol) /\ Len(t) = w * (h + 1) /\ Columns(t, 0, w, h)
  BY ColumnsInOrder
<1>2. s \in Seq(Symbol) /\ Len(s) = 1 /\ s[1] = w BY DEF Symbol
<1>3. Map(w, h) = s \o t BY DEF Map
<1>. HIDE DEF s, t
<1>4. /\ s \o t \in Seq(Symbol) /\ Len(s \o t) = 1 + w * (h + 1)
      /\ (s \o t)[1] = s[1]
      /\ \A i \in 1 .. w * (h + 1) : (s \o t)[1 + i] = t[i]
  <2>. DEFINE n == w * (h + 1)
  <2>1. Len(t) = n /\ 1 \in 1 .. 1 BY <1>1
  <2>2. /\ s \o t \in Seq(Symbol) /\ Len(s \o t) = Len(s) + Len(t)
        /\ \A i \in 1 .. Len(s) : (s \o t)[i] = s[i]
        /\ \A i \in 1 .. Len(t) : (s \o t)[Len(s) + i] = t[i]
    BY <1>1, <1>2, SymbolsJoined
  <2>. HIDE DEF n
  <2>3. /\ s \o t \in Seq(Symbol) /\ Len(s \o t) = 1 + n
        /\ (s \o t)[1] = s[1]
        /\ \A i \in 1 .. n : (s \o t)[1 + i] = t[i]
    BY <1>2, <2>1, <2>2
  <2>. QED BY <2>3 DEF n
<1>. QED BY <1>1, <1>2, <1>3, <1>4

(* A message is cut off before the map has begun, or it is the map and     *)
(* what follows it.                                                        *)
LEMMA WholeMessage ==
  ASSUME NEW w \in Nat, NEW h \in Nat,
         NEW m \in {MapMessage(w, h)} \union Truncated(w, h)
  PROVE  \/ m = << -1 >> \/ m = << w, -1 >>
         \/ \E tail \in Tails(w, h) :
              tail \in Seq(Symbol) /\ m = Map(w, h) \o tail
<1>1. Entries(w, h) \in Seq(Symbol)
  <2>1. Entries(w, h) \in Seq(EntrySet) BY EntriesInOrder
  <2>2. EntrySet \subseteq Symbol BY DEF Symbol
  <2>. QED BY <2>1, <2>2
<1>. DEFINE x == <<w, h, StanceCount>>
            e == Entries(w, h)
            map == Map(w, h)
<1>2. x \in Seq(Symbol) /\ e \in Seq(Symbol) /\ map \in Seq(Symbol)
  <2>1. x \in Seq(Symbol) BY DEF Symbol, StanceCount
  <2>2. map \in Seq(Symbol) BY MapFields
  <2>. QED BY <1>1, <2>1, <2>2
<1>3. CASE m = MapMessage(w, h)
  <2>1. m = (map \o x) \o e BY <1>3 DEF MapMessage
  <2>2. x \o e \in Tails(w, h) BY DEF Tails
  <2>. HIDE DEF x, e, map
  <2>3. (map \o x) \o e = map \o (x \o e) BY <1>2
  <2>4. x \o e \in Seq(Symbol) BY <1>2
  <2>. QED BY <2>1, <2>2, <2>3, <2>4 DEF map
<1>4. CASE m \in Truncated(w, h)
  <2>1. /\ << -1 >> \in Seq(Symbol) /\ << w, -1 >> \in Seq(Symbol)
        /\ << w, h, -1 >> \in Seq(Symbol)
    BY DEF Symbol
  <2>. QED BY <1>4, <2>1 DEF Truncated, Tails
<1>. QED BY <1>3, <1>4

(* Once the width is read, the columns and what follows them are left.     *)
LEMMA AfterWidth ==
  ASSUME NEW w \in Nat, NEW h \in Nat, NEW tail \in Seq(Symbol), NEW m,
         m = Map(w, h) \o tail
  PROVE  /\ m[1] = w
         /\ Remaining(SubSeq(m, 2, Len(m)), 0, w, 0, tail, h)
<1>. DEFINE n == w * (h + 1)
            rest == SubSeq(m, 2, Len(m))
            map == Map(w, h)
<1>1. n \in Nat OBVIOUS
<1>2. PICK t : /\ Columns(t, 0, w, h)
               /\ \A i \in 1 .. w * (h + 1) : Map(w, h)[1 + i] = t[i]
  BY MapFields
<1>3. map \in Seq(Symbol) /\ Len(map) = 1 + n /\ map[1] = w
      /\ \A i \in 1 .. n : map[1 + i] = t[i]
  BY <1>2, MapFields
<1>4. m = map \o tail OBVIOUS
<1>. HIDE DEF map, n
<1>5. /\ map \o tail \in Seq(Symbol) /\ Len(map \o tail) = Len(map) + Len(tail)
      /\ \A i \in 1 .. Len(map) : (map \o tail)[i] = map[i]
      /\ \A i \in 1 .. Len(tail) : (map \o tail)[Len(map) + i] = tail[i]
  BY <1>3, SymbolsJoined
<1>6. /\ m \in Seq(Symbol) /\ Len(m) = 1 + n + Len(tail) /\ Len(tail) \in Nat
      /\ \A i \in 1 .. 1 + n : m[i] = map[i]
      /\ \A i \in 1 .. Len(tail) : m[1 + n + i] = tail[i]
  BY <1>1, <1>3, <1>4, <1>5
<1>7. /\ rest \in Seq(Symbol) /\ Len(rest) = Len(m) - 1
      /\ \A i \in 1 .. Len(m) - 1 : rest[i] = m[1 + i]
  <2>1. 1 \in 0 .. Len(m) /\ 1 + 1 = 2 BY <1>1, <1>6
  <2>2. /\ SubSeq(m, 1 + 1, Len(m)) \in Seq(Symbol)
        /\ Len(SubSeq(m, 1 + 1, Len(m))) = Len(m) - 1
        /\ \A i \in 1 .. Len(m) - 1 : SubSeq(m, 1 + 1, Len(m))[i] = m[1 + i]
    BY <1>6, <2>1, Dropped
  <2>. QED BY <2>1, <2>2
<1>. HIDE DEF rest
<1>8. \A i \in 1 .. n : rest[i] = t[i]
  <2>. SUFFICES ASSUME NEW i \in 1 .. n PROVE rest[i] = t[i] OBVIOUS
  <2>1. i \in 1 .. Len(m) - 1 /\ 1 + i \in 1 .. 1 + n BY <1>1, <1>6
  <2>. QED BY <1>3, <1>6, <1>7, <2>1
<1>9. \A i \in 1 .. Len(tail) : rest[n + i] = tail[i]
  <2>. SUFFICES ASSUME NEW i \in 1 .. Len(tail) PROVE rest[n + i] = tail[i]
    OBVIOUS
  <2>1. n + i \in 1 .. Len(m) - 1 /\ 1 + (n + i) = 1 + n + i BY <1>1, <1>6
  <2>. QED BY <1>6, <1>7, <2>1
<1>10. Columns(rest, 0, w, h)
  <2>. SUFFICES ASSUME NEW i \in 0 .. w - 1, NEW j \in 1 .. h + 1
                PROVE  rest[i * (h + 1) + j] = Column(0 + i, h)[j]
    BY DEF Columns
  <2>1. i * (h + 1) + j \in 1 .. n
    <3>1. h + 1 \in Nat OBVIOUS
    <3>. QED BY <3>1, Place DEF n
  <2>. QED BY <1>2, <1>8, <2>1 DEF Columns
<1>11. m[1] = w
  <2>1. 1 \in 1 .. 1 + n BY <1>1
  <2>. QED BY <1>3, <1>6, <2>1
<1>12. /\ Len(rest) = n + (Len(tail) - 0)
       /\ \A j \in 1 .. Len(tail) - 0 : rest[n + j] = tail[0 + j]
  <2>1. Len(tail) - 0 = Len(tail) /\ Len(rest) = n + Len(tail)
    BY <1>1, <1>6, <1>7
  <2>2. \A j \in 1 .. Len(tail) : 0 + j = j OBVIOUS
  <2>. QED BY <1>9, <2>1, <2>2
<1>13. Remaining(rest, 0, w, 0, tail, h)
  BY <1>7, <1>10, <1>12 DEF Remaining, n
<1>. QED BY <1>11, <1>13 DEF rest

(* Once a column is read, its cells are what they should be, and the next  *)
(* columns are left.                                                       *)
LEMMA AfterColumn ==
  ASSUME NEW h \in Nat, NEW n \in Nat \ {0}, NEW x \in Nat, NEW tail \in Seq(Symbol),
         NEW t, Remaining(t, x, n, 0, tail, h)
  PROVE  /\ t[1] = h
         /\ SubSeq(t, 2, 1 + h) = [y \in 1 .. h |-> <<x, y - 1>>]
         /\ Remaining(SubSeq(t, 1 + h + 1, Len(t)), x + 1, n - 1, 0, tail, h)
<1>. DEFINE k == n * (h + 1)
            l == (n - 1) * (h + 1)
            rest == SubSeq(t, 1 + h + 1, Len(t))
<1>1. k \in Nat /\ l \in Nat /\ k = l + (1 + h)
  <2>1. n - 1 \in Nat /\ h + 1 \in Nat OBVIOUS
  <2>2. k = l + (h + 1) OBVIOUS
  <2>3. l \in Nat /\ k \in Nat BY <2>1
  <2>. HIDE DEF k, l
  <2>. QED BY <2>2, <2>3
<1>2. /\ t \in Seq(Symbol) /\ Len(t) = k + Len(tail) /\ Len(tail) \in Nat
      /\ \A j \in 1 .. Len(tail) : t[k + j] = tail[j]
  <2>1. Len(tail) - 0 = Len(tail) /\ \A j \in 1 .. Len(tail) : 0 + j = j OBVIOUS
  <2>2. /\ t \in Seq(Symbol) /\ Len(t) = k + (Len(tail) - 0)
        /\ \A j \in 1 .. Len(tail) - 0 : t[k + j] = tail[0 + j]
    BY DEF Remaining
  <2>. HIDE DEF k
  <2>. QED BY <2>1, <2>2
<1>3. \A j \in 1 .. h + 1 : t[j] = Column(x, h)[j]
  <2>1. 0 \in 0 .. n - 1 /\ 0 * (h + 1) = 0 /\ x + 0 = x OBVIOUS
  <2>2. \A j \in 1 .. h + 1 : t[0 * (h + 1) + j] = Column(x + 0, h)[j]
    BY <2>1 DEF Remaining, Columns
  <2>3. \A j \in 1 .. h + 1 : 0 + j = j OBVIOUS
  <2>. QED BY <2>1, <2>2, <2>3
<1>. HIDE DEF k, l
<1>4. t[1] = h
  <2>1. 1 \in 1 .. h + 1 OBVIOUS
  <2>. QED BY <1>3, <2>1, ColumnFields
<1>5. SubSeq(t, 2, 1 + h) = [y \in 1 .. h |-> <<x, y - 1>>]
  <2>. DEFINE s == SubSeq(t, 2, 1 + h)
              r == [y \in 1 .. h |-> <<x, y - 1>>]
  <2>1. \A i \in 2 .. 1 + h : t[i] \in Symbol BY <1>1, <1>2
  <2>2. 2 \in Int /\ 1 + h \in Int /\ 1 + h - 2 + 1 = h OBVIOUS
  <2>3. /\ s \in Seq(Symbol)
        /\ Len(s) = IF 2 <= 1 + h THEN 1 + h - 2 + 1 ELSE 0
        /\ \A i \in 1 .. 1 + h - 2 + 1 : s[i] = t[2 + i - 1]
    BY <2>1, <2>2, SubSeqProperties
  <2>. HIDE DEF s
  <2>4. Len(s) = h BY <2>3
  <2>5. ASSUME NEW y \in 1 .. h PROVE s[y] = <<x, y - 1>>
    <3>1. 2 + y - 1 = y + 1 /\ y + 1 \in 1 .. h + 1 OBVIOUS
    <3>2. s[y] = t[y + 1] BY <2>2, <2>3, <3>1
    <3>3. t[y + 1] = Column(x, h)[y + 1] BY <1>3, <3>1
    <3>. QED BY <3>2, <3>3, ColumnFields
  <2>6. DOMAIN s = 1 .. h /\ s = [i \in DOMAIN s |-> s[i]] BY <2>3, <2>4
  <2>. QED BY <2>5, <2>6 DEF s
<1>6. /\ rest \in Seq(Symbol) /\ Len(rest) = l + Len(tail)
      /\ \A i \in 1 .. l + Len(tail) : rest[i] = t[1 + h + i]
  <2>1. 1 + h \in 0 .. Len(t) BY <1>1, <1>2
  <2>2. /\ rest \in Seq(Symbol) /\ Len(rest) = Len(t) - (1 + h)
        /\ \A i \in 1 .. Len(t) - (1 + h) : rest[i] = t[1 + h + i]
    BY <1>2, <2>1, Dropped
  <2>3. Len(t) - (1 + h) = l + Len(tail) BY <1>1, <1>2
  <2>. HIDE DEF rest
  <2>. QED BY <2>2, <2>3
<1>. HIDE DEF rest
<1>7. Columns(rest, x + 1, n - 1, h)
  <2>. SUFFICES ASSUME NEW i \in 0 .. (n - 1) - 1, NEW j \in 1 .. h + 1
                PROVE  rest[i * (h + 1) + j] = Column(x + 1 + i, h)[j]
    BY DEF Columns
  <2>. DEFINE p == i * (h + 1)
  <2>1. p + j \in 1 .. l
    <3>1. h + 1 \in Nat /\ n - 1 \in Nat OBVIOUS
    <3>. QED BY <3>1, Place DEF l
  <2>2. p \in Nat /\ (i + 1) * (h + 1) = p + (h + 1) OBVIOUS
  <2>3. i + 1 \in 0 .. n - 1 /\ x + (i + 1) = x + 1 + i OBVIOUS
  <2>4. t[(i + 1) * (h + 1) + j] = Column(x + (i + 1), h)[j]
    BY <2>3 DEF Remaining, Columns
  <2>. HIDE DEF p
  <2>5. p + j \in 1 .. l + Len(tail) BY <1>1, <1>2, <2>1
  <2>6. 1 + h + (p + j) = p + (h + 1) + j BY <2>2
  <2>7. rest[p + j] = Column(x + 1 + i, h)[j]
    BY <1>6, <2>2, <2>3, <2>4, <2>5, <2>6
  <2>. QED BY <2>7 DEF p
<1>8. ASSUME NEW j \in 1 .. Len(tail) PROVE rest[l + j] = tail[j]
  <2>1. l + j \in 1 .. l + Len(tail) /\ 1 + h + (l + j) = k + j
    BY <1>1, <1>2
  <2>. QED BY <1>2, <1>6, <2>1
<1>9. /\ Len(rest) = l + (Len(tail) - 0)
      /\ \A j \in 1 .. Len(tail) - 0 : rest[l + j] = tail[0 + j]
  <2>1. Len(tail) - 0 = Len(tail) /\ \A j \in 1 .. Len(tail) : 0 + j = j
    BY <1>2
  <2>. QED BY <1>6, <1>8, <2>1
<1>10. Remaining(rest, x + 1, n - 1, 0, tail, h)
  BY <1>6, <1>7, <1>9 DEF Remaining, l
<1>. QED BY <1>4, <1>5, <1>10 DEF rest

(* Once a size is read, what follows it is left.                           *)
LEMMA AfterSize ==
  ASSUME NEW h \in Nat, NEW x, NEW tail \in Seq(Symbol), NEW m \in Nat,
         NEW t, Remaining(t, x, 0, m, tail, h), Len(t) >= 1, m <= Len(tail)
  PROVE  /\ m + 1 <= Len(tail) /\ t[1] = tail[m + 1]
         /\ Remaining(SubSeq(t, 2, Len(t)), x, 0, m + 1, tail, h)
<1>. DEFINE rest == SubSeq(t, 2, Len(t))
            n == Len(tail)
<1>1. 0 * (h + 1) = 0 OBVIOUS
<1>2. n \in Nat /\ t \in Seq(Symbol) /\ Len(t) = n - m
      /\ \A j \in 1 .. n - m : t[j] = tail[m + j]
  <2>1. n \in Nat OBVIOUS
  <2>2. /\ t \in Seq(Symbol) /\ Len(t) = 0 + (n - m)
        /\ \A j \in 1 .. n - m : t[0 + j] = tail[m + j]
    BY <1>1 DEF Remaining
  <2>3. \A j \in 1 .. n - m : 0 + j = j OBVIOUS
  <2>. HIDE DEF n
  <2>. QED BY <2>1, <2>2, <2>3
<1>. HIDE DEF n
<1>3. m + 1 <= n /\ 1 \in 1 .. n - m BY <1>2
<1>4. /\ rest \in Seq(Symbol) /\ Len(rest) = Len(t) - 1
      /\ \A i \in 1 .. Len(t) - 1 : rest[i] = t[1 + i]
  <2>1. 1 \in 0 .. Len(t) /\ 1 + 1 = 2 BY <1>2, <1>3
  <2>2. /\ SubSeq(t, 1 + 1, Len(t)) \in Seq(Symbol)
        /\ Len(SubSeq(t, 1 + 1, Len(t))) = Len(t) - 1
        /\ \A i \in 1 .. Len(t) - 1 : SubSeq(t, 1 + 1, Len(t))[i] = t[1 + i]
    BY <1>2, <2>1, Dropped
  <2>. QED BY <2>1, <2>2
<1>. HIDE DEF rest
<1>5. ASSUME NEW j \in 1 .. n - (m + 1) PROVE rest[j] = tail[m + 1 + j]
  <2>1. j \in 1 .. Len(t) - 1 /\ 1 + j \in 1 .. n - m
        /\ m + (1 + j) = m + 1 + j
    BY <1>2, <1>3
  <2>. QED BY <1>2, <1>4, <2>1
<1>6. Len(rest) = 0 + (n - (m + 1)) BY <1>2, <1>3, <1>4
<1>7. \A j \in 1 .. n - (m + 1) : 0 + j = j OBVIOUS
<1>8. Columns(rest, x, 0, h)
  <2>1. 0 .. 0 - 1 = {} OBVIOUS
  <2>. QED BY <2>1 DEF Columns
<1>9. Remaining(rest, x, 0, m + 1, tail, h)
  BY <1>1, <1>4, <1>5, <1>6, <1>7, <1>8 DEF Remaining, n
<1>. QED BY <1>2, <1>3, <1>9 DEF rest, n
---------------------------------------------------------------------------------
(* Reading the message *)

(* The columns read so far are the first n.                                *)
CellsRead(n) ==
  /\ cells \in Seq(Seq(Symbol)) /\ Len(cells) = n
  /\ \A x \in 0 .. n - 1 : cells[x + 1] = [y \in 1 .. height |-> <<x, y - 1>>]

(* The message ends before its map begins.                                 *)
CutOff ==
  stream = << -1 >> /\ columns = width /\ cells = << >> /\ sizes = << >>

(* The map is being read, or the sizes after it are: what was read is what *)
(* the message says, and the rest of the message is left.                  *)
Unread ==
  /\ columns \in 0 .. width /\ CellsRead(width - columns)
  /\ sizes \in Seq(Symbol) /\ (columns # 0 => sizes = << >>)
  /\ \E tail \in Tails(width, height) :
       /\ tail \in Seq(Symbol) /\ Len(sizes) <= Len(tail)
       /\ Remaining(stream, width - columns, columns, Len(sizes), tail, height)
       /\ \A i \in 1 .. Len(sizes) : sizes[i] = tail[i] /\ ~(tail[i] < 0)

(* The inductive invariant.                                                *)
IInv ==
  /\ width \in Nat /\ height \in Nat
  /\ pc \in {"width", "column", "done", "exited"}
  /\ pc = "width" =>
       /\ stream \in {MapMessage(width, height)} \union Truncated(width, height)
       /\ cells = << >> /\ sizes = << >>
  /\ pc = "column" => CutOff \/ Unread
  /\ pc = "done" /\ Fits =>
       stream = << >> /\ CellsRead(width) /\ table = Entries(width, height)
  /\ pc # "done" => asked = Nobody
  /\ LooksUpOwnEntry

(* Nothing is read before the first message.                               *)
LEMMA InitInv == Init => IInv
BY TableAssumption DEF Init, IInv, LooksUpOwnEntry

(* What a step that only leaves the loops has to show.                     *)
LEMMA Leaving ==
  ASSUME IInv, width' = width, height' = height, asked' = asked,
         pc # "done", pc' = "exited"
  PROVE  IInv'
<1>1. asked' = Nobody BY DEF IInv
<1>. QED BY <1>1 DEF IInv, LooksUpOwnEntry

(* The width read is that of the map.                                      *)
LEMMA ReadWidthInv == ASSUME IInv, ReadWidth PROVE IInv'
<1>1. /\ pc = "width" /\ width' = width /\ height' = height /\ asked' = asked
      /\ cells' = cells /\ sizes' = sizes /\ Read(1)
  BY DEF ReadWidth
<1>2. width \in Nat /\ height \in Nat /\ asked = Nobody
      /\ cells = << >> /\ sizes = << >>
  BY <1>1 DEF IInv
<1>3. stream' = SubSeq(stream, 2, Len(stream))
  <2>1. 1 + 1 = 2 OBVIOUS
  <2>. QED BY <1>1, <2>1 DEF Read
<1>4. CASE stream[1] < 0
  <2>1. pc' = "exited" BY <1>4 DEF ReadWidth, Exit
  <2>. QED BY <1>1, <2>1, Leaving
<1>5. CASE ~(stream[1] < 0)
  <2>1. pc' = "column" /\ columns' = stream[1]
    BY <1>5 DEF ReadWidth, Goto
  <2>2. CutOff' \/ Unread'
    <3>1. CASE stream = << -1 >> BY <1>5, <3>1
    <3>2. CASE stream = << width, -1 >>
      <4>1. stream' = << -1 >>
        <5>. DEFINE s == << width, -1 >>
                    r == << -1 >>
        <5>1. s \in Seq(Int) /\ Len(s) = 2 /\ s[2] = -1 /\ 1 \in 0 .. 2
              /\ r \in Seq(Int) /\ Len(r) = 1 /\ r[1] = -1
          BY <1>2
        <5>2. stream' = SubSeq(s, 1 + 1, Len(s)) BY <1>3, <3>2
        <5>. HIDE DEF s, r
        <5>3. /\ stream' \in Seq(Int) /\ Len(stream') = 2 - 1
              /\ \A i \in 1 .. 2 - 1 : stream'[i] = s[1 + i]
          BY <5>1, <5>2, Dropped
        <5>4. \A i \in 1 .. Len(stream') : stream'[i] = r[i]
          BY <5>1, <5>3
        <5>5. stream' = r BY <5>1, <5>3, <5>4, SeqEqual
        <5>. QED BY <5>5 DEF r
      <4>2. stream[1] = width BY <3>2
      <4>. QED BY <1>1, <1>2, <2>1, <4>1, <4>2 DEF CutOff
    <3>3. CASE \E tail \in Tails(width, height) :
                 tail \in Seq(Symbol) /\ stream = Map(width, height) \o tail
      <4>1. PICK tail \in Tails(width, height) :
              tail \in Seq(Symbol) /\ stream = Map(width, height) \o tail
        BY <3>3
      <4>2. /\ stream[1] = width
            /\ Remaining(SubSeq(stream, 2, Len(stream)), 0, width, 0, tail, height)
        BY <1>2, <4>1, AfterWidth
      <4>3. columns' = width /\ width - width = 0 /\ Len(sizes') = 0
            /\ Len(tail) \in Nat
        BY <1>1, <1>2, <2>1, <4>1, <4>2
      <4>4. Remaining(stream', width' - columns', columns', Len(sizes'), tail,
                      height')
        BY <1>1, <1>3, <4>2, <4>3
      <4>5. CellsRead(width - columns)'
        <5>1. << >> \in Seq(Seq(Symbol)) /\ Len(<< >>) = 0 /\ 0 .. 0 - 1 = {}
          OBVIOUS
        <5>. QED BY <1>1, <1>2, <4>3, <5>1 DEF CellsRead
      <4>6. /\ sizes' \in Seq(Symbol) /\ sizes' = << >>
            /\ columns' \in 0 .. width' /\ Len(sizes') <= Len(tail)
            /\ \A i \in 1 .. Len(sizes') : sizes'[i] = tail[i] /\ ~(tail[i] < 0)
        <5>1. << >> \in Seq(Symbol) /\ 1 .. 0 = {} OBVIOUS
        <5>. QED BY <1>1, <1>2, <4>3, <5>1
      <4>7. tail \in Tails(width', height') BY <1>1, <4>1
      <4>. QED BY <4>1, <4>4, <4>5, <4>6, <4>7 DEF Unread
    <3>. QED BY <1>1, <1>2, <3>1, <3>2, <3>3, WholeMessage DEF IInv
  <2>. QED BY <1>1, <1>2, <2>1, <2>2 DEF IInv, LooksUpOwnEntry
<1>. QED BY <1>4, <1>5

(* A column read is the next one of the map.                               *)
LEMMA ReadColumnInv == ASSUME IInv, ReadColumn PROVE IInv'
<1>1. /\ pc = "column" /\ columns > 0 /\ width' = width /\ height' = height
      /\ asked' = asked /\ sizes' = sizes
  BY DEF ReadColumn
<1>2. width \in Nat /\ height \in Nat /\ asked = Nobody BY <1>1 DEF IInv
<1>3. CASE stream[1] < 0
  <2>1. pc' = "exited" BY <1>3 DEF ReadColumn, Exit
  <2>. QED BY <1>1, <2>1, Leaving
<1>4. CASE ~(stream[1] < 0)
  <2>1. /\ pc' = "column" /\ columns' = columns - 1
        /\ stream' = SubSeq(stream, 1 + stream[1] + 1, Len(stream))
        /\ cells' = Append(cells, SubSeq(stream, 2, 1 + stream[1]))
    BY <1>4 DEF ReadColumn, Goto, Read
  <2>2. Unread BY <1>1, <1>4 DEF IInv, CutOff
  <2>3. columns \in 0 .. width /\ CellsRead(width - columns) /\ sizes = << >>
    BY <1>1, <2>2 DEF Unread
  <2>. DEFINE x == width - columns
  <2>4. PICK tail \in Tails(width, height) :
          tail \in Seq(Symbol) /\ Remaining(stream, x, columns, 0, tail, height)
    <3>1. Len(sizes) = 0 BY <2>3
    <3>. QED BY <2>2, <3>1 DEF Unread
  <2>5. /\ x \in Nat /\ columns \in Nat \ {0} /\ width - columns' = x + 1
        /\ columns' = columns - 1 /\ columns' \in 0 .. width
    BY <1>1, <1>2, <2>1, <2>3
  <2>6. /\ stream[1] = height
        /\ SubSeq(stream, 2, 1 + height) = [y \in 1 .. height |-> <<x, y - 1>>]
        /\ Remaining(SubSeq(stream, 1 + height + 1, Len(stream)), x + 1,
                     columns - 1, 0, tail, height)
    BY <1>2, <2>4, <2>5, AfterColumn
  <2>. HIDE DEF x
  <2>7. Remaining(stream', width' - columns', columns', Len(sizes'), tail,
                  height')
    <3>1. Len(sizes') = 0 BY <1>1, <2>3
    <3>. QED BY <1>1, <2>1, <2>5, <2>6, <3>1
  <2>8. CellsRead(width - columns)'
    <3>. DEFINE e == [y \in 1 .. height |-> <<x, y - 1>>]
    <3>1. e \in Seq(Symbol)
      <4>1. e \in [1 .. height -> Symbol] BY <1>2, <2>5 DEF Symbol
      <4>. HIDE DEF e
      <4>. QED BY <1>2, <4>1
    <3>2. /\ cells \in Seq(Seq(Symbol)) /\ Len(cells) = x
          /\ \A i \in 0 .. x - 1 :
               cells[i + 1] = [y \in 1 .. height |-> <<i, y - 1>>]
      BY <2>3 DEF CellsRead, x
    <3>3. cells' = Append(cells, e) BY <2>1, <2>6
    <3>. HIDE DEF e
    <3>4. /\ cells' \in Seq(Seq(Symbol)) /\ Len(cells') = x + 1
          /\ \A i \in 1 .. x : cells'[i] = cells[i]
          /\ cells'[x + 1] = e
      BY <3>1, <3>2, <3>3
    <3>5. ASSUME NEW i \in 0 .. (x + 1) - 1
          PROVE  cells'[i + 1] = [y \in 1 .. height |-> <<i, y - 1>>]
      <4>1. CASE i = x BY <3>4, <4>1 DEF e
      <4>2. CASE i # x
        <5>1. i \in 0 .. x - 1 /\ i + 1 \in 1 .. x BY <2>5, <4>2
        <5>. QED BY <3>2, <3>4, <5>1
      <4>. QED BY <4>1, <4>2
    <3>. QED BY <1>1, <2>5, <3>4, <3>5 DEF CellsRead
  <2>9. /\ sizes' \in Seq(Symbol) /\ sizes' = << >> /\ Len(sizes') <= Len(tail)
        /\ \A i \in 1 .. Len(sizes') : sizes'[i] = tail[i] /\ ~(tail[i] < 0)
    <3>1. << >> \in Seq(Symbol) /\ Len(<< >>) = 0 /\ 1 .. 0 = {}
          /\ Len(tail) \in Nat
      BY <2>4
    <3>. QED BY <1>1, <2>3, <3>1
  <2>10. Unread'
    BY <1>1, <2>4, <2>5, <2>7, <2>8, <2>9 DEF Unread
  <2>. QED BY <1>1, <1>2, <2>1, <2>10 DEF IInv, LooksUpOwnEntry
<1>. QED BY <1>3, <1>4

(* A size read is the next one of the message.                             *)
LEMMA ReadSizeInv == ASSUME IInv, ReadSize PROVE IInv'
<1>1. /\ pc = "column" /\ columns = 0 /\ width' = width /\ height' = height
      /\ asked' = asked /\ columns' = columns /\ cells' = cells /\ Read(1)
  BY DEF ReadSize
<1>2. width \in Nat /\ height \in Nat /\ asked = Nobody BY <1>1 DEF IInv
<1>3. CASE stream[1] < 0
  <2>1. pc' = "exited" BY <1>3 DEF ReadSize, Exit
  <2>. QED BY <1>1, <2>1, Leaving
<1>4. CASE ~(stream[1] < 0)
  <2>1. pc' = "column" /\ sizes' = Append(sizes, stream[1])
    BY <1>4 DEF ReadSize, Goto
  <2>2. Unread BY <1>1, <1>4 DEF IInv, CutOff
  <2>3. CellsRead(width - columns) /\ sizes \in Seq(Symbol)
    BY <2>2 DEF Unread
  <2>. DEFINE m == Len(sizes)
  <2>4. PICK tail \in Tails(width, height) :
          /\ tail \in Seq(Symbol) /\ m <= Len(tail)
          /\ Remaining(stream, width - columns, columns, m, tail, height)
          /\ \A i \in 1 .. m : sizes[i] = tail[i] /\ ~(tail[i] < 0)
    BY <2>2 DEF Unread
  <2>5. m \in Nat /\ Len(stream) >= 1
        /\ stream' = SubSeq(stream, 2, Len(stream))
    <3>1. 1 + 1 = 2 OBVIOUS
    <3>2. 1 <= Len(stream) /\ stream' = SubSeq(stream, 1 + 1, Len(stream))
      BY <1>1 DEF Read
    <3>3. stream \in Seq(Symbol) BY <2>4 DEF Remaining
    <3>. QED BY <2>3, <3>1, <3>2, <3>3
  <2>6. Remaining(stream, width - columns, 0, m, tail, height) BY <1>1, <2>4
  <2>. HIDE DEF m
  <2>7. /\ m + 1 <= Len(tail) /\ stream[1] = tail[m + 1]
        /\ Remaining(SubSeq(stream, 2, Len(stream)), width - columns, 0, m + 1,
                     tail, height)
    BY <1>2, <2>4, <2>5, <2>6, AfterSize
  <2>8. /\ sizes' \in Seq(Symbol) /\ Len(sizes') = m + 1
        /\ \A i \in 1 .. m : sizes'[i] = sizes[i]
        /\ sizes'[m + 1] = stream[1]
    <3>1. stream[1] \in Symbol BY <2>4, <2>5 DEF Remaining
    <3>. QED BY <2>1, <2>3, <3>1 DEF m
  <2>9. ASSUME NEW i \in 1 .. m + 1
        PROVE  sizes'[i] = tail[i] /\ ~(tail[i] < 0)
    <3>1. CASE i = m + 1 BY <1>4, <2>7, <2>8, <3>1
    <3>2. CASE i # m + 1
      <4>1. i \in 1 .. m BY <2>5, <3>2
      <4>. QED BY <2>4, <2>8, <4>1
    <3>. QED BY <3>1, <3>2
  <2>10. Unread'
    <3>1. CellsRead(width - columns)' BY <1>1, <2>3 DEF CellsRead
    <3>2. Remaining(stream', width' - columns', columns', Len(sizes'), tail,
                    height')
      BY <1>1, <2>5, <2>7, <2>8
    <3>3. columns' \in 0 .. width' /\ columns' = 0 BY <1>1, <1>2
    <3>4. tail \in Tails(width', height') /\ Len(sizes') <= Len(tail)
      BY <1>1, <2>4, <2>7, <2>8
    <3>. QED BY <2>4, <2>8, <2>9, <3>1, <3>2, <3>3, <3>4 DEF Unread
  <2>. QED BY <1>1, <1>2, <2>1, <2>10 DEF IInv, LooksUpOwnEntry
<1>. QED BY <1>3, <1>4

(* A number below the modulus is its own remainder.                        *)
LEMMA Remainder ==
  ASSUME NEW m \in Nat, NEW a \in 0 .. m - 1 PROVE a % m = a
OBVIOUS

(* So a number of bytes that fits an int is what readCellVisibilities asks *)
(* for.                                                                    *)
LEMMA FittingCount ==
  ASSUME NEW n \in Nat, n < IntLimit
  PROVE  AsInt(n) = n /\ n % (2 * IntLimit) = n
<1>. DEFINE m == 2 * IntLimit
<1>1. /\ IntLimit \in Nat \ {0} /\ m \in Nat /\ n \in 0 .. m - 1
      /\ n + IntLimit \in 0 .. m - 1 /\ (n + IntLimit) - IntLimit = n
  BY TableAssumption
<1>. HIDE DEF m
<1>2. n % m = n /\ (n + IntLimit) % m = n + IntLimit BY <1>1, Remainder
<1>. QED BY <1>1, <1>2 DEF AsInt, m

(* The tail of a message: the sizes of a map, then its entries.            *)
Sized(tail, w, h) ==
  /\ tail[1] = w /\ tail[2] = h /\ tail[3] = 3
  /\ Len(tail) = 3 + Len(Entries(w, h))
  /\ \A j \in 1 .. Len(Entries(w, h)) : tail[3 + j] = Entries(w, h)[j]

(* Three sizes can be read only from a message that is complete.           *)
LEMMA ThreeSizes ==
  ASSUME NEW w \in Nat, NEW h \in Nat, NEW tail \in Tails(w, h),
         3 <= Len(tail), ~(tail[3] < 0)
  PROVE  Sized(tail, w, h)
<1>1. tail = <<w, h, StanceCount>> \o Entries(w, h)
  <2>1. /\ Len(<< -1 >>) = 1 /\ Len(<< w, -1 >>) = 2
        /\ << w, h, -1 >>[3] = -1 /\ -1 < 0
    OBVIOUS
  <2>. QED BY <2>1 DEF Tails
<1>. DEFINE s == <<w, h, StanceCount>>
            e == Entries(w, h)
<1>2. /\ s \in Seq(Symbol) /\ Len(s) = 3
      /\ s[1] = w /\ s[2] = h /\ s[3] = 3
  BY DEF Symbol, StanceCount
<1>3. e \in Seq(Symbol)
  <2>1. Entries(w, h) \in Seq(EntrySet) BY EntriesInOrder
  <2>2. EntrySet \subseteq Symbol BY DEF Symbol
  <2>. QED BY <2>1, <2>2
<1>4. tail = s \o e BY <1>1
<1>. HIDE DEF s, e
<1>5. /\ Len(s \o e) = Len(s) + Len(e)
      /\ \A i \in 1 .. Len(s) : (s \o e)[i] = s[i]
      /\ \A i \in 1 .. Len(e) : (s \o e)[Len(s) + i] = e[i]
  BY <1>2, <1>3, SymbolsJoined
<1>. QED BY <1>2, <1>4, <1>5 DEF e, Sized

(* The table read is the message's, and nothing of the message is left.    *)
LEMMA ReadVisibilitiesInv == ASSUME IInv, ReadVisibilities PROVE IInv'
<1>1. /\ pc = "column" /\ columns = columns /\ Len(sizes) = 3
      /\ width' = width /\ height' = height /\ asked' = asked
      /\ cells' = cells /\ Read(ByteCount)
  BY DEF ReadVisibilities, SizeExits
<1>2. width \in Nat /\ height \in Nat /\ asked = Nobody BY <1>1 DEF IInv
<1>3. CASE rawVisibilityCount < 0
  <2>1. pc' = "exited" BY <1>3 DEF ReadVisibilities, Exit
  <2>. QED BY <1>1, <2>1, Leaving
<1>4. CASE ~(rawVisibilityCount < 0)
  <2>1. pc' = "done" /\ table' = SubSeq(stream, 1, ByteCount)
    BY <1>4 DEF ReadVisibilities, Goto
  <2>2. ASSUME Fits
        PROVE  stream' = << >> /\ CellsRead(width)' /\ table' = Entries(width, height)
    <3>1. Unread /\ columns = 0
      <4>1. Unread
        <5>1. Len(<< >>) = 0 OBVIOUS
        <5>. QED BY <1>1, <5>1 DEF IInv, CutOff
      <4>2. sizes # << >> BY <1>1
      <4>. QED BY <4>1, <4>2 DEF Unread
    <3>2. CellsRead(width)
      <4>1. width - 0 = width BY <1>2
      <4>. QED BY <3>1, <4>1 DEF Unread
    <3>3. PICK tail \in Tails(width, height) :
            /\ tail \in Seq(Symbol) /\ 3 <= Len(tail)
            /\ Remaining(stream, width - 0, 0, 3, tail, height)
            /\ \A i \in 1 .. 3 : sizes[i] = tail[i] /\ ~(tail[i] < 0)
      BY <1>1, <3>1 DEF Unread
    <3>. DEFINE e == Entries(width, height)
                n == width * height * width * height * 3
    <3>. HIDE DEF e
    <3>4. /\ tail[1] = width /\ tail[2] = height /\ tail[3] = 3
          /\ Len(tail) = 3 + Len(e)
          /\ \A j \in 1 .. Len(e) : tail[3 + j] = e[j]
      <4>1. ~(tail[3] < 0) BY <3>3
      <4>2. Sized(tail, width, height) BY <1>2, <3>3, <4>1, ThreeSizes
      <4>. QED BY <4>2 DEF Sized, e
    <3>5. e \in Seq(Symbol) /\ Len(e) = n
      <4>1. e \in Seq(EntrySet) /\ Len(e) = n BY <1>2, EntriesInOrder DEF e
      <4>2. EntrySet \subseteq Symbol BY DEF Symbol
      <4>. QED BY <4>1, <4>2
    <3>6. n \in Nat
      <4>1. width * height \in Nat BY <1>2
      <4>2. width * height * width \in Nat BY <1>2, <4>1
      <4>3. width * height * width * height \in Nat BY <1>2, <4>2
      <4>. QED BY <4>3
    <3>7. n < IntLimit
      BY <2>2 DEF Fits, Fitting, StanceCount
    <3>8. ByteCount = n
      <4>1. sizes[1] = width /\ sizes[2] = height /\ sizes[3] = 3
        BY <3>3, <3>4
      <4>2. rawVisibilityCount = AsInt(n)
        BY <4>1 DEF rawVisibilityCount, Product
      <4>. HIDE DEF n
      <4>3. AsInt(n) = n /\ n % (2 * IntLimit) = n
        BY <3>6, <3>7, FittingCount
      <4>. QED BY <4>2, <4>3 DEF ByteCount
    <3>. HIDE DEF n, e
    <3>9. /\ stream \in Seq(Symbol) /\ Len(stream) = n
          /\ \A j \in 1 .. n : stream[j] = e[j]
      <4>1. 0 * (height + 1) = 0 BY <1>2
      <4>2. /\ stream \in Seq(Symbol) /\ Len(stream) = 0 + (Len(tail) - 3)
            /\ \A j \in 1 .. Len(tail) - 3 : stream[0 + j] = tail[3 + j]
        BY <3>3, <4>1 DEF Remaining
      <4>3. Len(tail) - 3 = n /\ \A j \in 1 .. n : 0 + j = j
        BY <3>4, <3>5, <3>6
      <4>. QED BY <3>4, <3>5, <3>6, <4>2, <4>3
    <3>10. stream' = << >>
      <4>1. stream' = SubSeq(stream, n + 1, Len(stream))
        BY <1>1, <3>8 DEF Read
      <4>2. n \in 0 .. Len(stream) BY <3>6, <3>9
      <4>3. stream' \in Seq(Symbol) /\ Len(stream') = Len(stream) - n
        BY <3>9, <4>1, <4>2, Dropped
      <4>4. Len(stream') = 0 BY <3>6, <3>9, <4>3
      <4>. QED BY <4>3, <4>4
    <3>11. table' = e
      <4>1. \A i \in 1 .. n : stream[i] \in Symbol BY <3>6, <3>9
      <4>2. /\ SubSeq(stream, 1, n) \in Seq(Symbol)
            /\ Len(SubSeq(stream, 1, n)) = IF 1 <= n THEN n - 1 + 1 ELSE 0
            /\ \A i \in 1 .. n - 1 + 1 :
                 SubSeq(stream, 1, n)[i] = stream[1 + i - 1]
        BY <3>6, <4>1, SubSeqProperties
      <4>3. table' = SubSeq(stream, 1, n) BY <2>1, <3>8
      <4>4. table' \in Seq(Symbol) /\ Len(table') = n
        BY <3>6, <4>2, <4>3
      <4>5. ASSUME NEW i \in 1 .. n PROVE table'[i] = e[i]
        <5>1. i \in 1 .. n - 1 + 1 /\ 1 + i - 1 = i BY <3>6
        <5>. QED BY <3>9, <4>2, <4>3, <5>1
      <4>. QED BY <3>5, <4>4, <4>5, SeqEqual
    <3>12. CellsRead(width)' BY <1>1, <3>2 DEF CellsRead
    <3>. QED BY <3>10, <3>11, <3>12 DEF e
  <2>3. Fits' = Fits BY <1>1 DEF Fits
  <2>. QED BY <1>1, <1>2, <2>1, <2>2, <2>3 DEF IInv, LooksUpOwnEntry
<1>. QED BY <1>3, <1>4

(* isVisible finds the entry of the two cells and of the lower stance.     *)
LEMMA IsVisibleInv == ASSUME IInv, IsVisible PROVE IInv'
<1>1. /\ pc = "done" /\ pc' = pc /\ width' = width /\ height' = height
      /\ stream' = stream /\ cells' = cells /\ table' = table
  BY DEF IsVisible
<1>2. width \in Nat /\ height \in Nat BY DEF IInv
<1>3. PICK viewer \in Points, object \in Points, stances \in Stances \X Stances :
        LET i == Index(width, height, viewer, object,
                       LowerStance(stances[1], stances[2]))
        IN  /\ asked' = [viewer |-> viewer, object |-> object,
                         stances |-> stances]
            /\ answer' = IF i \in 0 .. Len(table) - 1 THEN table[i + 1]
                         ELSE Nobody
  BY DEF IsVisible
<1>. DEFINE s == LowerStance(stances[1], stances[2])
            i == Index(width, height, viewer, object, s)
<1>4. /\ s \in 0 .. 2 /\ s \in Stances /\ s \in {stances[1], stances[2]}
      /\ s <= stances[1] /\ s <= stances[2]
  BY DEF LowerStance, Stances, StanceCount
<1>5. ASSUME Fits
      PROVE  answer' = Entry(viewer[1], viewer[2], object[1], object[2], s)
  <2>1. table = Entries(width, height) BY <1>1, <1>5 DEF IInv
  <2>2. /\ viewer \in (0 .. width - 1) \X (0 .. height - 1)
        /\ object \in (0 .. width - 1) \X (0 .. height - 1)
    BY DEF Points
  <2>. DEFINE n == width * height * width * height * 3
  <2>3. i \in 0 .. n - 1
    <3>. HIDE DEF s
    <3>. QED BY <1>2, <1>4, <2>2, IndexInTable DEF StanceCount
  <2>4. Len(table) = n BY <1>2, <2>1, EntriesInOrder
  <2>5. viewer = <<viewer[1], viewer[2]>> /\ object = <<object[1], object[2]>>
    BY <2>2
  <2>6. table[i + 1] = Entry(viewer[1], viewer[2], object[1], object[2], s)
    <3>1. /\ viewer[1] \in 0 .. width - 1 /\ viewer[2] \in 0 .. height - 1
          /\ object[1] \in 0 .. width - 1 /\ object[2] \in 0 .. height - 1
      BY <2>2
    <3>2. Entries(width, height)[Index(width, height, <<viewer[1], viewer[2]>>,
                                       <<object[1], object[2]>>, s) + 1]
            = Entry(viewer[1], viewer[2], object[1], object[2], s)
      <4>1. InPlace(Entries(width, height), width, height)
        BY <1>2, EntriesInOrder
      <4>. HIDE DEF s
      <4>. QED BY <1>4, <3>1, <4>1 DEF InPlace
    <3>. HIDE DEF s
    <3>. QED BY <2>1, <2>5, <3>2
  <2>7. answer' = IF i \in 0 .. Len(table) - 1 THEN table[i + 1] ELSE Nobody
    BY <1>3
  <2>. HIDE DEF i, n, s
  <2>. QED BY <2>3, <2>4, <2>6, <2>7
<1>6. /\ asked'.viewer = viewer /\ asked'.object = object
      /\ asked'.stances = stances
  BY <1>3
<1>7. Fits' = Fits BY <1>1 DEF Fits
<1>8. LooksUpOwnEntry'
  <2>1. ASSUME Fits
        PROVE  /\ answer'.viewer = viewer /\ answer'.object = object
               /\ answer'.stance = s
    <3>1. viewer = <<viewer[1], viewer[2]>> /\ object = <<object[1], object[2]>>
      BY DEF Points
    <3>. HIDE DEF s
    <3>. QED BY <1>5, <2>1, <3>1 DEF Entry
  <2>. HIDE DEF s
  <2>. QED BY <1>4, <1>6, <1>7, <2>1 DEF LooksUpOwnEntry
<1>9. CellsRead(width)' <=> CellsRead(width) BY <1>1 DEF CellsRead
<1>. QED BY <1>1, <1>2, <1>7, <1>8, <1>9 DEF IInv

(* Every step keeps the inductive invariant.                               *)
LEMMA NextInv == IInv /\ [Next]_vars => IInv'
<1>. SUFFICES ASSUME IInv, [Next]_vars PROVE IInv' OBVIOUS
<1>1. CASE UNCHANGED vars
  <2>1. /\ width' = width /\ height' = height /\ stream' = stream /\ pc' = pc
        /\ columns' = columns /\ cells' = cells /\ sizes' = sizes
        /\ table' = table /\ asked' = asked /\ answer' = answer
    BY <1>1 DEF vars
  <2>. QED
    BY <2>1 DEF IInv, CutOff, Unread, CellsRead, LooksUpOwnEntry, Fits
<1>2. CASE Next
  BY <1>2, ReadWidthInv, ReadColumnInv, ReadSizeInv, ReadVisibilitiesInv,
     IsVisibleInv
     DEF Next
<1>. QED BY <1>1, <1>2

(* The inductive invariant holds in every reachable state.                 *)
LEMMA Invariant == Spec => []IInv
BY InitInv, NextInv, PTL DEF Spec

(* On a map of any size whose table fits an int, isVisible looks at the    *)
(* entry of the two cells it is asked about and of the lower stance.       *)
THEOREM LooksUpOwn == Spec => []LooksUpOwnEntry
<1>1. IInv => LooksUpOwnEntry BY DEF IInv
<1>. QED BY <1>1, Invariant, PTL

(* On a map of any size whose table fits an int, every cell and the whole  *)
(* table are read, and nothing is left for the next message.               *)
THEOREM WholeGridRead == Spec => []ReadsWholeGrid
<1>1. ASSUME IInv, pc = "done", Fits
      PROVE  stream = << >> /\ \A p \in Points : cells[p[1] + 1][p[2] + 1] = p
  <2>1. stream = << >> /\ CellsRead(width) /\ width \in Nat /\ height \in Nat
    BY <1>1 DEF IInv
  <2>2. ASSUME NEW p \in Points PROVE cells[p[1] + 1][p[2] + 1] = p
    <3>1. /\ p[1] \in 0 .. width - 1 /\ p[2] \in 0 .. height - 1
          /\ p = <<p[1], p[2]>>
      BY DEF Points
    <3>2. cells[p[1] + 1] = [y \in 1 .. height |-> <<p[1], y - 1>>]
      BY <2>1, <3>1 DEF CellsRead
    <3>3. p[2] + 1 \in 1 .. height /\ p[2] + 1 - 1 = p[2] BY <2>1, <3>1
    <3>. QED BY <3>1, <3>2, <3>3
  <2>. QED BY <2>1, <2>2
<1>2. IInv => ReadsWholeGrid BY <1>1 DEF ReadsWholeGrid
<1>. QED BY <1>2, Invariant, PTL
===============================================================================
