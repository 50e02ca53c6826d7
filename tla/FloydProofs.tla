------------------------------ MODULE FloydProofs ------------------------------
(***************************************************************************)
(* What holds of SlavaStrategy::floyd on every map: its three loops make,  *)
(* in place, the table of the lengths of the shortest ways.                *)
(*                                                                         *)
(* ShortestSoFar speaks of the table between two turns of the outer loop.  *)
(* The inductive invariant IInv says what it holds within one: the entries *)
(* already passed are as the turn leaves them, the others as it found      *)
(* them.  That the entries the turn reads are the same either way          *)
(* (RowKept) is what makes one table enough.                               *)
(***************************************************************************)
EXTENDS Floyd, FiniteSetTheorems, TLAPS

(* Every non-empty set of natural numbers has a least element: the finite  *)
(* sets 1 .. n, for its elements n, are well-founded under inclusion.      *)
LEMMA LeastNat ==
  ASSUME NEW T \in SUBSET Nat, T # {}
  PROVE  \E x \in T : \A y \in T : x <= y
<1>. DEFINE Intervals == {1 .. n : n \in T}
<1>1. Intervals # {} OBVIOUS
<1>2. \A n \in Nat : IsFiniteSet(1 .. n) BY FS_Interval
<1>3. Intervals \subseteq FiniteSubsetsOf(Nat) BY <1>2 DEF FiniteSubsetsOf
<1>4. PICK b \in Intervals :
        \A a \in Intervals : ~(<<a, b>> \in StrictSubsetOrdering(Nat))
  BY WFMin, FS_StrictSubsetOrderingWellFounded, <1>1, <1>3
<1>5. PICK x \in T : b = 1 .. x OBVIOUS
<1>6. ASSUME NEW y \in T PROVE x <= y
  <2>1. <<1 .. y, 1 .. x>> \notin StrictSubsetOrdering(Nat) BY <1>4, <1>5
  <2>2. SUFFICES ASSUME y < x PROVE FALSE OBVIOUS
  <2>3. (1 .. y) \subseteq (1 .. x) BY <2>2
  <2>4. x \in 1 .. x /\ x \notin 1 .. y BY <2>2
  <2>. QED BY <2>1, <2>3, <2>4 DEF StrictSubsetOrdering
<1>. QED BY <1>6
--------------------------------------------------------------------------------
(* Walks *)

(* w is a walk of n steps from p to q over FREE cells whose inner points   *)
(* are in S.                                                               *)
IsWalk(S, p, q, n, w) ==
  /\ w \in [0 .. n -> Grid] /\ w[0] = p /\ w[n] = q
  /\ \A a \in 0 .. n - 1 : IsStep(w[a], w[a + 1])
  /\ \A a \in 1 .. n - 1 : w[a] \in S

(* There is such a walk.                                                   *)
Joined(S, p, q, n) == n \in Nat \ {0} /\ \E w : IsWalk(S, p, q, n, w)

(* A step is a walk.                                                       *)
LEMMA OneStep ==
  ASSUME NEW S, NEW p \in Grid, NEW q \in Grid
  PROVE  Joined(S, p, q, 1) <=> IsStep(p, q)
<1>1. ASSUME IsStep(p, q) PROVE Joined(S, p, q, 1)
  <2>. DEFINE w == [a \in 0 .. 1 |-> IF a = 0 THEN p ELSE q]
  <2>1. /\ w \in [0 .. 1 -> Grid] /\ w[0] = p /\ w[1] = q
        /\ \A a \in 0 .. 1 - 1 : a = 0 /\ a + 1 = 1
        /\ 1 .. 1 - 1 = {}
    OBVIOUS
  <2>. HIDE DEF w
  <2>2. IsWalk(S, p, q, 1, w) BY <1>1, <2>1 DEF IsWalk
  <2>. QED BY <2>2 DEF Joined
<1>2. ASSUME Joined(S, p, q, 1) PROVE IsStep(p, q)
  <2>1. PICK w : IsWalk(S, p, q, 1, w) BY <1>2 DEF Joined
  <2>2. 0 \in 0 .. 1 - 1 /\ 0 + 1 = 1 OBVIOUS
  <2>3. IsStep(w[0], w[0 + 1]) BY <2>1, <2>2 DEF IsWalk
  <2>. QED BY <2>1, <2>2, <2>3 DEF IsWalk
<1>. QED BY <1>1, <1>2

(* A walk's beginning, up to its point a.                                  *)
LEMMA Beginning ==
  ASSUME NEW S, NEW T, NEW p, NEW q, NEW n \in Nat, NEW w,
         IsWalk(S, p, q, n, w), NEW a \in 1 .. n,
         \A b \in 1 .. a - 1 : w[b] \in T
  PROVE  Joined(T, p, w[a], a)
<1>. DEFINE v == [b \in 0 .. a |-> w[b]]
<1>1. /\ a \in Nat \ {0} /\ 0 \in 0 .. a /\ a \in 0 .. a
      /\ 0 .. a \subseteq 0 .. n
      /\ \A b \in 0 .. a - 1 : b \in 0 .. n - 1 /\ b \in 0 .. a /\ b + 1 \in 0 .. a
      /\ \A b \in 1 .. a - 1 : b \in 0 .. a
  OBVIOUS
<1>2. \A b \in 0 .. a : v[b] = w[b] OBVIOUS
<1>3. v \in [0 .. a -> Grid] BY <1>1 DEF IsWalk
<1>. HIDE DEF v
<1>4. IsWalk(T, p, w[a], a, v) BY <1>1, <1>2, <1>3 DEF IsWalk
<1>. QED BY <1>1, <1>4 DEF Joined

(* A walk's end, from its point a on.                                      *)
LEMMA End ==
  ASSUME NEW S, NEW T, NEW p, NEW q, NEW n \in Nat, NEW w,
         IsWalk(S, p, q, n, w), NEW a \in 0 .. n - 1,
         \A b \in a + 1 .. n - 1 : w[b] \in T
  PROVE  Joined(T, w[a], q, n - a)
<1>. DEFINE m == n - a
            v == [b \in 0 .. m |-> w[a + b]]
<1>1. /\ m \in Nat \ {0} /\ 0 \in 0 .. m /\ m \in 0 .. m
      /\ \A b \in 0 .. m : a + b \in 0 .. n
      /\ \A b \in 0 .. m - 1 : a + b \in 0 .. n - 1 /\ b \in 0 .. m /\ b + 1 \in 0 .. m
                               /\ a + (b + 1) = (a + b) + 1
      /\ \A b \in 1 .. m - 1 : a + b \in a + 1 .. n - 1 /\ b \in 0 .. m
      /\ a + 0 = a /\ a + m = n
  OBVIOUS
<1>2. \A b \in 0 .. m : v[b] = w[a + b] OBVIOUS
<1>3. v \in [0 .. m -> Grid] BY <1>1 DEF IsWalk
<1>. HIDE DEF v, m
<1>4. IsWalk(T, w[a], q, m, v)
  <2>1. v[0] = w[a] /\ v[m] = q BY <1>1, <1>2 DEF IsWalk
  <2>2. ASSUME NEW b \in 0 .. m - 1 PROVE IsStep(v[b], v[b + 1])
    <3>1. v[b] = w[a + b] /\ v[b + 1] = w[(a + b) + 1] BY <1>1, <1>2
    <3>. QED BY <1>1, <3>1 DEF IsWalk
  <2>3. ASSUME NEW b \in 1 .. m - 1 PROVE v[b] \in T BY <1>1, <1>2
  <2>. QED BY <1>3, <2>1, <2>2, <2>3 DEF IsWalk
<1>. QED BY <1>1, <1>4 DEF Joined, m

(* Two walks, one after the other.                                         *)
LEMMA Concatenated ==
  ASSUME NEW S, NEW p, NEW q, NEW r \in S, NEW m, NEW n,
         Joined(S, p, r, m), Joined(S, r, q, n)
  PROVE  Joined(S, p, q, m + n)
<1>1. PICK u : IsWalk(S, p, r, m, u) BY DEF Joined
<1>2. PICK v : IsWalk(S, r, q, n, v) BY DEF Joined
<1>3. m \in Nat \ {0} /\ n \in Nat \ {0} /\ m + n \in Nat \ {0} BY DEF Joined
<1>. DEFINE w == [a \in 0 .. m + n |-> IF a <= m THEN u[a] ELSE v[a - m]]
<1>4. /\ \A a \in 0 .. m : a \in 0 .. m + n /\ a <= m
      /\ \A a \in 0 .. n : a + m \in 0 .. m + n /\ (a + m) - m = a
                           /\ (a + m <= m => a = 0)
  BY <1>3
<1>5. u[m] = r /\ v[0] = r BY <1>1, <1>2 DEF IsWalk
<1>6. \A a \in 0 .. m : w[a] = u[a] BY <1>4
<1>7. \A a \in 0 .. n : w[a + m] = v[a]
  <2>1. ASSUME NEW a \in 0 .. n PROVE w[a + m] = v[a]
    <3>1. CASE a = 0
      <4>1. a + m = m /\ m \in 0 .. m BY <1>3, <3>1
      <4>. QED BY <1>5, <1>6, <3>1, <4>1
    <3>2. CASE a # 0 BY <1>4, <3>2
    <3>. QED BY <3>1, <3>2
  <2>. QED BY <2>1
<1>8. w \in [0 .. m + n -> Grid]
  <2>1. ASSUME NEW a \in 0 .. m + n
        PROVE  (IF a <= m THEN u[a] ELSE v[a - m]) \in Grid
    <3>1. CASE a <= m
      <4>1. a \in 0 .. m BY <1>3, <3>1
      <4>. QED BY <1>1, <3>1, <4>1 DEF IsWalk
    <3>2. CASE ~(a <= m)
      <4>1. a - m \in 0 .. n BY <1>3, <3>2
      <4>. QED BY <1>2, <3>2, <4>1 DEF IsWalk
    <3>. QED BY <3>1, <3>2
  <2>. QED BY <2>1
<1>. HIDE DEF w
<1>9. w[0] = p /\ w[m + n] = q
  <2>1. 0 \in 0 .. m /\ n \in 0 .. n /\ n + m = m + n BY <1>3
  <2>2. w[0] = u[0] /\ w[n + m] = v[n] BY <1>6, <1>7, <2>1
  <2>. QED BY <1>1, <1>2, <2>1, <2>2 DEF IsWalk
<1>10. ASSUME NEW a \in 0 .. (m + n) - 1 PROVE IsStep(w[a], w[a + 1])
  <2>1. CASE a < m
    <3>1. a \in 0 .. m - 1 /\ a \in 0 .. m /\ a + 1 \in 0 .. m BY <1>3, <2>1
    <3>. QED BY <1>1, <1>6, <3>1 DEF IsWalk
  <2>2. CASE ~(a < m)
    <3>. DEFINE b == a - m
    <3>1. /\ b \in 0 .. n - 1 /\ b \in 0 .. n /\ b + 1 \in 0 .. n
          /\ b + m = a /\ (b + 1) + m = a + 1
      BY <1>3, <2>2
    <3>. HIDE DEF b
    <3>2. w[a] = v[b] /\ w[a + 1] = v[b + 1] BY <1>7, <3>1
    <3>. QED BY <1>2, <3>1, <3>2 DEF IsWalk
  <2>. QED BY <2>1, <2>2
<1>11. ASSUME NEW a \in 1 .. (m + n) - 1 PROVE w[a] \in S
  <2>1. CASE a < m
    <3>1. a \in 1 .. m - 1 /\ a \in 0 .. m BY <1>3, <2>1
    <3>. QED BY <1>1, <1>6, <3>1 DEF IsWalk
  <2>2. CASE a = m
    <3>1. a \in 0 .. m BY <1>3, <2>2
    <3>. QED BY <1>5, <1>6, <2>2, <3>1
  <2>3. CASE ~(a <= m)
    <3>. DEFINE b == a - m
    <3>1. b \in 1 .. n - 1 /\ b \in 0 .. n /\ b + m = a BY <1>3, <2>3
    <3>. HIDE DEF b
    <3>2. w[a] = v[b] BY <1>7, <3>1
    <3>. QED BY <1>2, <3>1, <3>2 DEF IsWalk
  <2>4. a < m \/ a = m \/ ~(a <= m) BY <1>3
  <2>. QED BY <2>1, <2>2, <2>3, <2>4
<1>12. IsWalk(S, p, q, m + n, w) BY <1>8, <1>9, <1>10, <1>11 DEF IsWalk
<1>. QED BY <1>3, <1>12 DEF Joined

(* A walk through S is one through any larger set.                         *)
LEMMA Wider ==
  ASSUME NEW S, NEW T, S \subseteq T, NEW p, NEW q, NEW n, Joined(S, p, q, n)
  PROVE  Joined(T, p, q, n)
BY DEF Joined, IsWalk

(* A walk through S and r goes through S alone, or there are ways through  *)
(* S to r and from r that are together no longer.                          *)
LEMMA Divided ==
  ASSUME NEW S, NEW r, NEW p, NEW q, NEW n, Joined(S \union {r}, p, q, n)
  PROVE  \/ Joined(S, p, q, n)
         \/ \E m, l \in Nat : /\ Joined(S, p, r, m) /\ Joined(S, r, q, l)
                              /\ m + l <= n
<1>1. n \in Nat \ {0} BY DEF Joined
<1>2. PICK w : IsWalk(S \union {r}, p, q, n, w) BY DEF Joined
<1>. DEFINE Visits == {a \in 1 .. n - 1 : w[a] = r}
<1>3. CASE Visits = {}
  <2>1. \A a \in 1 .. n - 1 : w[a] \in S BY <1>2, <1>3 DEF IsWalk
  <2>2. IsWalk(S, p, q, n, w) BY <1>2, <2>1 DEF IsWalk
  <2>. QED BY <1>1, <2>2 DEF Joined
<1>4. CASE Visits # {}
  <2>1. PICK a \in Visits : \A b \in Visits : a <= b
    <3>1. Visits \in SUBSET Nat BY <1>1
    <3>. HIDE DEF Visits
    <3>. QED BY <1>4, <3>1, LeastNat
  <2>. DEFINE Left == {n - b : b \in Visits}
  <2>2. PICK c \in Left : \A b \in Left : c <= b
    <3>1. Left \in SUBSET Nat /\ Left # {} BY <1>1, <1>4
    <3>. HIDE DEF Left
    <3>. QED BY <3>1, LeastNat
  <2>3. a \in 1 .. n - 1 /\ a \in 1 .. n /\ w[a] = r BY <1>1
  <2>4. PICK z \in 1 .. n - 1 : c = n - z /\ w[z] = r OBVIOUS
  <2>5. a <= z
    <3>1. z \in Visits BY <2>4
    <3>. HIDE DEF Visits
    <3>. QED BY <2>1, <3>1
  <2>6. \A b \in 1 .. a - 1 : w[b] \in S
    <3>1. ASSUME NEW b \in 1 .. a - 1 PROVE w[b] \in S
      <4>1. b \in 1 .. n - 1 /\ ~(a <= b) BY <1>1, <2>3
      <4>2. b \notin Visits BY <2>1, <4>1
      <4>3. w[b] # r BY <4>1, <4>2
      <4>. QED BY <1>2, <4>1, <4>3 DEF IsWalk
    <3>. QED BY <3>1
  <2>7. \A b \in z + 1 .. n - 1 : w[b] \in S
    <3>1. ASSUME NEW b \in z + 1 .. n - 1 PROVE w[b] \in S
      <4>1. b \in 1 .. n - 1 /\ ~(n - z <= n - b) BY <1>1, <2>4
      <4>2. n - b \notin Left BY <2>2, <2>4, <4>1
      <4>3. b \notin Visits BY <4>2
      <4>4. w[b] # r BY <4>1, <4>3
      <4>. QED BY <1>2, <4>1, <4>4 DEF IsWalk
    <3>. QED BY <3>1
  <2>8. Joined(S, p, r, a)
    <3>1. Joined(S, p, w[a], a)
      <4>. HIDE DEF Visits
      <4>. QED BY <1>1, <1>2, <2>3, <2>6, Beginning
    <3>. QED BY <2>3, <3>1
  <2>9. Joined(S, r, q, n - z)
    <3>1. z \in 0 .. n - 1 BY <1>1, <2>4
    <3>2. Joined(S, w[z], q, n - z) BY <1>1, <1>2, <2>7, <3>1, End
    <3>. QED BY <2>4, <3>2
  <2>10. a \in Nat /\ n - z \in Nat /\ a + (n - z) <= n BY <1>1, <2>3, <2>4, <2>5
  <2>. QED BY <2>8, <2>9, <2>10
<1>. QED BY <1>3, <1>4
--------------------------------------------------------------------------------
(* Shortest walks *)

(* A walk that comes back to a point can leave the way in between out.     *)
LEMMA Cut ==
  ASSUME NEW S, NEW p, NEW q, NEW n \in Nat, NEW w, IsWalk(S, p, q, n, w),
         NEW a \in 0 .. n - 1, NEW b \in 0 .. n - 1, a < b, w[a] = w[b]
  PROVE  Joined(S, p, q, n - (b - a))
<1>1. Joined(S, w[b], q, n - b)
  <2>1. \A c \in b + 1 .. n - 1 : c \in 1 .. n - 1 OBVIOUS
  <2>2. \A c \in b + 1 .. n - 1 : w[c] \in S BY <2>1 DEF IsWalk
  <2>. QED BY <2>2, End
<1>2. CASE a = 0
  <2>1. w[b] = p /\ n - (b - a) = n - b BY <1>2 DEF IsWalk
  <2>. QED BY <1>1, <2>1
<1>3. CASE a # 0
  <2>1. a \in 1 .. n /\ a \in 1 .. n - 1 BY <1>3
  <2>2. \A c \in 1 .. a - 1 : c \in 1 .. n - 1 BY <2>1
  <2>3. w[a] \in S /\ \A c \in 1 .. a - 1 : w[c] \in S BY <2>1, <2>2 DEF IsWalk
  <2>4. Joined(S, p, w[a], a) BY <2>1, <2>3, Beginning
  <2>5. Joined(S, p, q, a + (n - b)) BY <1>1, <2>3, <2>4, Concatenated
  <2>6. a + (n - b) = n - (b - a) OBVIOUS
  <2>. QED BY <2>5, <2>6
<1>. QED BY <1>2, <1>3

(* The number of cells of the map.                                         *)
LEMMA GridSize ==
  /\ IsFiniteSet(Grid) /\ Cardinality(Grid) = Width * Height
  /\ Width * Height \in Nat
<1>. DEFINE X == 0 .. Width - 1
            Y == 0 .. Height - 1
<1>1. /\ IsFiniteSet(X) /\ Cardinality(X) = Width
      /\ IsFiniteSet(Y) /\ Cardinality(Y) = Height
  <2>1. /\ IsFiniteSet(0 .. Width - 1)
        /\ Cardinality(0 .. Width - 1)
             = IF 0 > Width - 1 THEN 0 ELSE Width - 1 - 0 + 1
    BY SizeAssumption, FS_Interval
  <2>2. /\ IsFiniteSet(0 .. Height - 1)
        /\ Cardinality(0 .. Height - 1)
             = IF 0 > Height - 1 THEN 0 ELSE Height - 1 - 0 + 1
    BY SizeAssumption, FS_Interval
  <2>. QED BY <2>1, <2>2, SizeAssumption
<1>. HIDE DEF X, Y
<1>2. IsFiniteSet(X \X Y) /\ Cardinality(X \X Y) = Cardinality(X) * Cardinality(Y)
  BY <1>1, FS_Product
<1>3. Grid = X \X Y BY DEF Grid, Points, X, Y
<1>. QED BY <1>1, <1>2, <1>3, SizeAssumption

(* A shortest walk visits no point twice, and so is no longer than the map *)
(* has cells, or than S has points, and one step.                          *)
LEMMA ShortWalk ==
  ASSUME NEW S \in SUBSET Grid, NEW p, NEW q, NEW n, Joined(S, p, q, n),
         \A m \in Nat : Joined(S, p, q, m) => n <= m
  PROVE  /\ n \in 1 .. Width * Height
         /\ Cardinality(S) \in Nat /\ n \in 1 .. Cardinality(S) + 1
<1>1. n \in Nat \ {0} BY DEF Joined
<1>2. PICK w : IsWalk(S, p, q, n, w) BY DEF Joined
<1>3. ASSUME NEW a \in 0 .. n - 1, NEW b \in 0 .. n - 1, a < b PROVE w[a] # w[b]
  <2>1. SUFFICES ASSUME w[a] = w[b] PROVE FALSE OBVIOUS
  <2>2. Joined(S, p, q, n - (b - a)) BY <1>1, <1>2, <1>3, <2>1, Cut
  <2>3. n - (b - a) \in Nat /\ ~(n <= n - (b - a)) BY <1>1, <1>3
  <2>. QED BY <2>2, <2>3
<1>4. \A a, b \in 0 .. n - 1 : w[a] = w[b] => a = b
  <2>1. ASSUME NEW a \in 0 .. n - 1, NEW b \in 0 .. n - 1, w[a] = w[b]
        PROVE  a = b
    <3>1. a < b \/ b < a \/ a = b BY <1>1
    <3>. QED BY <1>3, <2>1, <3>1
  <2>. QED BY <2>1
<1>5. n <= Width * Height
  <2>. DEFINE f == [a \in 0 .. n - 1 |-> w[a]]
  <2>1. SUFFICES ASSUME n > Width * Height PROVE FALSE BY <1>1, GridSize
  <2>2. \A a \in 0 .. n - 1 : a \in 0 .. n BY <1>1
  <2>3. f \in [0 .. n - 1 -> Grid] BY <1>2, <2>2 DEF IsWalk
  <2>4. /\ IsFiniteSet(0 .. n - 1)
        /\ Cardinality(0 .. n - 1) = IF 0 > n - 1 THEN 0 ELSE n - 1 - 0 + 1
    BY <1>1, FS_Interval
  <2>5. Cardinality(Grid) < Cardinality(0 .. n - 1) BY <1>1, <2>1, <2>4, GridSize
  <2>6. \A a \in 0 .. n - 1 : f[a] = w[a] OBVIOUS
  <2>. HIDE DEF f
  <2>7. PICK a, b \in 0 .. n - 1 : a # b /\ f[a] = f[b]
    BY <2>3, <2>4, <2>5, GridSize, FS_PigeonHole
  <2>. QED BY <1>4, <2>6, <2>7
<1>6. IsFiniteSet(S) /\ Cardinality(S) \in Nat
  <2>1. IsFiniteSet(S) BY GridSize, FS_Subset
  <2>. QED BY <2>1, FS_CardinalityType
<1>7. n - 1 <= Cardinality(S)
  <2>. DEFINE f == [a \in 1 .. n - 1 |-> w[a]]
  <2>1. SUFFICES ASSUME n - 1 > Cardinality(S) PROVE FALSE BY <1>1, <1>6
  <2>2. \A a \in 1 .. n - 1 : a \in 0 .. n - 1 BY <1>1
  <2>3. f \in [1 .. n - 1 -> S] BY <1>2 DEF IsWalk
  <2>4. /\ IsFiniteSet(1 .. n - 1)
        /\ Cardinality(1 .. n - 1) = IF 1 > n - 1 THEN 0 ELSE n - 1 - 1 + 1
    BY <1>1, FS_Interval
  <2>5. Cardinality(S) < Cardinality(1 .. n - 1) BY <1>1, <1>6, <2>1, <2>4
  <2>6. \A a \in 1 .. n - 1 : f[a] = w[a] OBVIOUS
  <2>. HIDE DEF f
  <2>7. PICK a, b \in 1 .. n - 1 : a # b /\ f[a] = f[b]
    BY <1>6, <2>3, <2>4, <2>5, FS_PigeonHole
  <2>. QED BY <1>4, <2>2, <2>6, <2>7
<1>. QED BY <1>1, <1>5, <1>6, <1>7, GridSize

(* d is the length of a shortest walk from p to q through S, or inf.       *)
IsShortest(S, p, q, d) ==
  \/ d = inf /\ \A m \in Nat : ~Joined(S, p, q, m)
  \/ /\ d \in 1 .. Width * Height /\ Joined(S, p, q, d)
     /\ \A m \in Nat : Joined(S, p, q, m) => d <= m

(* There is one such number.                                               *)
LEMMA ShortestUnique ==
  ASSUME NEW S, NEW p, NEW q, NEW d, NEW e,
         IsShortest(S, p, q, d), IsShortest(S, p, q, e)
  PROVE  d = e
<1>1. Width * Height \in Nat BY GridSize
<1>2. CASE d = inf /\ \A m \in Nat : ~Joined(S, p, q, m)
  <2>1. ~Joined(S, p, q, e) \/ e \notin 1 .. Width * Height BY <1>1, <1>2
  <2>. QED BY <1>2, <2>1 DEF IsShortest
<1>3. CASE /\ d \in 1 .. Width * Height /\ Joined(S, p, q, d)
           /\ \A m \in Nat : Joined(S, p, q, m) => d <= m
  <2>1. d \in Nat BY <1>1, <1>3
  <2>2. /\ e \in 1 .. Width * Height /\ Joined(S, p, q, e)
        /\ \A m \in Nat : Joined(S, p, q, m) => e <= m
    BY <1>3, <2>1 DEF IsShortest
  <2>3. e \in Nat BY <1>1, <2>2
  <2>4. d <= e /\ e <= d BY <1>3, <2>1, <2>2, <2>3
  <2>. QED BY <2>1, <2>3, <2>4
<1>. QED BY <1>2, <1>3 DEF IsShortest

(* There is one for every pair.                                            *)
LEMMA ShortestExists ==
  ASSUME NEW S \in SUBSET Grid, NEW p, NEW q
  PROVE  \E d : IsShortest(S, p, q, d)
<1>. DEFINE Lengths == {m \in Nat : Joined(S, p, q, m)}
<1>1. CASE Lengths = {}
  <2>1. IsShortest(S, p, q, inf) BY <1>1 DEF IsShortest
  <2>. QED BY <2>1
<1>2. CASE Lengths # {}
  <2>1. PICK d \in Lengths : \A m \in Lengths : d <= m
    <3>1. Lengths \in SUBSET Nat OBVIOUS
    <3>. HIDE DEF Lengths
    <3>. QED BY <1>2, <3>1, LeastNat
  <2>2. Joined(S, p, q, d) /\ \A m \in Nat : Joined(S, p, q, m) => d <= m
    BY <2>1
  <2>3. d \in 1 .. Width * Height
    <3>. HIDE DEF Lengths
    <3>. QED BY <2>2, ShortWalk
  <2>4. IsShortest(S, p, q, d) BY <2>2, <2>3 DEF IsShortest
  <2>. QED BY <2>4
<1>. QED BY <1>1, <1>2
--------------------------------------------------------------------------------
(* Shortest is the shortest walk *)

(* The recursive function Walk(S) satisfies its equation.                  *)
LEMMA WalkDef ==
  ASSUME NEW S, Cardinality(S) \in Nat, NEW n \in 1 .. Cardinality(S) + 1
  PROVE  Walk(S)[n] = IF n = 1 THEN Steps ELSE Longer(Walk(S)[n - 1], S)
<1>. DEFINE Body(g, a) == IF a = 1 THEN Steps ELSE Longer(g[a - 1], S)
            Upto(m) == \E g : g = [a \in 1 .. m |-> Body(g, a)]
            Bad == {m \in Nat : ~Upto(m)}
            Last == Cardinality(S) + 1
<1>1. Upto(Last)
  <2>1. SUFFICES ASSUME Bad # {} PROVE FALSE OBVIOUS
  <2>2. PICK m \in Bad : \A a \in Bad : m <= a
    <3>. HIDE DEF Bad
    <3>1. Bad \in SUBSET Nat BY DEF Bad
    <3>. QED BY <2>1, <3>1, LeastNat
  <2>3. CASE m = 0
    <3>. DEFINE g == [a \in 1 .. 0 |-> {}]
    <3>1. 1 .. 0 = {} OBVIOUS
    <3>. HIDE DEF Body
    <3>2. g = [a \in 1 .. 0 |-> Body(g, a)] BY <3>1
    <3>. QED BY <2>2, <2>3, <3>2
  <2>4. CASE m # 0
    <3>1. m - 1 \in Nat /\ m - 1 \notin Bad
      <4>1. m \in Nat BY DEF Bad
      <4>2. m - 1 \in Nat /\ ~(m <= m - 1) BY <2>4, <4>1
      <4>. HIDE DEF Bad
      <4>. QED BY <2>2, <4>2
    <3>2. PICK g : g = [a \in 1 .. m - 1 |-> Body(g, a)] BY <3>1
    <3>. DEFINE h == [a \in 1 .. m |-> Body(g, a)]
    <3>3. ASSUME NEW a \in 1 .. m, a # 1 PROVE h[a - 1] = g[a - 1]
      <4>1. a - 1 \in 1 .. m - 1 /\ a - 1 \in 1 .. m BY <2>2, <3>3
      <4>. QED BY <3>2, <4>1
    <3>4. ASSUME NEW a \in 1 .. m PROVE Body(g, a) = Body(h, a)
      BY <3>3, <3>4
    <3>. HIDE DEF Body
    <3>5. h = [a \in 1 .. m |-> Body(h, a)] BY <3>4
    <3>. QED BY <2>2, <3>5
  <2>. QED BY <2>3, <2>4
<1>2. PICK g : g = [a \in 1 .. Last |-> Body(g, a)] BY <1>1
<1>3. Walk(S) = [a \in 1 .. Last |-> Body(Walk(S), a)] BY <1>2 DEF Walk
<1>. HIDE DEF Body
<1>4. Walk(S)[n] = Body(Walk(S), n) BY <1>3
<1>. QED BY <1>4 DEF Body

(* Walk(S)[n] holds the pairs that a walk of n steps through S joins.      *)
LEMMA WalkIsJoined ==
  ASSUME NEW S \in SUBSET Grid, Cardinality(S) \in Nat,
         NEW n \in 1 .. Cardinality(S) + 1, NEW e
  PROVE  e \in Walk(S)[n] <=> e \in Grid \X Grid /\ Joined(S, e[1], e[2], n)
<1>. DEFINE Is(m) == \A x : x \in Walk(S)[m]
                              <=> x \in Grid \X Grid /\ Joined(S, x[1], x[2], m)
            Bad == {m \in 1 .. Cardinality(S) + 1 : ~Is(m)}
<1>1. SUFFICES ASSUME Bad # {} PROVE FALSE OBVIOUS
<1>2. PICK m \in Bad : \A a \in Bad : m <= a
  <2>1. Bad \in SUBSET Nat OBVIOUS
  <2>. HIDE DEF Bad
  <2>. QED BY <1>1, <2>1, LeastNat
<1>3. m \in 1 .. Cardinality(S) + 1 /\ ~Is(m) OBVIOUS
<1>4. CASE m = 1
  <2>1. Walk(S)[m] = Steps BY <1>3, <1>4, WalkDef
  <2>2. ASSUME NEW x \in Grid \X Grid
        PROVE  Joined(S, x[1], x[2], 1) <=> IsStep(x[1], x[2])
    BY OneStep
  <2>. QED BY <1>3, <1>4, <2>1, <2>2 DEF Steps
<1>5. CASE m # 1
  <2>1. /\ m - 1 \in 1 .. Cardinality(S) + 1 /\ ~(m <= m - 1)
        /\ (m - 1) + 1 = m
    BY <1>3, <1>5
  <2>2. Is(m - 1) BY <1>2, <2>1
  <2>3. Walk(S)[m] = Longer(Walk(S)[m - 1], S) BY <1>3, <1>5, WalkDef
  <2>. HIDE DEF Bad
  <2>4. ASSUME NEW x \in Walk(S)[m]
        PROVE  x \in Grid \X Grid /\ Joined(S, x[1], x[2], m)
    <3>1. PICK y \in Walk(S)[m - 1], q \in Grid :
            y[2] \in S /\ IsStep(y[2], q) /\ x = <<y[1], q>>
      BY <2>3 DEF Longer
    <3>2. y \in Grid \X Grid /\ Joined(S, y[1], y[2], m - 1) BY <2>2
    <3>3. Joined(S, y[2], q, 1) BY <3>1, <3>2, OneStep
    <3>4. Joined(S, y[1], q, (m - 1) + 1) BY <3>1, <3>2, <3>3, Concatenated
    <3>. QED BY <2>1, <3>1, <3>2, <3>4
  <2>5. ASSUME NEW x \in Grid \X Grid, Joined(S, x[1], x[2], m)
        PROVE  x \in Walk(S)[m]
    <3>1. PICK w : IsWalk(S, x[1], x[2], m, w) BY <2>5 DEF Joined
    <3>2. /\ m \in Nat /\ m - 1 \in 1 .. m /\ m - 1 \in 0 .. m - 1
          /\ m - 1 \in 1 .. m - 1 /\ m - 1 \in 0 .. m /\ m \in 0 .. m
          /\ \A a \in 1 .. (m - 1) - 1 : a \in 1 .. m - 1
      BY <2>1, <1>3
    <3>3. /\ w[m - 1] \in S /\ w[m - 1] \in Grid /\ w[m] = x[2]
          /\ IsStep(w[m - 1], w[(m - 1) + 1])
          /\ \A a \in 1 .. (m - 1) - 1 : w[a] \in S
      BY <3>1, <3>2 DEF IsWalk
    <3>4. Joined(S, x[1], w[m - 1], m - 1) BY <3>1, <3>2, <3>3, Beginning
    <3>. DEFINE y == <<x[1], w[m - 1]>>
    <3>5. y \in Walk(S)[m - 1] BY <2>2, <3>3, <3>4
    <3>6. IsStep(y[2], x[2]) /\ y[2] \in S /\ x = <<y[1], x[2]>>
      BY <2>1, <3>3
    <3>7. x[2] \in Grid OBVIOUS
    <3>. HIDE DEF y
    <3>. QED BY <2>3, <3>5, <3>6, <3>7 DEF Longer
  <2>. QED BY <1>3, <2>4, <2>5
<1>. QED BY <1>4, <1>5

(* The definition the run computes with is the shortest walk.              *)
LEMMA ShortestIs ==
  ASSUME NEW S \in SUBSET Grid, NEW p \in Grid, NEW q \in Grid
  PROVE  IsShortest(S, p, q, Shortest(S)[<<p, q>>])
<1>. DEFINE N == Cardinality(S) + 1
            walk == [n \in 1 .. N |-> Walk(S)[n]]
            lengths == {n \in 1 .. N : <<p, q>> \in walk[n]}
<1>1. Cardinality(S) \in Nat
  <2>1. IsFiniteSet(S) BY GridSize, FS_Subset
  <2>. QED BY <2>1, FS_CardinalityType
<1>2. \A n \in 1 .. N : n \in lengths <=> Joined(S, p, q, n)
  BY <1>1, WalkIsJoined
<1>3. Shortest(S)[<<p, q>>] =
        IF lengths = {} THEN inf
        ELSE CHOOSE n \in lengths : \A m \in lengths : n <= m
  <2>. DEFINE at(e) == {n \in DOMAIN walk : e \in walk[n]}
  <2>1. Shortest(S) = [ e \in Grid \X Grid |->
                          IF at(e) = {} THEN inf
                          ELSE CHOOSE n \in at(e) : \A m \in at(e) : n <= m ]
    BY DEF Shortest
  <2>2. at(<<p, q>>) = lengths OBVIOUS
  <2>. HIDE DEF at, lengths
  <2>3. <<p, q>> \in Grid \X Grid OBVIOUS
  <2>. QED BY <2>1, <2>2, <2>3
<1>4. PICK d : IsShortest(S, p, q, d) BY ShortestExists
<1>5. CASE d = inf /\ \A m \in Nat : ~Joined(S, p, q, m)
  <2>1. lengths = {} BY <1>1, <1>2, <1>5
  <2>. HIDE DEF lengths
  <2>. QED BY <1>3, <1>4, <1>5, <2>1
<1>6. CASE /\ d \in 1 .. Width * Height /\ Joined(S, p, q, d)
           /\ \A m \in Nat : Joined(S, p, q, m) => d <= m
  <2>1. d \in 1 .. N BY <1>6, ShortWalk
  <2>2. d \in lengths BY <1>2, <1>6, <2>1
  <2>3. \A m \in lengths : d <= m
    <3>1. \A m \in lengths : m \in Nat /\ Joined(S, p, q, m) BY <1>1, <1>2
    <3>. HIDE DEF lengths
    <3>. QED BY <1>6, <3>1
  <2>4. \A n \in lengths : (\A m \in lengths : n <= m) => n = d
    <3>1. \A n \in lengths : n \in Int BY <1>1
    <3>. HIDE DEF lengths
    <3>. QED BY <2>2, <2>3, <3>1
  <2>. HIDE DEF lengths
  <2>5. (CHOOSE n \in lengths : \A m \in lengths : n <= m) = d
    BY <2>2, <2>3, <2>4
  <2>. QED BY <1>3, <1>4, <2>2, <2>5
<1>. QED BY <1>4, <1>5, <1>6 DEF IsShortest

--------------------------------------------------------------------------------
(* What one turn of the outer loop should do *)

(* A table of shortest walks has the type of floyd_dist.                   *)
LEMMA ShortestType ==
  ASSUME NEW S \in SUBSET Grid
  PROVE  Shortest(S) \in [Grid \X Grid -> 1 .. Width * Height \union {inf}]
<1>1. ASSUME NEW e \in Grid \X Grid
      PROVE  Shortest(S)[e] \in 1 .. Width * Height \union {inf}
  <2>1. e = <<e[1], e[2]>> /\ e[1] \in Grid /\ e[2] \in Grid OBVIOUS
  <2>2. IsShortest(S, e[1], e[2], Shortest(S)[<<e[1], e[2]>>])
    BY <2>1, ShortestIs
  <2>. QED BY <2>1, <2>2 DEF IsShortest
<1>. DEFINE walk == [n \in 1 .. Cardinality(S) + 1 |-> Walk(S)[n]]
            at(e) == {n \in DOMAIN walk : e \in walk[n]}
            least(e) == IF at(e) = {} THEN inf
                        ELSE CHOOSE n \in at(e) : \A m \in at(e) : n <= m
<1>2. Shortest(S) = [e \in Grid \X Grid |-> least(e)] BY DEF Shortest
<1>. HIDE DEF least
<1>. QED BY <1>1, <1>2

(* The first loop: before any point has been through the outer loop, the   *)
(* only ways are the single steps.                                         *)
LEMMA NoInnerPoint ==
  ASSUME NEW p \in Grid, NEW q \in Grid
  PROVE  Shortest({})[<<p, q>>] = Adjacent(cells)[<<p, q>>]
<1>. DEFINE d == Shortest({})[<<p, q>>]
<1>1. IsShortest({}, p, q, d) BY ShortestIs
<1>2. ASSUME NEW m \in Nat, Joined({}, p, q, m) PROVE m = 1 /\ IsStep(p, q)
  <2>1. PICK w : IsWalk({}, p, q, m, w) BY <1>2 DEF Joined
  <2>2. m \in Nat \ {0} /\ (m # 1 => 1 \in 1 .. m - 1) BY <1>2 DEF Joined
  <2>3. m = 1 BY <2>1, <2>2 DEF IsWalk
  <2>. QED BY <1>2, <2>3, OneStep
<1>3. Adjacent(cells)[<<p, q>>] = IF IsStep(p, q) THEN 1 ELSE inf
  <2>1. /\ cells[p] = "FREE" /\ cells[q] = "FREE" /\ HasNeigh(p, q)
        <=> IsStep(p, q)
    BY DEF IsStep
  <2>. QED BY <2>1 DEF Adjacent
<1>4. CASE IsStep(p, q)
  <2>1. Joined({}, p, q, 1) BY <1>4, OneStep
  <2>2. ~ \A m \in Nat : ~Joined({}, p, q, m) BY <2>1
  <2>3. d \in 1 .. Width * Height /\ Joined({}, p, q, d)
    BY <1>1, <2>2 DEF IsShortest
  <2>4. d = 1 BY <1>2, <2>3
  <2>. QED BY <1>3, <1>4, <2>4
<1>5. CASE ~IsStep(p, q)
  <2>1. \A m \in Nat : ~Joined({}, p, q, m) BY <1>2, <1>5
  <2>2. \A m \in 1 .. Width * Height : m \in Nat OBVIOUS
  <2>3. d = inf BY <1>1, <2>1, <2>2 DEF IsShortest
  <2>. QED BY <1>3, <1>5, <2>3
<1>. QED BY <1>4, <1>5

(* A walk begins and ends at FREE cells.                                   *)
LEMMA FreeEnds ==
  ASSUME NEW S \in SUBSET Grid, NEW p \in Grid, NEW q \in Grid,
         ~(p \in Free /\ q \in Free)
  PROVE  Shortest(S)[<<p, q>>] = inf
<1>1. ASSUME NEW m \in Nat, Joined(S, p, q, m) PROVE FALSE
  <2>1. PICK w : IsWalk(S, p, q, m, w) BY <1>1 DEF Joined
  <2>2. /\ m \in Nat \ {0} /\ 0 \in 0 .. m - 1 /\ m - 1 \in 0 .. m - 1
        /\ (m - 1) + 1 = m
    BY <1>1 DEF Joined
  <2>3. IsStep(w[0], w[0 + 1]) /\ IsStep(w[m - 1], w[(m - 1) + 1])
    BY <2>1, <2>2 DEF IsWalk
  <2>4. cells[p] = "FREE" /\ cells[q] = "FREE"
    BY <2>1, <2>2, <2>3 DEF IsWalk, IsStep
  <2>. QED BY <2>4 DEF Free
<1>2. IsShortest(S, p, q, Shortest(S)[<<p, q>>]) BY ShortestIs
<1>3. \A m \in 1 .. Width * Height : m \in Nat OBVIOUS
<1>. QED BY <1>1, <1>2, <1>3 DEF IsShortest

(* With one more inner point r, the shortest way from p to q is the one    *)
(* there was, or the shortest to r and the shortest from r.                *)
LEMMA Through ==
  ASSUME NEW S \in SUBSET Grid, NEW r \in Grid, NEW p \in Grid, NEW q \in Grid
  PROVE  Shortest(S \union {r})[<<p, q>>] =
           IF Shortest(S)[<<p, r>>] = inf \/ Shortest(S)[<<r, q>>] = inf
           THEN Shortest(S)[<<p, q>>]
           ELSE Shorter(Shortest(S)[<<p, q>>],
                        Shortest(S)[<<p, r>>] + Shortest(S)[<<r, q>>])
<1>. DEFINE T == S \union {r}
            a == Shortest(S)[<<p, r>>]
            b == Shortest(S)[<<r, q>>]
            d == Shortest(S)[<<p, q>>]
            e == Shortest(T)[<<p, q>>]
<1>1. /\ IsShortest(S, p, r, a) /\ IsShortest(S, r, q, b)
      /\ IsShortest(S, p, q, d) /\ IsShortest(T, p, q, e)
  <2>1. T \in SUBSET Grid OBVIOUS
  <2>. QED BY <2>1, ShortestIs
<1>. HIDE DEF a, b, d, e
<1>2. \A m \in 1 .. Width * Height : m \in Nat \ {0} /\ m < inf
  BY GridSize, SizeAssumption DEF inf
<1>3. \A m : Joined(S, p, q, m) => Joined(T, p, q, m) BY Wider
<1>4. \A m : Joined(T, p, q, m) =>
               \/ Joined(S, p, q, m)
               \/ \E f, l \in Nat : /\ Joined(S, p, r, f) /\ Joined(S, r, q, l)
                                    /\ f + l <= m
  BY Divided
<1>. HIDE DEF T
<1>5. CASE a = inf \/ b = inf
  <2>1. (\A m \in Nat : ~Joined(S, p, r, m)) \/ (\A m \in Nat : ~Joined(S, r, q, m))
    BY <1>1, <1>2, <1>5 DEF IsShortest
  <2>2. \A m : Joined(T, p, q, m) <=> Joined(S, p, q, m) BY <1>3, <1>4, <2>1
  <2>3. IsShortest(T, p, q, d) BY <1>1, <2>2 DEF IsShortest
  <2>4. e = d BY <1>1, <2>3, ShortestUnique
  <2>. QED BY <1>5, <2>4 DEF a, b, d, e, T
<1>6. CASE a # inf /\ b # inf
  <2>1. /\ a \in 1 .. Width * Height /\ Joined(S, p, r, a)
        /\ \A m \in Nat : Joined(S, p, r, m) => a <= m
        /\ b \in 1 .. Width * Height /\ Joined(S, r, q, b)
        /\ \A m \in Nat : Joined(S, r, q, m) => b <= m
    BY <1>1, <1>6 DEF IsShortest
  <2>2. a \in Nat /\ b \in Nat /\ a + b \in Nat BY <1>2, <2>1
  <2>3. Joined(T, p, q, a + b)
    <3>1. r \in T /\ S \subseteq T BY DEF T
    <3>2. Joined(T, p, r, a) /\ Joined(T, r, q, b) BY <2>1, <3>1, Wider
    <3>. QED BY <3>1, <3>2, Concatenated
  <2>4. /\ e \in 1 .. Width * Height /\ Joined(T, p, q, e)
        /\ \A m \in Nat : Joined(T, p, q, m) => e <= m
    BY <1>1, <2>2, <2>3 DEF IsShortest
  <2>5. e \in Nat /\ e < inf /\ e <= a + b BY <1>2, <2>2, <2>3, <2>4
  <2>6. d \in Nat /\ e <= d
    <3>1. CASE d = inf BY <2>5, <3>1 DEF inf
    <3>2. CASE d # inf
      <4>1. d \in 1 .. Width * Height /\ Joined(S, p, q, d)
        BY <1>1, <3>2 DEF IsShortest
      <4>. QED BY <1>2, <1>3, <2>4, <4>1
    <3>. QED BY <3>1, <3>2
  <2>7. e = d \/ e = a + b
    <3>1. CASE Joined(S, p, q, e)
      <4>1. d <= e BY <1>1, <2>5, <3>1 DEF IsShortest
      <4>. QED BY <2>5, <2>6, <4>1
    <3>2. CASE \E f, l \in Nat : /\ Joined(S, p, r, f) /\ Joined(S, r, q, l)
                                 /\ f + l <= e
      <4>1. PICK f, l \in Nat : /\ Joined(S, p, r, f) /\ Joined(S, r, q, l)
                                /\ f + l <= e
        BY <3>2
      <4>2. a <= f /\ b <= l BY <2>1, <4>1
      <4>. QED BY <2>2, <2>5, <4>1, <4>2
    <3>. QED BY <1>4, <2>4, <3>1, <3>2
  <2>8. e = Shorter(d, a + b) BY <2>2, <2>5, <2>6, <2>7 DEF Shorter
  <2>. QED BY <1>6, <2>8 DEF a, b, d, e, T
<1>. QED BY <1>5, <1>6

(* And so the ways to r and from r stay as they are: the loop may read and *)
(* write the same table.                                                   *)
LEMMA RowKept ==
  ASSUME NEW S \in SUBSET Grid, NEW r \in Grid, NEW p \in Grid
  PROVE  /\ Shortest(S \union {r})[<<p, r>>] = Shortest(S)[<<p, r>>]
         /\ Shortest(S \union {r})[<<r, p>>] = Shortest(S)[<<r, p>>]
<1>. DEFINE a == Shortest(S)[<<p, r>>]
            b == Shortest(S)[<<r, p>>]
            z == Shortest(S)[<<r, r>>]
<1>1. /\ Shortest(S \union {r})[<<p, r>>] =
           IF a = inf \/ z = inf THEN a ELSE Shorter(a, a + z)
      /\ Shortest(S \union {r})[<<r, p>>] =
           IF z = inf \/ b = inf THEN b ELSE Shorter(b, z + b)
  BY Through
<1>2. /\ a \in 1 .. Width * Height \union {inf}
      /\ b \in 1 .. Width * Height \union {inf}
      /\ z \in 1 .. Width * Height \union {inf}
  BY ShortestType
<1>. HIDE DEF a, b, z
<1>3. a # inf /\ z # inf => Shorter(a, a + z) = a BY <1>2, GridSize DEF Shorter
<1>4. z # inf /\ b # inf => Shorter(b, z + b) = b BY <1>2, GridSize DEF Shorter
<1>. QED BY <1>1, <1>3, <1>4 DEF a, b, z

--------------------------------------------------------------------------------
(* free_points *)

(* Two FREE cells are in order one way or the other, and the first loop    *)
(* visits each of them once.                                               *)
LEMMA InOrder ==
  ASSUME NEW p \in Grid, NEW q \in Grid, NEW r \in Grid
  PROVE  /\ UpTo(p, p)
         /\ UpTo(p, q) \/ UpTo(q, p)
         /\ UpTo(p, q) /\ UpTo(q, p) => p = q
         /\ UpTo(p, q) /\ UpTo(q, r) => UpTo(p, r)
BY SizeAssumption DEF UpTo, Grid, Points

(* The FREE cells and their number.                                        *)
LEMMA FreeFinite ==
  Free \subseteq Grid /\ IsFiniteSet(Free) /\ Cardinality(Free) \in Nat
<1>1. Free \in SUBSET Grid BY DEF Free
<1>2. IsFiniteSet(Free) BY <1>1, GridSize, FS_Subset
<1>. QED BY <1>1, <1>2, FS_CardinalityType

(* Every FREE cell has a position.                                         *)
LEMMA PositionType ==
  ASSUME NEW p \in Free
  PROVE  Position(p) \in 1 .. Cardinality(Free)
<1>. DEFINE P == {q \in Free : UpTo(p, q)}
<1>1. P \in SUBSET Free /\ p \in P BY FreeFinite, InOrder
<1>2. IsFiniteSet(P) /\ Cardinality(P) <= Cardinality(Free)
  BY <1>1, FreeFinite, FS_Subset
<1>3. Cardinality(P) \in Nat BY <1>2, FS_CardinalityType
<1>4. Cardinality(P) # 0
  <2>. HIDE DEF P
  <2>. QED BY <1>1, <1>2, FS_EmptySet
<1>. QED BY <1>2, <1>3, <1>4, FreeFinite DEF Position

(* Of two FREE cells the earlier one has fewer up to itself.               *)
LEMMA PositionDiffers ==
  ASSUME NEW p \in Free, NEW q \in Free, Position(p) = Position(q)
  PROVE  p = q
<1>1. ASSUME NEW a \in Free, NEW b \in Free, UpTo(b, a), a # b
      PROVE  Position(a) # Position(b)
  <2>. DEFINE A == {c \in Free : UpTo(a, c)}
              B == {c \in Free : UpTo(b, c)}
  <2>1. A \in SUBSET B /\ b \in B /\ b \notin A BY <1>1, FreeFinite, InOrder
  <2>2. B \in SUBSET Free OBVIOUS
  <2>3. IsFiniteSet(B) BY <2>2, FreeFinite, FS_Subset
  <2>4. Cardinality(A) # Cardinality(B)
    <3>. HIDE DEF A, B
    <3>1. A # B BY <2>1
    <3>. QED BY <2>1, <2>3, <3>1, FS_Subset
  <2>. QED BY <2>4 DEF Position
<1>. QED BY <1>1, FreeFinite, InOrder

(* There are as many positions as FREE cells, and so each is taken.        *)
LEMMA PositionTaken ==
  ASSUME NEW n \in 1 .. Cardinality(Free)
  PROVE  \E p \in Free : Position(p) = n
<1>. DEFINE N == 1 .. Cardinality(Free)
            f == [p \in Free |-> Position(p)]
<1>1. \A p \in Free : f[p] = Position(p) OBVIOUS
<1>2. f \in [Free -> N] BY PositionType
<1>3. IsFiniteSet(N) /\ Cardinality(N) = Cardinality(Free)
  <2>1. /\ IsFiniteSet(N)
        /\ Cardinality(N) = IF 1 > Cardinality(Free) THEN 0
                            ELSE Cardinality(Free) - 1 + 1
    BY FreeFinite, FS_Interval
  <2>. QED BY <2>1, FreeFinite
<1>. HIDE DEF f
<1>4. f \in Injection(Free, N)
  <2>1. \A p, q \in Free : f[p] = f[q] => p = q BY <1>1, PositionDiffers
  <2>2. DOMAIN f = Free BY <1>2
  <2>. QED BY <1>2, <2>1, <2>2 DEF Injection, IsInjective
<1>5. f \in Surjection(Free, N)
  <2>. HIDE DEF N
  <2>. QED BY <1>3, <1>4, FS_Injection
<1>. QED BY <1>1, <1>5 DEF Surjection

(* free_points holds every FREE cell once, at its position.                *)
LEMMA FreePoints ==
  /\ Count = Cardinality(Free) /\ Count \in Nat
  /\ \A n \in 1 .. Count : /\ free_points[n] \in Free
                           /\ free_points[n] \in Grid
                           /\ Position(free_points[n]) = n
  /\ \A p \in Free : /\ Position(p) \in 1 .. Count
                     /\ free_points[Position(p)] = p
<1>. DEFINE at(n) == CHOOSE p \in Free : Position(p) = n
<1>1. free_points = [n \in 1 .. Cardinality(Free) |-> at(n)] BY DEF free_points
<1>2. \A n \in 1 .. Cardinality(Free) : at(n) \in Free /\ Position(at(n)) = n
  BY PositionTaken
<1>. HIDE DEF at
<1>3. Count = Cardinality(Free)
  <2>1. free_points \in Seq(Free) BY <1>1, <1>2, FreeFinite
  <2>2. DOMAIN free_points = 1 .. Cardinality(Free) BY <1>1
  <2>. QED BY <2>1, <2>2, FreeFinite DEF Count
<1>4. \A n \in 1 .. Count : /\ free_points[n] \in Free
                            /\ Position(free_points[n]) = n
  BY <1>1, <1>2, <1>3
<1>5. ASSUME NEW p \in Free
      PROVE  Position(p) \in 1 .. Count /\ free_points[Position(p)] = p
  <2>1. Position(p) \in 1 .. Count BY <1>3, PositionType
  <2>. QED BY <1>4, <2>1, PositionDiffers
<1>. QED BY <1>3, <1>4, <1>5, FreeFinite
--------------------------------------------------------------------------------
(* The inductive invariant *)

(* The points that the outer loop has been through before its m-th turn,   *)
(* and the table that this turn should begin with.                         *)
Done(m) == {free_points[n] : n \in 1 .. m - 1}
Before(m) == Shortest(Done(m))

(* The entries that the inner loops are through with before <<a, b>>.      *)
Passed(a, b) ==
  {e \in Free \X Free : \/ Position(e[1]) < a
                        \/ Position(e[1]) = a /\ Position(e[2]) < b}

(* In the m-th turn of the outer loop the entries of E are as the turn     *)
(* leaves them, the others as it found them.                               *)
Table(d, m, E) ==
  \A e \in Grid \X Grid : d[e] = IF e \in E THEN Before(m + 1)[e] ELSE Before(m)[e]

(* The loops are where they can be, the entries are inf or at most the     *)
(* number of cells, and the turn has done its work on the entries passed.  *)
IInv ==
  /\ cells \in Maps
  /\ floyd_dist \in [Grid \X Grid -> 1 .. Width * Height \union {inf}]
  /\ k \in 1 .. Count + 1
  /\ i \in 1 .. Count \union {1} /\ j \in 1 .. Count \union {1}
  /\ k = Count + 1 => i = 1 /\ j = 1
  /\ Table(floyd_dist, k, Passed(i, j))

--------------------------------------------------------------------------------
(* The steps *)

(* With every turn one more point has been through the outer loop.         *)
LEMMA DoneNext ==
  /\ Done(1) = {}
  /\ \A m \in 1 .. Count + 1 : Done(m) \in SUBSET Grid
  /\ \A m \in 1 .. Count : Done(m + 1) = Done(m) \union {free_points[m]}
<1>1. Done(1) = {} BY DEF Done
<1>2. ASSUME NEW m \in 1 .. Count + 1 PROVE Done(m) \in SUBSET Grid
  <2>1. \A n \in 1 .. m - 1 : n \in 1 .. Count BY FreePoints
  <2>. QED BY <2>1, FreePoints DEF Done
<1>3. ASSUME NEW m \in 1 .. Count
      PROVE  Done(m + 1) = Done(m) \union {free_points[m]}
  <2>1. (m + 1) - 1 = m /\ 1 .. m = (1 .. m - 1) \union {m} BY FreePoints
  <2>. QED BY <2>1 DEF Done
<1>. QED BY <1>1, <1>2, <1>3

(* Where an entry to or from the turn's own point is inf,   the turn       *)
(* changes nothing; elsewhere it takes the shorter way.                    *)
LEMMA Turn ==
  ASSUME NEW m \in 1 .. Count, NEW p \in Grid, NEW q \in Grid
  PROVE  /\ Before(m + 1)[<<p, q>>] =
              IF \/ Before(m)[<<p, free_points[m]>>] = inf
                 \/ Before(m)[<<free_points[m], q>>] = inf
              THEN Before(m)[<<p, q>>]
              ELSE Shorter(Before(m)[<<p, q>>],
                           Before(m)[<<p, free_points[m]>>]
                             + Before(m)[<<free_points[m], q>>])
         /\ Before(m + 1)[<<p, free_points[m]>>] = Before(m)[<<p, free_points[m]>>]
         /\ Before(m + 1)[<<free_points[m], p>>] = Before(m)[<<free_points[m], p>>]
<1>1. /\ Done(m) \in SUBSET Grid /\ free_points[m] \in Grid
      /\ Done(m + 1) = Done(m) \union {free_points[m]}
  <2>1. m \in 1 .. Count + 1 BY FreePoints
  <2>. QED BY <2>1, DoneNext, FreePoints
<1>. QED BY <1>1, Through, RowKept DEF Before

(* It changes nothing where one of the cells is not FREE.                  *)
LEMMA OthersKept ==
  ASSUME NEW m \in 1 .. Count, NEW e \in Grid \X Grid, e \notin Free \X Free
  PROVE  Before(m + 1)[e] = Before(m)[e]
<1>1. m \in 1 .. Count + 1 /\ m + 1 \in 1 .. Count + 1 BY FreePoints
<1>2. Done(m) \in SUBSET Grid /\ Done(m + 1) \in SUBSET Grid BY <1>1, DoneNext
<1>3. PICK p \in Grid, q \in Grid : e = <<p, q>> OBVIOUS
<1>4. ~(p \in Free /\ q \in Free) BY <1>3
<1>. QED BY <1>2, <1>3, <1>4, FreeEnds DEF Before

(* No entry has been passed when a turn begins, and all when it ends.      *)
LEMMA PassedEnds ==
  /\ Passed(1, 1) = {}
  /\ Passed(Count + 1, 1) = Free \X Free
  /\ \A a \in 1 .. Count : Passed(a, Count + 1) = Passed(a + 1, 1)
<1>1. \A e \in Free \X Free : /\ Position(e[1]) \in 1 .. Count
                              /\ Position(e[2]) \in 1 .. Count
  BY FreePoints
<1>. QED BY <1>1, FreePoints DEF Passed

(* A step over one entry passes that entry, a step to the next row what is *)
(* left of its own.                                                        *)
LEMMA PassedNext ==
  ASSUME NEW a \in 1 .. Count, NEW b \in 1 .. Count
  PROVE  /\ Passed(a, b + 1)
              = Passed(a, b) \union {<<free_points[a], free_points[b]>>}
         /\ <<free_points[a], free_points[b]>> \notin Passed(a, b)
         /\ Passed(a, b) \subseteq Passed(a + 1, 1)
         /\ \A e \in Passed(a + 1, 1) :
              e \notin Passed(a, b) => e[1] = free_points[a]
<1>1. \A e \in Free \X Free : /\ Position(e[1]) \in 1 .. Count
                              /\ Position(e[2]) \in 1 .. Count
                              /\ (Position(e[1]) = a <=> e[1] = free_points[a])
                              /\ (Position(e[2]) = b <=> e[2] = free_points[b])
  BY FreePoints
<1>2. <<free_points[a], free_points[b]>> \in Free \X Free BY FreePoints
<1>3. /\ Position(free_points[a]) = a /\ Position(free_points[b]) = b
      /\ Count \in Nat
  BY FreePoints
<1>4. ASSUME NEW e \in Free \X Free
      PROVE  e \in Passed(a, b + 1)
               <=> e \in Passed(a, b) \/ e = <<free_points[a], free_points[b]>>
  BY <1>1, <1>3 DEF Passed
<1>5. Passed(a, b + 1) \subseteq Free \X Free /\ Passed(a, b) \subseteq Free \X Free
  BY DEF Passed
<1>6. <<free_points[a], free_points[b]>> \notin Passed(a, b)
  BY <1>3 DEF Passed
<1>7. Passed(a, b) \subseteq Passed(a + 1, 1) BY <1>1, <1>3 DEF Passed
<1>8. ASSUME NEW e \in Passed(a + 1, 1), e \notin Passed(a, b)
      PROVE  e[1] = free_points[a]
  <2>1. e \in Free \X Free BY DEF Passed
  <2>2. /\ Position(e[1]) \in 1 .. Count /\ Position(e[2]) \in 1 .. Count
        /\ Position(e[1]) < a + 1 \/ (Position(e[1]) = a + 1 /\ Position(e[2]) < 1)
        /\ ~(Position(e[1]) < a)
    BY <1>1, <1>8, <2>1 DEF Passed
  <2>3. Position(e[1]) = a BY <1>3, <2>2
  <2>. QED BY <1>1, <2>1, <2>3
<1>. QED BY <1>2, <1>4, <1>5, <1>6, <1>7, <1>8

--------------------------------------------------------------------------------
(* The map does not change, and so nothing that depends on it alone does.  *)
LEMMA CellsKept ==
  ASSUME cells' = cells
  PROVE  /\ Free' = Free /\ free_points' = free_points /\ Count' = Count
         /\ \A p : Position(p)' = Position(p)
         /\ \A S : Shortest(S)' = Shortest(S)
         /\ \A m : Before(m)' = Before(m)
         /\ \A a, b : Passed(a, b)' = Passed(a, b)
<1>1. Free' = Free BY DEF Free
<1>2. \A p : Position(p)' = Position(p) BY <1>1 DEF Position
<1>3. free_points' = free_points BY <1>1, <1>2 DEF free_points
<1>4. Count' = Count BY <1>3 DEF Count
<1>5. \A S : Shortest(S)' = Shortest(S)
  BY DEF Shortest, Walk, Steps, Longer, IsStep
<1>6. \A m : Before(m)' = Before(m) BY <1>3, <1>5 DEF Before, Done
<1>7. \A a, b : Passed(a, b)' = Passed(a, b) BY <1>1, <1>2 DEF Passed
<1>. QED BY <1>1, <1>2, <1>3, <1>4, <1>5, <1>6, <1>7

(* On to the next row, when the row of i is as the turn should leave it.   *)
LEMMA RowDone ==
  ASSUME IInv, Running, NextRow, UNCHANGED cells,
         floyd_dist' \in [Grid \X Grid -> 1 .. Width * Height \union {inf}],
         Table(floyd_dist', k, Passed(i + 1, 1))
  PROVE  IInv'
<1>1. Count \in Nat /\ k \in 1 .. Count /\ i \in 1 .. Count
  BY FreePoints DEF IInv, Running
<1>2. Count' = Count BY CellsKept
<1>3. cells' \in Maps BY DEF IInv
<1>4. \A e \in Grid \X Grid :
        floyd_dist'[e] = IF e \in Passed(i + 1, 1) THEN Before(k + 1)[e]
                         ELSE Before(k)[e]
  BY DEF Table
<1>5. CASE i < Count
  <2>1. k' = k /\ i' = i + 1 /\ j' = 1 BY <1>5 DEF NextRow
  <2>2. Passed(i, j)' = Passed(i + 1, 1) BY <2>1, CellsKept
  <2>3. Before(k + 1)' = Before(k + 1) /\ Before(k)' = Before(k)
    BY <2>1, CellsKept
  <2>4. Table(floyd_dist, k, Passed(i, j))' BY <1>4, <2>2, <2>3 DEF Table
  <2>5. /\ k' \in 1 .. Count' + 1 /\ k' # Count' + 1
        /\ i' \in 1 .. Count' \union {1} /\ j' \in 1 .. Count' \union {1}
    BY <1>1, <1>2, <1>5, <2>1
  <2>. QED BY <1>3, <2>4, <2>5 DEF IInv
<1>6. CASE ~(i < Count)
  <2>1. k' = k + 1 /\ i' = 1 /\ j' = 1 BY <1>6 DEF NextRow
  <2>2. i = Count BY <1>1, <1>6
  <2>3. Passed(i, j)' = {} BY <2>1, CellsKept, PassedEnds
  <2>4. Before(k)' = Before(k + 1) BY <2>1, CellsKept
  <2>5. \A e \in Grid \X Grid : floyd_dist'[e] = Before(k + 1)[e]
    <3>1. Passed(i + 1, 1) = Free \X Free BY <2>2, PassedEnds
    <3>2. \A e \in Grid \X Grid :
            e \notin Free \X Free => Before(k + 1)[e] = Before(k)[e]
      BY <1>1, OthersKept
    <3>. QED BY <1>4, <3>1, <3>2
  <2>6. Table(floyd_dist, k, Passed(i, j))' BY <2>3, <2>4, <2>5 DEF Table
  <2>. QED BY <1>1, <1>2, <1>3, <2>1, <2>6 DEF IInv
<1>. QED BY <1>5, <1>6

(* On to the next column, when the entry is as the turn should leave it.   *)
LEMMA EntryDone ==
  ASSUME IInv, Running, NextColumn, UNCHANGED cells,
         floyd_dist' \in [Grid \X Grid -> 1 .. Width * Height \union {inf}],
         Table(floyd_dist', k, Passed(i, j + 1))
  PROVE  IInv'
<1>1. /\ Count \in Nat /\ k \in 1 .. Count /\ i \in 1 .. Count
      /\ j \in 1 .. Count
  BY FreePoints DEF IInv, Running
<1>2. Count' = Count BY CellsKept
<1>3. cells' \in Maps BY DEF IInv
<1>4. CASE j < Count
  <2>1. k' = k /\ i' = i /\ j' = j + 1 BY <1>4 DEF NextColumn
  <2>2. Passed(i, j)' = Passed(i, j + 1) BY <2>1, CellsKept
  <2>3. Before(k + 1)' = Before(k + 1) /\ Before(k)' = Before(k)
    BY <2>1, CellsKept
  <2>4. Table(floyd_dist, k, Passed(i, j))' BY <2>2, <2>3 DEF Table
  <2>. QED BY <1>1, <1>2, <1>3, <1>4, <2>1, <2>4 DEF IInv
<1>5. CASE ~(j < Count)
  <2>1. NextRow BY <1>5 DEF NextColumn
  <2>2. j = Count BY <1>1, <1>5
  <2>3. Passed(i, j + 1) = Passed(i + 1, 1) BY <1>1, <2>2, PassedEnds
  <2>. QED BY <2>1, <2>3, RowDone
<1>. QED BY <1>4, <1>5

--------------------------------------------------------------------------------
(* The entries a step reads are the last turn's: that of <<i, j>> has not  *)
(* been passed, and those to and from K are the same before and after.     *)
LEMMA Entries ==
  ASSUME IInv, Running
  PROVE  /\ k \in 1 .. Count /\ i \in 1 .. Count /\ j \in 1 .. Count
         /\ K \in Grid /\ I \in Grid /\ J \in Grid
         /\ floyd_dist[<<I, K>>] = Before(k)[<<I, K>>]
         /\ floyd_dist[<<K, J>>] = Before(k)[<<K, J>>]
         /\ floyd_dist[<<I, J>>] = Before(k)[<<I, J>>]
<1>1. k \in 1 .. Count /\ i \in 1 .. Count /\ j \in 1 .. Count
  BY FreePoints DEF IInv, Running
<1>2. K \in Grid /\ I \in Grid /\ J \in Grid BY <1>1, FreePoints DEF K, I, J
<1>3. \A p, q \in Grid :
        floyd_dist[<<p, q>>] = IF <<p, q>> \in Passed(i, j)
                               THEN Before(k + 1)[<<p, q>>]
                               ELSE Before(k)[<<p, q>>]
  BY DEF IInv, Table
<1>4. \A p \in Grid : /\ Before(k + 1)[<<p, K>>] = Before(k)[<<p, K>>]
                      /\ Before(k + 1)[<<K, p>>] = Before(k)[<<K, p>>]
  <2>1. k \in 1 .. Count BY <1>1
  <2>2. \A p \in Grid :
          /\ Before(k + 1)[<<p, free_points[k]>>] = Before(k)[<<p, free_points[k]>>]
          /\ Before(k + 1)[<<free_points[k], p>>] = Before(k)[<<free_points[k], p>>]
    BY <2>1, Turn
  <2>. QED BY <2>2 DEF K
<1>5. <<I, J>> \notin Passed(i, j) BY <1>1, PassedNext DEF I, J
<1>. QED BY <1>1, <1>2, <1>3, <1>4, <1>5

(* What the turn should make of the entry of <<i, j>>, and of its row.     *)
LEMMA EntryNext ==
  ASSUME IInv, Running, NEW q \in Grid
  PROVE  Before(k + 1)[<<I, q>>] =
           IF floyd_dist[<<I, K>>] = inf \/ Before(k)[<<K, q>>] = inf
           THEN Before(k)[<<I, q>>]
           ELSE Shorter(Before(k)[<<I, q>>],
                        floyd_dist[<<I, K>>] + Before(k)[<<K, q>>])
<1>1. /\ k \in 1 .. Count /\ I \in Grid
      /\ floyd_dist[<<I, K>>] = Before(k)[<<I, K>>]
  BY Entries
<1>2. Before(k + 1)[<<I, q>>] =
        IF \/ Before(k)[<<I, free_points[k]>>] = inf
           \/ Before(k)[<<free_points[k], q>>] = inf
        THEN Before(k)[<<I, q>>]
        ELSE Shorter(Before(k)[<<I, q>>],
                     Before(k)[<<I, free_points[k]>>]
                       + Before(k)[<<free_points[k], q>>])
  BY <1>1, Turn
<1>3. K = free_points[k] BY DEF K
<1>. QED BY <1>1, <1>2, <1>3

(* When no way leads from i to the new point, all of the row is as it      *)
(* should be.                                                              *)
LEMMA SkipRowStep ==
  ASSUME IInv, SkipRow
  PROVE  IInv'
<1>1. Running /\ NextRow /\ UNCHANGED cells /\ floyd_dist' = floyd_dist
      /\ floyd_dist[<<I, K>>] = inf
  BY DEF SkipRow
<1>2. \A q \in Grid : Before(k + 1)[<<I, q>>] = Before(k)[<<I, q>>]
  BY <1>1, EntryNext
<1>3. i \in 1 .. Count /\ j \in 1 .. Count BY <1>1, Entries
<1>4. /\ Passed(i, j) \subseteq Passed(i + 1, 1)
      /\ \A e \in Passed(i + 1, 1) : e \notin Passed(i, j) => e[1] = I
  BY <1>3, PassedNext DEF I
<1>5. ASSUME NEW e \in Grid \X Grid
      PROVE  floyd_dist[e] = IF e \in Passed(i + 1, 1) THEN Before(k + 1)[e]
                             ELSE Before(k)[e]
  <2>1. floyd_dist[e] = IF e \in Passed(i, j) THEN Before(k + 1)[e]
                        ELSE Before(k)[e]
    BY DEF IInv, Table
  <2>2. e[1] = I => Before(k + 1)[e] = Before(k)[e]
    <3>1. PICK p \in Grid, q \in Grid : e = <<p, q>> OBVIOUS
    <3>. QED BY <1>2, <3>1
  <2>. QED BY <1>4, <2>1, <2>2
<1>6. Table(floyd_dist', k, Passed(i + 1, 1)) BY <1>1, <1>5 DEF Table
<1>7. floyd_dist' \in [Grid \X Grid -> 1 .. Width * Height \union {inf}]
  BY <1>1 DEF IInv
<1>. QED BY <1>1, <1>6, <1>7, RowDone

(* A step to the next column leaves the entry of <<i, j>> as the turn      *)
(* should and the others alone.                                            *)
LEMMA EntryStep ==
  ASSUME IInv, Running, NextColumn, UNCHANGED cells,
         \A e \in Grid \X Grid : e # <<I, J>> => floyd_dist'[e] = floyd_dist[e],
         floyd_dist'[<<I, J>>] = Before(k + 1)[<<I, J>>],
         DOMAIN floyd_dist' = Grid \X Grid,
         floyd_dist' = [e \in Grid \X Grid |-> floyd_dist'[e]]
  PROVE  IInv'
<1>1. /\ k \in 1 .. Count /\ i \in 1 .. Count /\ j \in 1 .. Count
      /\ I \in Grid /\ J \in Grid
  BY Entries
<1>2. Passed(i, j + 1) = Passed(i, j) \union {<<I, J>>} BY <1>1, PassedNext DEF I, J
<1>3. ASSUME NEW e \in Grid \X Grid
      PROVE  floyd_dist'[e] = IF e \in Passed(i, j + 1) THEN Before(k + 1)[e]
                              ELSE Before(k)[e]
  <2>1. floyd_dist[e] = IF e \in Passed(i, j) THEN Before(k + 1)[e]
                        ELSE Before(k)[e]
    BY DEF IInv, Table
  <2>. QED BY <1>2, <2>1
<1>4. Table(floyd_dist', k, Passed(i, j + 1)) BY <1>3 DEF Table
<1>5. floyd_dist' \in [Grid \X Grid -> 1 .. Width * Height \union {inf}]
  <2>1. k + 1 \in 1 .. Count + 1 /\ k \in 1 .. Count + 1 BY <1>1, FreePoints
  <2>2. Before(k + 1) \in [Grid \X Grid -> 1 .. Width * Height \union {inf}]
    BY <2>1, DoneNext, ShortestType DEF Before
  <2>3. <<I, J>> \in Grid \X Grid BY <1>1
  <2>4. \A e \in Grid \X Grid :
          floyd_dist'[e] \in 1 .. Width * Height \union {inf}
    BY <2>2, <2>3 DEF IInv
  <2>. QED BY <2>4
<1>. QED BY <1>4, <1>5, EntryDone

(* When no way leads from the new point to j, the entry is as it should    *)
(* be.                                                                     *)
LEMMA SkipColumnStep ==
  ASSUME IInv, SkipColumn
  PROVE  IInv'
<1>1. Running /\ NextColumn /\ UNCHANGED cells /\ floyd_dist' = floyd_dist
      /\ floyd_dist[<<K, J>>] = inf
  BY DEF SkipColumn
<1>2. /\ J \in Grid /\ floyd_dist[<<K, J>>] = Before(k)[<<K, J>>]
      /\ floyd_dist[<<I, J>>] = Before(k)[<<I, J>>]
  BY <1>1, Entries
<1>3. Before(k + 1)[<<I, J>>] = Before(k)[<<I, J>>] BY <1>1, <1>2, EntryNext
<1>4. DOMAIN floyd_dist = Grid \X Grid
      /\ floyd_dist = [e \in Grid \X Grid |-> floyd_dist[e]]
  BY DEF IInv
<1>. QED BY <1>1, <1>2, <1>3, <1>4, EntryStep

(* Otherwise the shorter of the two ways is what the turn should leave.    *)
LEMMA RelaxStep ==
  ASSUME IInv, Relax
  PROVE  IInv'
<1>. DEFINE d == Shorter(floyd_dist[<<I, J>>],
                         floyd_dist[<<I, K>>] + floyd_dist[<<K, J>>])
<1>1. /\ Running /\ NextColumn /\ UNCHANGED cells
      /\ floyd_dist[<<I, K>>] # inf /\ floyd_dist[<<K, J>>] # inf
      /\ floyd_dist' = [floyd_dist EXCEPT ![<<I, J>>] = d]
  BY DEF Relax
<1>2. /\ I \in Grid /\ J \in Grid
      /\ floyd_dist[<<K, J>>] = Before(k)[<<K, J>>]
      /\ floyd_dist[<<I, J>>] = Before(k)[<<I, J>>]
  BY <1>1, Entries
<1>3. Before(k + 1)[<<I, J>>] = d BY <1>1, <1>2, EntryNext
<1>. HIDE DEF d
<1>4. DOMAIN floyd_dist = Grid \X Grid
      /\ floyd_dist = [e \in Grid \X Grid |-> floyd_dist[e]]
  BY DEF IInv
<1>5. <<I, J>> \in Grid \X Grid BY <1>2
<1>6. /\ \A e \in Grid \X Grid : e # <<I, J>> => floyd_dist'[e] = floyd_dist[e]
      /\ floyd_dist'[<<I, J>>] = d
      /\ DOMAIN floyd_dist' = Grid \X Grid
      /\ floyd_dist' = [e \in Grid \X Grid |-> floyd_dist'[e]]
  BY <1>1, <1>4, <1>5
<1>. QED BY <1>1, <1>3, <1>6, EntryStep
--------------------------------------------------------------------------------
(* The theorems *)

(* The first loop makes the table of single steps.                         *)
LEMMA InvInit == Init => IInv
<1>. SUFFICES ASSUME Init PROVE IInv OBVIOUS
<1>1. cells \in Maps /\ floyd_dist = Adjacent(cells) /\ k = 1 /\ i = 1 /\ j = 1
  BY DEF Init
<1>2. \A e \in Grid \X Grid : floyd_dist[e] = Shortest({})[e]
  <2>1. ASSUME NEW e \in Grid \X Grid PROVE floyd_dist[e] = Shortest({})[e]
    <3>1. PICK p \in Grid, q \in Grid : e = <<p, q>> OBVIOUS
    <3>. QED BY <1>1, <3>1, NoInnerPoint
  <2>. QED BY <2>1
<1>3. Table(floyd_dist, k, Passed(i, j))
  <2>1. Passed(i, j) = {} /\ Before(k) = Shortest({})
    BY <1>1, PassedEnds, DoneNext DEF Before
  <2>. QED BY <1>2, <2>1 DEF Table
<1>4. floyd_dist \in [Grid \X Grid -> 1 .. Width * Height \union {inf}]
  <2>1. Shortest({}) \in [Grid \X Grid -> 1 .. Width * Height \union {inf}]
    BY ShortestType
  <2>2. floyd_dist = [e \in Grid \X Grid |-> floyd_dist[e]]
    BY <1>1 DEF Adjacent
  <2>. HIDE DEF Grid
  <2>. QED BY <1>2, <2>1, <2>2
<1>5. k \in 1 .. Count + 1 BY <1>1, FreePoints
<1>. QED BY <1>1, <1>3, <1>4, <1>5 DEF IInv

(* Every way through the loops' body keeps the invariant.                  *)
LEMMA InvNext == IInv /\ [Next]_vars => IInv'
<1>. SUFFICES ASSUME IInv, [Next]_vars PROVE IInv' OBVIOUS
<1>1. CASE SkipRow BY <1>1, SkipRowStep
<1>2. CASE SkipColumn BY <1>2, SkipColumnStep
<1>3. CASE Relax BY <1>3, RelaxStep
<1>4. CASE UNCHANGED vars
  <2>1. /\ cells' = cells /\ floyd_dist' = floyd_dist
        /\ k' = k /\ i' = i /\ j' = j
    BY <1>4 DEF vars
  <2>2. Table(floyd_dist, k, Passed(i, j)) BY DEF IInv
  <2>3. /\ Passed(i, j)' = Passed(i, j) /\ Count' = Count
        /\ Before(k)' = Before(k) /\ Before(k + 1)' = Before(k + 1)
    BY <2>1, CellsKept
  <2>4. Table(floyd_dist, k, Passed(i, j))' BY <2>1, <2>2, <2>3 DEF Table
  <2>. QED BY <2>1, <2>3, <2>4 DEF IInv
<1>. QED BY <1>1, <1>2, <1>3, <1>4 DEF Next

(* The loops of floyd stay inside free_points, and an entry is inf or at   *)
(* most the number of cells, on a map of any size below inf: the sum of    *)
(* two entries that are not inf never comes near the width of int.         *)
THEOREM TypeCorrect == Spec => []TypeOK
<1>1. IInv => TypeOK BY FreePoints DEF IInv, TypeOK
<1>. QED BY <1>1, InvInit, InvNext, PTL DEF Spec

(* After any number of turns of the outer loop of floyd the table holds,   *)
(* on every map, the lengths of the shortest ways through the points that  *)
(* loop has been through: the table being read and written in place makes  *)
(* no difference.                                                          *)
THEOREM ShortestDistances == Spec => []ShortestSoFar
<1>1. ASSUME IInv, i = 1, j = 1 PROVE floyd_dist = Before(k)
  <2>1. \A e \in Grid \X Grid : floyd_dist[e] = Before(k)[e]
    BY <1>1, PassedEnds DEF IInv, Table
  <2>2. Before(k) \in [Grid \X Grid -> 1 .. Width * Height \union {inf}]
    BY <1>1, DoneNext, ShortestType DEF IInv, Before
  <2>3. floyd_dist \in [Grid \X Grid -> 1 .. Width * Height \union {inf}]
    BY <1>1 DEF IInv
  <2>. QED BY <2>1, <2>2, <2>3
<1>2. IInv => ShortestSoFar BY <1>1 DEF ShortestSoFar, Before, Done
<1>. QED BY <1>2, InvInit, InvNext, PTL DEF Spec

(* All inner points of a walk are FREE.                                    *)
LEMMA InnerFree ==
  ASSUME NEW p \in Grid, NEW q \in Grid, NEW m
  PROVE  Joined(Grid, p, q, m) <=> Joined(Free, p, q, m)
<1>1. ASSUME Joined(Grid, p, q, m) PROVE Joined(Free, p, q, m)
  <2>1. m \in Nat \ {0} BY <1>1 DEF Joined
  <2>2. PICK w : IsWalk(Grid, p, q, m, w) BY <1>1 DEF Joined
  <2>3. \A a \in 1 .. m - 1 : a \in 0 .. m - 1 BY <2>1
  <2>4. \A a \in 1 .. m - 1 : w[a] \in Grid /\ IsStep(w[a], w[a + 1])
    BY <2>2, <2>3 DEF IsWalk
  <2>5. \A a \in 1 .. m - 1 : w[a] \in Free BY <2>4 DEF IsStep, Free
  <2>6. IsWalk(Free, p, q, m, w) BY <2>2, <2>5 DEF IsWalk
  <2>. QED BY <2>1, <2>6 DEF Joined
<1>2. ASSUME Joined(Free, p, q, m) PROVE Joined(Grid, p, q, m)
  BY <1>2, FreeFinite, Wider
<1>. QED BY <1>1, <1>2

(* Once floyd has ended, an entry is the length of a shortest walk over    *)
(* FREE cells from the one cell to the other, or inf where there is no     *)
(* walk.                                                                   *)
LEMMA InTheEnd ==
  ASSUME IInv, k > Count, NEW p \in Grid, NEW q \in Grid
  PROVE  IsShortest(Grid, p, q, floyd_dist[<<p, q>>])
<1>1. k = Count + 1 /\ i = 1 /\ j = 1 /\ Count \in Nat
  BY FreePoints DEF IInv
<1>2. Done(k) = Free
  <2>1. (Count + 1) - 1 = Count BY <1>1
  <2>. QED BY <1>1, <2>1, FreePoints DEF Done
<1>3. floyd_dist[<<p, q>>] = Shortest(Free)[<<p, q>>]
  <2>1. <<p, q>> \notin Passed(i, j) BY <1>1, PassedEnds
  <2>2. <<p, q>> \in Grid \X Grid OBVIOUS
  <2>. QED BY <1>2, <2>1, <2>2 DEF IInv, Table, Before
<1>4. IsShortest(Free, p, q, floyd_dist[<<p, q>>])
  <2>1. Free \in SUBSET Grid BY FreeFinite
  <2>. QED BY <1>3, <2>1, ShortestIs
<1>. QED BY <1>4, InnerFree DEF IsShortest

(* That is what min_distance promises the rest of the strategy.            *)
THEOREM DistancesInTheEnd ==
  Spec => [](k > Count => \A p, q \in Grid :
                             IsShortest(Grid, p, q, floyd_dist[<<p, q>>]))
<1>1. IInv => (k > Count => \A p, q \in Grid :
                               IsShortest(Grid, p, q, floyd_dist[<<p, q>>]))
  BY InTheEnd
<1>. QED BY <1>1, InvInit, InvNext, PTL DEF Spec

(* In particular the table is what Strategy assumes of FloydTable: where   *)
(* there is a step, or one way and another one after it, there is a        *)
(* distance.                                                               *)
THEOREM TableInTheEnd ==
  Spec => [](k > Count => IsDistanceTable(floyd_dist, cells, Width, Height))
<1>1. ASSUME IInv, k > Count, NEW p \in Grid, NEW q \in Grid
      PROVE  floyd_dist[<<p, q>>] # inf <=> \E m \in Nat : Joined(Grid, p, q, m)
  <2>1. IsShortest(Grid, p, q, floyd_dist[<<p, q>>]) BY <1>1, InTheEnd
  <2>2. \A m \in 1 .. Width * Height : m \in Nat /\ m # inf
    <3>. DEFINE area == Width * Height
    <3>1. area \in Nat /\ area < inf BY SizeAssumption
    <3>. HIDE DEF area
    <3>2. \A m \in 1 .. area : m \in Nat /\ m # inf BY <3>1
    <3>. QED BY <3>2 DEF area
  <2>. QED BY <2>1, <2>2 DEF IsShortest
<1>2. ASSUME IInv, k > Count
      PROVE  IsDistanceTable(floyd_dist, cells, Width, Height)
  <2>1. floyd_dist \in [Grid \X Grid -> 1 .. Width * Height \union {inf}]
    BY <1>2 DEF IInv
  <2>2. ASSUME NEW p \in Grid, NEW q \in Grid, cells[p] = "FREE",
               cells[q] = "FREE", HasNeigh(p, q)
        PROVE  floyd_dist[<<p, q>>] # inf
    <3>1. Joined(Grid, p, q, 1) BY <2>2, OneStep DEF IsStep
    <3>. QED BY <1>1, <1>2, <3>1
  <2>3. ASSUME NEW p \in Grid, NEW q \in Grid, NEW r \in Grid,
               floyd_dist[<<p, r>>] # inf, floyd_dist[<<r, q>>] # inf
        PROVE  floyd_dist[<<p, q>>] # inf
    <3>1. PICK m \in Nat : Joined(Grid, p, r, m) BY <1>1, <1>2, <2>3
    <3>2. PICK n \in Nat : Joined(Grid, r, q, n) BY <1>1, <1>2, <2>3
    <3>3. Joined(Grid, p, q, m + n) BY <3>1, <3>2, Concatenated
    <3>4. m + n \in Nat OBVIOUS
    <3>. QED BY <1>1, <1>2, <3>3, <3>4
  <2>. QED BY <2>1, <2>2, <2>3 DEF IsDistanceTable, Grid
<1>. QED BY <1>2, InvInit, InvNext, PTL DEF Spec
================================================================================
