---------------------------- MODULE StrategyProofs ----------------------------
(***************************************************************************)
(* Proofs about MyStrategy::move over a whole game (Strategy): on every    *)
(* map, with any team, any enemies and any period, each object finds just  *)
(* the cells marked that somebody stands on, and so no trooper ever walks  *)
(* into another; and each search has a target and mates within reach, on   *)
(* every plan it scores.  The inductive invariant is IInv.                 *)
(***************************************************************************)
EXTENDS Strategy, PlansProofs

(* The client's cells are the map's: no object has marked a trooper in     *)
(* them.                                                                   *)
HeldUnmarked == held = WorldCells

(* An object's copy of the cells is one.                                   *)
CellsCopied ==
    pc \in {"begin", "picking", "searching"} => cells \in [Grid -> CellTypes]

(* The trooper a move is for is alive until the move is applied, and the   *)
(* move has been counted.                                                  *)
SelfAlive == pc # "idle" => self \in alive /\ move_index # -1

(* A cell of the map a trooper can step on.                                *)
FreeNow(p) ==
    /\ p \in Grid /\ WorldCells[p] = "FREE"
    /\ \A t \in alive : positions[t] # p
    /\ \A e \in DOMAIN Enemies : seen[e] # p

(* A step that run() has returned leads to such a cell, the next one.      *)
StepIsFree ==
    pc = "answered" /\ action.act = "MOVE" =>
        /\ FreeNow(Neigh(Here, action.n))
        /\ HasNeigh(Here, Neigh(Here, action.n))

(* The living are never cut off from each other.                           *)
WithinReach ==
    \A s, t \in alive : FloydTable[<<positions[s], positions[t]>>] # inf

(* A search has a target that run() has not rejected.                      *)
TargetAccepted == pc = "searching" => ~Rejected(target)

(* The inductive invariant.                                                *)
IInv ==
    /\ TypeOK /\ HeldUnmarked /\ CellsCopied /\ SelfAlive
    /\ NothingLeftBehind /\ NoCollision /\ StepIsFree
    /\ WithinReach /\ TargetAccepted
---------------------------------------------------------------------------
(* The order of the troopers *)

(* Any set of the numbers up to n can be listed in ascending order: if n   *)
(* is not in it, it is a set of numbers up to n - 1, and if it is, n comes *)
(* last.                                                                   *)
LEMMA Ascending ==
  ASSUME NEW n \in Nat, NEW S \in SUBSET (1 .. n)
  PROVE  \E s \in [1 .. Cardinality(S) -> S] :
            \A i, j \in DOMAIN s : i < j => s[i] < s[j]
<1>. DEFINE Listed(T) == \E s \in [1 .. Cardinality(T) -> T] :
                            \A i, j \in DOMAIN s : i < j => s[i] < s[j]
            Bad == {m \in Nat : \E T \in SUBSET (1 .. m) : ~Listed(T)}
<1>1. SUFFICES ASSUME Bad # {} PROVE FALSE OBVIOUS
<1>2. PICK m \in Bad : \A k \in Bad : m <= k
  <2>1. Bad \in SUBSET Nat OBVIOUS
  <2>. HIDE DEF Bad
  <2>. QED BY <1>1, <2>1, LeastNat
<1>3. m \in Nat OBVIOUS
<1>4. PICK T \in SUBSET (1 .. m) : ~Listed(T) OBVIOUS
<1>5. IsFiniteSet(T)
  <2>1. IsFiniteSet(1 .. m) BY <1>3, FS_Interval
  <2>. QED BY <2>1, FS_Subset
<1>6. T # {}
  <2>1. SUFFICES ASSUME T = {} PROVE FALSE OBVIOUS
  <2>2. Cardinality(T) = 0 BY <2>1, FS_EmptySet
  <2>. DEFINE s == [i \in 1 .. Cardinality(T) |-> 0]
  <2>3. s \in [1 .. Cardinality(T) -> T] /\ DOMAIN s = {} BY <2>2
  <2>. QED BY <1>4, <2>3
<1>7. m - 1 \in Nat /\ m - 1 \notin Bad
  <2>1. m # 0
    <3>1. PICK x \in T : TRUE BY <1>6
    <3>2. x \in 1 .. m BY <1>4
    <3>. QED BY <3>2
  <2>2. m - 1 \in Nat /\ ~(m <= m - 1) BY <1>3, <2>1
  <2>. HIDE DEF Bad
  <2>. QED BY <1>2, <2>2
<1>. DEFINE U == T \ {m}
<1>8. U \in SUBSET (1 .. m - 1) /\ Listed(U)
  <2>1. U \in SUBSET (1 .. m - 1) BY <1>3
  <2>. HIDE DEF U, Listed
  <2>. QED BY <1>7, <2>1
<1>9. m \in T
  <2>1. SUFFICES ASSUME m \notin T PROVE FALSE OBVIOUS
  <2>2. U = T BY <2>1
  <2>. HIDE DEF U, Listed
  <2>. QED BY <1>4, <1>8, <2>2
<1>10. /\ Cardinality(T) \in Nat
       /\ Cardinality(U) = Cardinality(T) - 1
  BY <1>5, <1>9, FS_RemoveElement, FS_CardinalityType
<1>. DEFINE k == Cardinality(T)
<1>11. PICK s \in [1 .. k - 1 -> U] :
          \A i, j \in 1 .. k - 1 : i < j => s[i] < s[j]
  BY <1>8, <1>10
<1>. DEFINE l == [i \in 1 .. k |-> IF i = k THEN m ELSE s[i]]
<1>. HIDE DEF k
<1>12. k \in Nat BY <1>10 DEF k
<1>13. ASSUME NEW i \in 1 .. k, i # k PROVE i \in 1 .. k - 1 BY <1>12, <1>13
<1>14. l \in [1 .. k -> T]
  <2>1. \A i \in 1 .. k - 1 : s[i] \in T BY <1>11
  <2>. QED BY <1>9, <1>13, <2>1
<1>15. ASSUME NEW i \in 1 .. k, NEW j \in 1 .. k, i < j
       PROVE  l[i] < l[j]
  <2>1. i # k /\ i \in 1 .. k - 1 BY <1>12, <1>15
  <2>2. CASE j = k
    <3>1. l[i] = s[i] /\ l[j] = m BY <2>1, <2>2
    <3>2. s[i] \in 1 .. m - 1 BY <1>8, <1>11, <2>1
    <3>. QED BY <1>3, <3>1, <3>2
  <2>3. CASE j # k
    <3>1. l[i] = s[i] /\ l[j] = s[j] /\ j \in 1 .. k - 1 BY <1>13, <2>1, <2>3
    <3>. QED BY <1>11, <1>15, <2>1, <3>1
  <2>. QED BY <2>2, <2>3
<1>16. DOMAIN l = 1 .. k OBVIOUS
<1>. HIDE DEF l
<1>17. \E z \in [1 .. k -> T] : \A i, j \in DOMAIN z : i < j => z[i] < z[j]
  BY <1>14, <1>15, <1>16
<1>. QED BY <1>4, <1>17 DEF k

(* The list of the world's troopers has each of them once and none else.   *)
LEMMA InOrderLists ==
  ASSUME NEW n \in Nat, NEW S \in SUBSET (1 .. n)
  PROVE  /\ Cardinality(S) \in Nat
         /\ InOrder(S) \in [1 .. Cardinality(S) -> S]
         /\ \A x \in S : \E i \in 1 .. Cardinality(S) : InOrder(S)[i] = x
<1>. DEFINE k == Cardinality(S)
            l == InOrder(S)
<1>1. IsFiniteSet(S)
  <2>1. IsFiniteSet(1 .. n) BY FS_Interval
  <2>. QED BY <2>1, FS_Subset
<1>2. k \in Nat BY <1>1, FS_CardinalityType
<1>3. /\ l \in [1 .. k -> S]
      /\ \A i, j \in 1 .. k : i < j => l[i] < l[j]
  BY Ascending DEF InOrder
<1>. HIDE DEF l
<1>4. l \in Injection(1 .. k, S)
  <2>1. ASSUME NEW i \in 1 .. k, NEW j \in 1 .. k, l[i] = l[j] PROVE i = j
    <3>1. l[i] \in 1 .. n /\ l[j] \in 1 .. n BY <1>3, <2>1
    <3>2. ~(i < j) /\ ~(j < i) BY <1>3, <2>1, <3>1
    <3>. QED BY <1>2, <3>2
  <2>. HIDE DEF k
  <2>2. DOMAIN l = 1 .. k BY <1>3
  <2>. QED BY <1>3, <2>1, <2>2 DEF Injection, IsInjective
<1>5. IsFiniteSet(1 .. k) /\ Cardinality(1 .. k) = k BY <1>2, FS_Interval
<1>6. l \in Surjection(1 .. k, S) BY <1>1, <1>4, <1>5, FS_Injection
<1>. QED BY <1>2, <1>3, <1>6 DEF Surjection, l
---------------------------------------------------------------------------
(* The troopers an object is given *)

(* The constants, as the proofs use them.                                  *)
LEMMA Start ==
  /\ Len(Team) \in Nat /\ DOMAIN Team = 1 .. Len(Team)
  /\ Len(Enemies) \in Nat /\ DOMAIN Enemies = 1 .. Len(Enemies)
  /\ \A t \in DOMAIN Team : Team[t] \in Trooper(Grid) /\ Team[t].pos \in Grid
  /\ \A e \in DOMAIN Enemies :
        Enemies[e] \in Trooper(Grid) /\ Enemies[e].pos \in Grid
  /\ 1 \in DOMAIN Team
<1>1. /\ Team \in Seq(Trooper(Grid)) /\ Enemies \in Seq(Trooper(Grid))
      /\ Team # << >>
  BY StrategyAssumption, StartAssumption
<1>2. \A t \in Trooper(Grid) : t.pos \in Grid BY DEF Trooper
<1>. DEFINE T == Trooper(Grid)
<1>. HIDE DEF T
<1>3. /\ Len(Team) \in Nat /\ DOMAIN Team = 1 .. Len(Team)
      /\ Len(Enemies) \in Nat /\ DOMAIN Enemies = 1 .. Len(Enemies)
      /\ \A t \in DOMAIN Team : Team[t] \in T
      /\ \A e \in DOMAIN Enemies : Enemies[e] \in T
      /\ 1 \in DOMAIN Team
  BY <1>1 DEF T
<1>. QED BY <1>2, <1>3 DEF T

(* A sequence given by its elements.                                       *)
LEMMA BuiltSeq ==
  ASSUME NEW n \in Nat, NEW T, NEW f \in [1 .. n -> T]
  PROVE  f \in Seq(T) /\ Len(f) = n /\ DOMAIN f = 1 .. n
OBVIOUS

(* A trooper with another position.                                        *)
LEMMA AtType ==
  ASSUME NEW P, NEW t \in Trooper(P), NEW p \in P
  PROVE  At(t, p) \in Trooper(P) /\ At(t, p).pos = p
BY DEF At, Trooper

(* One of a list of troopers stands on a cell.                             *)
StandsOn(s, p) == \E i \in DOMAIN s : s[i].pos = p

(* The teammates of an object stand where the living troopers are.         *)
LEMMA MatesStand ==
  ASSUME TypeOK
  PROVE  /\ Mates \in Seq(Trooper(Grid))
         /\ \A p : StandsOn(Mates, p) <=> \E t \in alive : positions[t] = p
<1>. DEFINE k == Cardinality(alive)
            l == InOrder(alive)
            T == Trooper(Grid)
<1>1. alive \in SUBSET (1 .. Len(Team)) /\ Len(Team) \in Nat
  BY Start DEF TypeOK
<1>2. /\ k \in Nat /\ l \in [1 .. k -> alive]
      /\ \A x \in alive : \E i \in 1 .. k : l[i] = x
  BY <1>1, InOrderLists
<1>3. \A t \in alive : Team[t] \in T /\ positions[t] \in Grid
  BY Start DEF TypeOK
<1>4. Mates = [i \in DOMAIN l |-> At(Team[l[i]], positions[l[i]])]
  BY DEF Mates
<1>. HIDE DEF k, l
<1>5. DOMAIN l = 1 .. k /\ \A i \in 1 .. k : l[i] \in alive BY <1>2
<1>6. \A i \in 1 .. k : /\ Mates[i] = At(Team[l[i]], positions[l[i]])
                        /\ Mates[i] \in T /\ Mates[i].pos = positions[l[i]]
  BY <1>3, <1>4, <1>5, AtType
<1>. HIDE DEF T
<1>7. Mates \in [1 .. k -> T] BY <1>4, <1>5, <1>6
<1>8. Mates \in Seq(T) /\ DOMAIN Mates = 1 .. k BY <1>2, <1>7, BuiltSeq
<1>. QED BY <1>2, <1>5, <1>6, <1>8 DEF T, StandsOn

(* The enemies of an object stand where enemies are seen.                  *)
LEMMA FoesStand ==
  ASSUME TypeOK
  PROVE  /\ Foes \in Seq(Trooper(Grid)) /\ Len(Foes) <= Len(Enemies)
         /\ \A p \in Grid :
              StandsOn(Foes, p) <=> \E e \in DOMAIN Enemies : seen[e] = p
<1>. DEFINE S == {e \in DOMAIN Enemies : seen[e] # Unseen}
            k == Cardinality(S)
            l == InOrder(S)
            T == Trooper(Grid)
<1>1. S \in SUBSET (1 .. Len(Enemies)) /\ Len(Enemies) \in Nat
  BY Start DEF TypeOK
<1>2. /\ k \in Nat /\ l \in [1 .. k -> S]
      /\ \A x \in S : \E i \in 1 .. k : l[i] = x
  BY <1>1, InOrderLists
<1>3. \A e \in S : Enemies[e] \in T /\ seen[e] \in Grid
  BY Start DEF TypeOK
<1>4. Foes = [i \in DOMAIN l |-> At(Enemies[l[i]], seen[l[i]])]
  BY DEF Foes
<1>5. Unseen \notin Grid BY DEF Unseen, Grid, Points
<1>6. \A p \in Grid : \A e \in DOMAIN Enemies : seen[e] = p => e \in S
  BY <1>5
<1>7. S \subseteq DOMAIN Enemies OBVIOUS
<1>8. k <= Len(Enemies)
  <2>. DEFINE n == Len(Enemies)
  <2>. HIDE DEF S, n
  <2>1. n \in Nat /\ S \in SUBSET (1 .. n) BY <1>1 DEF n
  <2>2. IsFiniteSet(1 .. n) /\ Cardinality(1 .. n) = n BY <2>1, FS_Interval
  <2>3. k <= n BY <2>1, <2>2, FS_Subset
  <2>. QED BY <2>3 DEF n
<1>. HIDE DEF k, l, S
<1>9. DOMAIN l = 1 .. k /\ \A i \in 1 .. k : l[i] \in S BY <1>2
<1>10. \A i \in 1 .. k : /\ Foes[i] = At(Enemies[l[i]], seen[l[i]])
                         /\ Foes[i] \in T /\ Foes[i].pos = seen[l[i]]
  BY <1>3, <1>4, <1>9, AtType
<1>. HIDE DEF T
<1>11. Foes \in [1 .. k -> T] BY <1>4, <1>9, <1>10
<1>12. Foes \in Seq(T) /\ DOMAIN Foes = 1 .. k /\ Len(Foes) = k
  BY <1>2, <1>11, BuiltSeq
<1>13. DOMAIN Foes = 1 .. k BY <1>12
<1>14. ASSUME NEW p \in Grid
       PROVE  StandsOn(Foes, p) <=> \E e \in DOMAIN Enemies : seen[e] = p
  <2>1. StandsOn(Foes, p) <=> \E i \in 1 .. k : seen[l[i]] = p
    BY <1>10, <1>13 DEF StandsOn
  <2>. QED BY <1>2, <1>6, <1>7, <2>1
<1>. QED BY <1>8, <1>12, <1>14 DEF T

(* A list of troopers stands where its two halves do.                      *)
LEMMA BothStand ==
  ASSUME NEW T, NEW s \in Seq(T), NEW u \in Seq(T), NEW p
  PROVE  StandsOn(s \o u, p) <=> StandsOn(s, p) \/ StandsOn(u, p)
<1>1. /\ DOMAIN (s \o u) = 1 .. Len(s) + Len(u)
      /\ DOMAIN s = 1 .. Len(s) /\ DOMAIN u = 1 .. Len(u)
      /\ Len(s) \in Nat /\ Len(u) \in Nat
      /\ \A i \in 1 .. Len(s) : (s \o u)[i] = s[i]
      /\ \A i \in 1 .. Len(u) : (s \o u)[Len(s) + i] = u[i]
  OBVIOUS
<1>2. ASSUME StandsOn(s \o u, p) PROVE StandsOn(s, p) \/ StandsOn(u, p)
  <2>1. PICK i \in DOMAIN (s \o u) : (s \o u)[i].pos = p
    BY <1>2 DEF StandsOn
  <2>2. CASE i <= Len(s)
    <3>1. i \in DOMAIN s BY <1>1, <2>2
    <3>. QED BY <1>1, <2>1, <3>1 DEF StandsOn
  <2>3. CASE ~(i <= Len(s))
    <3>1. i - Len(s) \in DOMAIN u /\ Len(s) + (i - Len(s)) = i
      BY <1>1, <2>3
    <3>. QED BY <1>1, <2>1, <3>1 DEF StandsOn
  <2>. QED BY <2>2, <2>3
<1>3. ASSUME StandsOn(s, p) PROVE StandsOn(s \o u, p)
  <2>1. PICK i \in DOMAIN s : s[i].pos = p BY <1>3 DEF StandsOn
  <2>2. i \in DOMAIN (s \o u) /\ (s \o u)[i] = s[i] BY <1>1
  <2>. QED BY <2>1, <2>2 DEF StandsOn
<1>4. ASSUME StandsOn(u, p) PROVE StandsOn(s \o u, p)
  <2>1. PICK i \in DOMAIN u : u[i].pos = p BY <1>4 DEF StandsOn
  <2>2. /\ Len(s) + i \in DOMAIN (s \o u)
        /\ (s \o u)[Len(s) + i] = u[i]
    BY <1>1
  <2>. QED BY <2>1, <2>2 DEF StandsOn
<1>. QED BY <1>2, <1>3, <1>4
---------------------------------------------------------------------------
(* What an object does *)

(* In the object's copy of the cells just those are FREE that a trooper    *)
(* can step on now.                                                        *)
LEMMA MarkedCells ==
  ASSUME TypeOK, HeldUnmarked, NEW p \in Grid
  PROVE  OccupiedCells(held, Mates \o Foes)[p] = "FREE"
           <=> /\ WorldCells[p] = "FREE"
               /\ \A t \in alive : positions[t] # p
               /\ \A e \in DOMAIN Enemies : seen[e] # p
<1>. DEFINE marked == OccupiedCells(held, Mates \o Foes)
            Stands == StandsOn(Mates \o Foes, p)
<1>1. p \in DOMAIN held /\ held[p] = WorldCells[p]
  BY DEF TypeOK, HeldUnmarked
<1>2. marked[p] = IF Stands THEN "LOW_COVER" ELSE WorldCells[p]
  BY <1>1 DEF OccupiedCells, StandsOn
<1>3. Mates \in Seq(Trooper(Grid)) /\ Foes \in Seq(Trooper(Grid))
  BY MatesStand, FoesStand
<1>4. Stands <=> \/ \E t \in alive : positions[t] = p
                 \/ \E e \in DOMAIN Enemies : seen[e] = p
  <2>. DEFINE T == Trooper(Grid)
  <2>. HIDE DEF T
  <2>1. Mates \in Seq(T) /\ Foes \in Seq(T) BY <1>3 DEF T
  <2>2. Stands <=> StandsOn(Mates, p) \/ StandsOn(Foes, p)
    BY <2>1, BothStand
  <2>. QED BY <2>2, MatesStand, FoesStand
<1>. HIDE DEF Stands, marked
<1>5. marked[p] = "FREE" <=> WorldCells[p] = "FREE" /\ ~Stands BY <1>2
<1>. QED BY <1>4, <1>5 DEF marked

(* The search of an object starts where its trooper stands, and nothing    *)
(* has been done yet.                                                      *)
LEMMA RootIsHere ==
  ASSUME TypeOK
  PROVE  LET st == Root(Object).st
         IN  /\ st.pos = Here
             /\ st.mate_damage = 0 /\ st.damage = 0 /\ st.kills = 0
<1>. DEFINE x == Object
            s == InitialState(x)
            m == s.has_medkit \/ BonusAt(x, s.pos, "MEDIKIT")
            r == s.has_field_ration \/ (BonusAt(x, s.pos, "FIELD_RATION")
                                          /\ ~s.used_field_ration)
            g == s.has_grenade \/ (BonusAt(x, s.pos, "GRENADE")
                                     /\ ~s.used_grenade)
<1>1. x.self.pos = Here
  <2>1. Team[self] \in Trooper(Grid) /\ Here \in Grid
    BY Start DEF TypeOK, Here
  <2>. QED BY <2>1, AtType DEF Object
<1>. HIDE DEF x
<1>2. s.pos = Here BY <1>1 DEF InitialState
<1>3. Root(x).st = PickUp(x, s) BY DEF Root
<1>4. PickUp(x, s) = [s EXCEPT !.has_medkit = m, !.has_field_ration = r,
                               !.has_grenade = g]
  BY DEF PickUp
<1>. HIDE DEF m, r, g
<1>5. LET st == PickUp(x, s)
      IN  /\ st.pos = s.pos
          /\ st.mate_damage = 0 /\ st.damage = 0 /\ st.kills = 0
  BY <1>4 DEF InitialState
<1>. QED BY <1>2, <1>3, <1>5 DEF x

(* On the grid, a cell is next to each of its four neighbours.             *)
LEMMA NeighIsNext ==
  ASSUME NEW p \in Grid, NEW n \in 1 .. 4
  PROVE  HasNeigh(p, Neigh(p, n))
<1>1. p[1] \in Int /\ p[2] \in Int BY StrategyAssumption DEF Grid, Points
<1>. DEFINE x == p[1]
            y == p[2]
<1>2. CASE n = 1
  <2>1. Neigh(p, n) = <<x + -1, y + 0>> BY <1>2 DEF Neigh, Directions
  <2>. HIDE DEF x, y
  <2>. QED BY <1>1, <2>1 DEF HasNeigh, Magnitude, x, y
<1>3. CASE n = 2
  <2>1. Neigh(p, n) = <<x + 0, y + -1>> BY <1>3 DEF Neigh, Directions
  <2>. QED BY <1>1, <2>1 DEF HasNeigh, Magnitude
<1>4. CASE n = 3
  <2>1. Neigh(p, n) = <<x + 1, y + 0>> BY <1>4 DEF Neigh, Directions
  <2>. QED BY <1>1, <2>1 DEF HasNeigh, Magnitude
<1>5. CASE n = 4
  <2>1. Neigh(p, n) = <<x + 0, y + 1>> BY <1>5 DEF Neigh, Directions
  <2>. QED BY <1>1, <2>1 DEF HasNeigh, Magnitude
<1>. QED BY <1>2, <1>3, <1>4, <1>5

(* A distance is an integer, inf too.                                      *)
LEMMA TableType == FloydTable \in [Grid \X Grid -> Int]
<1>1. FloydTable \in [Grid \X Grid -> 1 .. Width * Height \union {inf}]
  BY StrategyAssumption DEF IsDistanceTable, Grid
<1>2. 1 .. Width * Height \union {inf} \subseteq Int
  BY StrategyAssumption DEF inf
<1>. QED BY <1>1, <1>2

(* A sum of k terms of at most b each, divided by k, is at most b.         *)
LEMMA QuotientBound ==
  ASSUME NEW k \in Nat \ {0}, NEW b \in Nat, NEW a \in 0 .. k * b
  PROVE  a \div k \in 0 .. b
<1>. DEFINE q == a \div k
<1>1. a \in Nat /\ a <= k * b
  <2>1. k * b \in Nat OBVIOUS
  <2>. QED BY <2>1
<1>2. q \in Int /\ k * q <= a /\ a < k * q + k BY <1>1
<1>. HIDE DEF q
<1>3. ASSUME ~(q <= b) PROVE FALSE
  <2>1. q - b - 1 \in Nat BY <1>2, <1>3
  <2>2. k * (q - b - 1) \in Nat BY <2>1
  <2>3. k * (q - b - 1) = k * q - k * b - k BY <1>2
  <2>. QED BY <1>1, <1>2, <2>2, <2>3
<1>4. ASSUME ~(0 <= q) PROVE FALSE
  <2>1. 0 - q - 1 \in Nat BY <1>2, <1>4
  <2>2. k * (0 - q - 1) \in Nat BY <2>1
  <2>3. k * (0 - q - 1) = 0 - k * q - k BY <1>2
  <2>. QED BY <1>1, <1>2, <2>2, <2>3
<1>. QED BY <1>2, <1>3, <1>4 DEF q

(* Two FREE cells next to each other have a distance either way.           *)
LEMMA StepsThereAndBack ==
  ASSUME NEW p \in Grid, NEW q \in Grid, HasNeigh(p, q),
         WorldCells[p] = "FREE", WorldCells[q] = "FREE"
  PROVE  FloydTable[<<p, q>>] # inf /\ FloydTable[<<q, p>>] # inf
<1>1. HasNeigh(q, p)
  <2>1. /\ p[1] \in Int /\ p[2] \in Int /\ q[1] \in Int /\ q[2] \in Int
    BY StrategyAssumption DEF Grid, Points
  <2>. QED BY <2>1 DEF HasNeigh, Magnitude
<1>. QED BY <1>1, StrategyAssumption DEF IsDistanceTable, Grid

(* Two ways make one.                                                      *)
LEMMA WaysJoin ==
  ASSUME NEW p \in Grid, NEW q \in Grid, NEW r \in Grid,
         FloydTable[<<p, r>>] # inf, FloydTable[<<r, q>>] # inf
  PROVE  FloydTable[<<p, q>>] # inf
BY StrategyAssumption DEF IsDistanceTable, Grid

(* A step run() returns leads to a cell that can be stepped on.            *)
LEMMA StepsOnFree ==
  ASSUME TypeOK, NothingLeftBehind, pc = "searching",
         NEW a \in BestFirstActions(Object), a.act = "MOVE"
  PROVE  FreeNow(Neigh(Here, a.n)) /\ HasNeigh(Here, Neigh(Here, a.n))
<1>. DEFINE x == Object
            p == Neigh(Here, a.n)
<1>1. /\ x.teammates = Mates /\ x.enemies = Foes /\ x.cells = cells
      /\ Cells(x) = Grid
  BY DEF Object, Cells, Grid
<1>2. Root(x).st.pos = Here BY RootIsHere
<1>3. a \in BestFirstActions(x) OBVIOUS
<1>. HIDE DEF x
<1>4. Len(x.teammates) \in Nat /\ Len(x.enemies) \in Nat
  BY <1>1, MatesStand, FoesStand
<1>5. a # EndTurn BY DEF EndTurn
<1>6. PICK j \in Candidates(x, Root(x)) : a = Options(x)[j]
  BY <1>3, <1>4, <1>5, FirstActions
<1>7. Allowed(x, Root(x).st, a) BY <1>6 DEF Candidates, Possible
<1>8. p \in Grid /\ cells[p] = "FREE" BY <1>1, <1>2, <1>7 DEF Allowed
<1>9. HasNeigh(Here, p)
  <2>1. a.n \in 1 .. 4
    <3>1. Options(x) \in Seq(OptionsOf(x)) BY <1>4, OptionsListed
    <3>2. a \in OptionsOf(x) BY <1>6, <3>1 DEF Candidates
    <3>. QED BY <3>2 DEF OptionsOf
  <2>2. Here \in Grid BY DEF TypeOK, Here
  <2>. QED BY <2>1, <2>2, NeighIsNext
<1>. HIDE DEF p
<1>10. FreeNow(p) BY <1>8 DEF NothingLeftBehind, FreeNow
<1>. QED BY <1>9, <1>10 DEF p
---------------------------------------------------------------------------
(* The invariant *)

(* The first object finds the game as it begins.                           *)
LEMMA InitInv == Init => IInv
<1>. SUFFICES ASSUME Init PROVE IInv OBVIOUS
<1>1. Len(Team) \in Nat /\ 1 \in DOMAIN Team BY Start
<1>2. /\ WorldCells \in [Grid -> CellTypes] /\ <<0, 0>> \in Grid
      /\ ResetPeriod \in Nat \ {0}
  BY StrategyAssumption DEF Grid, Points
<1>3. positions \in [DOMAIN Team -> Grid] BY Start DEF Init
<1>4. seen \in [DOMAIN Enemies -> Grid \union {Unseen}] BY Start DEF Init
<1>5. TypeOK BY <1>1, <1>2, <1>3, <1>4 DEF Init, TypeOK
<1>6. NoCollision BY StartAssumption DEF Init, NoCollision
<1>7. WithinReach BY StartAssumption DEF Init, WithinReach
<1>. QED
  BY <1>5, <1>6, <1>7 DEF Init, IInv, HeldUnmarked, CellsCopied, SelfAlive,
                          NothingLeftBehind, StepIsFree, TargetAccepted

(* The constructor counts the move, fills the table if it is the first,    *)
(* and marks the troopers in its copy of the cells.                        *)
LEMMA ConstructInv == ASSUME IInv, Construct PROVE IInv'
<1>. USE DEF IInv
<1>1. /\ pc = "idle" /\ self' \in alive /\ move_index' = NextIndex
      /\ IF move_index' = 0
         THEN floyd_dist' = FloydTable /\ stances' = Stances
         ELSE stances' = {} /\ floyd_dist' = floyd_dist
      /\ cells' = OccupiedCells(held, Mates \o Foes) /\ held' = held
      /\ pc' = "begin"
      /\ target' = target /\ positions' = positions /\ alive' = alive
      /\ seen' = seen /\ action' = action
  BY DEF Construct, HeldAfter, others
<1>2. move_index' \in 0 .. 2 * ResetPeriod - 1
      /\ (move_index' = 0 => move_index = -1)
  <2>1. move_index \in -1 .. 2 * ResetPeriod - 1 /\ ResetPeriod \in Nat \ {0}
    BY StrategyAssumption DEF TypeOK
  <2>. QED BY <1>1, <2>1 DEF NextIndex
<1>3. floyd_dist' = FloydTable
  <2>1. CASE move_index' = 0 BY <1>1, <2>1
  <2>2. CASE move_index' # 0 /\ move_index = -1
    <3>1. NextIndex = 0
      <4>1. ResetPeriod \in Nat \ {0} BY StrategyAssumption
      <4>. QED BY <2>2, <4>1 DEF NextIndex
    <3>. QED BY <1>1, <2>2, <3>1
  <2>3. CASE move_index' # 0 /\ move_index # -1
    BY <1>1, <2>3 DEF TypeOK
  <2>. QED BY <2>1, <2>2, <2>3
<1>4. TypeOK'
  <2>1. self' \in DOMAIN Team /\ stances' \in SUBSET Stances
    BY <1>1 DEF TypeOK
  <2>2. move_index' \in -1 .. 2 * ResetPeriod - 1 /\ move_index' # -1
    <3>1. ResetPeriod \in Nat BY StrategyAssumption
    <3>. QED BY <1>2, <3>1
  <2>. QED BY <1>1, <1>3, <2>1, <2>2 DEF TypeOK
<1>5. NothingLeftBehind'
  BY <1>1, MarkedCells DEF NothingLeftBehind
<1>6. CellsCopied'
  <2>1. held \in [Grid -> CellTypes] BY DEF TypeOK
  <2>. QED BY <1>1, <2>1 DEF CellsCopied, OccupiedCells, CellTypes
<1>7. move_index' # -1
  <2>1. ResetPeriod \in Nat BY StrategyAssumption
  <2>. QED BY <1>2, <2>1
<1>. QED
  BY <1>1, <1>4, <1>5, <1>6, <1>7 DEF HeldUnmarked, SelfAlive, NoCollision,
                                      StepIsFree, WithinReach, TargetAccepted

(* Settling on a target moves nobody.                                      *)
LEMMA TargetInv == ASSUME IInv, Begin \/ PickTarget \/ Settle PROVE IInv'
<1>. USE DEF IInv
<1>1. /\ pc \in {"begin", "picking"} /\ pc' \in {"picking", "searching"}
      /\ target' \in Grid
      /\ move_index' = move_index /\ floyd_dist' = floyd_dist
      /\ held' = held /\ positions' = positions /\ alive' = alive
      /\ seen' = seen /\ self' = self /\ cells' = cells
      /\ stances' = stances /\ action' = action
  <2>1. target \in Grid /\ Here \in Grid BY DEF TypeOK, Here
  <2>. QED BY <2>1 DEF Begin, PickTarget, Settle, RandomPoint, Grid, globals,
                       others
<1>2. TypeOK' BY <1>1 DEF TypeOK
<1>3. TargetAccepted'
  <2>1. pc' = "searching" => ~Rejected(target) /\ target' = target
    BY <1>1 DEF Begin, PickTarget, Settle, globals
  <2>. QED BY <1>1, <2>1 DEF TargetAccepted, Rejected, Here
<1>. QED
  BY <1>1, <1>2, <1>3 DEF HeldUnmarked, CellsCopied, SelfAlive,
                          NothingLeftBehind, NoCollision, StepIsFree,
                          WithinReach

(* What the search returns fits the cells as they are.                     *)
LEMMA SearchInv == ASSUME IInv, Search PROVE IInv'
<1>. USE DEF IInv
<1>1. /\ pc = "searching" /\ pc' = "answered"
      /\ action' \in BestFirstActions(Object)
      /\ move_index' = move_index /\ floyd_dist' = floyd_dist
      /\ target' = target
      /\ held' = held /\ positions' = positions /\ alive' = alive
      /\ seen' = seen /\ self' = self /\ cells' = cells
      /\ stances' = stances
  BY DEF Search, globals, others
<1>2. TypeOK' BY <1>1 DEF TypeOK
<1>3. StepIsFree'
  BY <1>1, StepsOnFree DEF StepIsFree, FreeNow, Here
<1>. QED
  BY <1>1, <1>2, <1>3 DEF HeldUnmarked, CellsCopied, SelfAlive,
                          NothingLeftBehind, NoCollision, WithinReach,
                          TargetAccepted

(* The simulator puts the trooper on a cell nobody stands on.              *)
LEMMA ApplyInv == ASSUME IInv, Apply PROVE IInv'
<1>. USE DEF IInv
<1>. DEFINE q == Neigh(positions[self], action.n)
<1>1. /\ pc = "answered" /\ pc' = "idle"
      /\ positions' = IF action.act = "MOVE"
                      THEN [positions EXCEPT ![self] = q] ELSE positions
      /\ move_index' = move_index /\ floyd_dist' = floyd_dist
      /\ target' = target
      /\ held' = held /\ alive' = alive
      /\ seen' = seen /\ self' = self /\ cells' = cells
      /\ stances' = stances /\ action' = action
  BY DEF Apply, globals, others
<1>2. action.act = "MOVE" => FreeNow(q) /\ HasNeigh(positions[self], q)
  BY <1>1 DEF StepIsFree, Here
<1>. HIDE DEF q
<1>3. self \in alive /\ alive \subseteq DOMAIN Team
      /\ positions \in [DOMAIN Team -> Grid]
  BY <1>1 DEF SelfAlive, TypeOK
<1>4. CASE action.act = "MOVE"
  <2>1. /\ positions' \in [DOMAIN Team -> Grid]
        /\ \A t \in alive : positions'[t] = IF t = self THEN q ELSE positions[t]
    BY <1>1, <1>2, <1>3, <1>4 DEF FreeNow
  <2>2. TypeOK' BY <1>1, <2>1 DEF TypeOK
  <2>3. NoCollision' BY <1>1, <1>2, <1>4, <2>1 DEF NoCollision, FreeNow
  <2>4. WithinReach'
    <3>. DEFINE p == positions[self]
                d == FloydTable
    <3>1. /\ p \in Grid /\ WorldCells[p] = "FREE"
          /\ q \in Grid /\ WorldCells[q] = "FREE" /\ HasNeigh(p, q)
          /\ \A t \in alive : positions[t] \in Grid
      BY <1>2, <1>3, <1>4 DEF FreeNow, NoCollision
    <3>2. d[<<p, q>>] # inf /\ d[<<q, p>>] # inf BY <3>1, StepsThereAndBack
    <3>3. ASSUME NEW t \in alive
          PROVE  d[<<p, positions[t]>>] # inf /\ d[<<positions[t], p>>] # inf
      BY <1>3 DEF WithinReach
    <3>4. \A a, b, c \in Grid : d[<<a, c>>] # inf /\ d[<<c, b>>] # inf
                                  => d[<<a, b>>] # inf
      BY StrategyAssumption DEF IsDistanceTable, Grid
    <3>. HIDE DEF p, d
    <3>5. ASSUME NEW t \in alive
          PROVE  d[<<q, positions[t]>>] # inf /\ d[<<positions[t], q>>] # inf
      BY <3>1, <3>2, <3>3, <3>4
    <3>6. d[<<q, q>>] # inf BY <3>1, <3>2, <3>4
    <3>7. \A s, t \in alive : d[<<positions'[s], positions'[t]>>] # inf
      BY <2>1, <3>5, <3>6 DEF WithinReach, d
    <3>. QED BY <1>1, <3>7 DEF WithinReach, d
  <2>. QED
    BY <1>1, <2>2, <2>3, <2>4 DEF HeldUnmarked, CellsCopied, SelfAlive,
                                  NothingLeftBehind, StepIsFree,
                                  TargetAccepted
<1>5. CASE action.act # "MOVE"
  <2>1. TypeOK' BY <1>1, <1>5 DEF TypeOK
  <2>. QED
    BY <1>1, <1>5, <2>1 DEF HeldUnmarked, CellsCopied, SelfAlive,
                            NothingLeftBehind, NoCollision, StepIsFree,
                            WithinReach, TargetAccepted
<1>. QED BY <1>4, <1>5

(* Between two moves enemies come and go, but never onto a trooper.        *)
LEMMA EnemyInv == ASSUME IInv, EnemyMoves PROVE IInv'
<1>. USE DEF IInv
<1>1. PICK e \in DOMAIN Enemies,
  p \in (EnemyCells \ Occupied) \union {Unseen} :
         seen' = [seen EXCEPT ![e] = p]
  BY DEF EnemyMoves
<1>2. /\ pc = "idle" /\ pc' = pc /\ positions' = positions
      /\ move_index' = move_index /\ floyd_dist' = floyd_dist
      /\ target' = target
      /\ held' = held /\ alive' = alive
      /\ self' = self /\ cells' = cells
      /\ stances' = stances /\ action' = action
  BY DEF EnemyMoves, globals
<1>3. p \in Grid \union {Unseen} BY StrategyAssumption
<1>4. \A t \in alive : positions[t] # p
  <2>1. Unseen \notin Grid BY DEF Unseen, Grid, Points
  <2>. QED BY <2>1 DEF Occupied, TypeOK
<1>5. TypeOK' BY <1>1, <1>2, <1>3 DEF TypeOK
<1>6. NoCollision' BY <1>1, <1>2, <1>4 DEF NoCollision, TypeOK
<1>. QED
  BY <1>2, <1>5, <1>6 DEF HeldUnmarked, CellsCopied, SelfAlive,
                          NothingLeftBehind, StepIsFree, WithinReach,
                          TargetAccepted

(* So do troopers die, but never the last one.                             *)
LEMMA DeathInv == ASSUME IInv, TrooperDies PROVE IInv'
<1>. USE DEF IInv
<1>1. PICK t \in alive : alive' = alive \ {t} BY DEF TrooperDies
<1>2. /\ pc = "idle" /\ pc' = pc /\ positions' = positions
      /\ move_index' = move_index /\ floyd_dist' = floyd_dist
      /\ target' = target /\ seen' = seen
      /\ held' = held /\ self' = self /\ cells' = cells
      /\ stances' = stances /\ action' = action
      /\ Cardinality(alive) > 1
  BY DEF TrooperDies, globals
<1>3. alive' # {}
  <2>1. SUFFICES ASSUME alive = {t} PROVE FALSE BY <1>1
  <2>2. Cardinality({t}) = 1 BY FS_Singleton
  <2>. QED BY <1>2, <2>1, <2>2
<1>4. TypeOK' BY <1>1, <1>2, <1>3 DEF TypeOK
<1>5. NoCollision' BY <1>1, <1>2 DEF NoCollision
<1>. QED
  BY <1>1, <1>2, <1>4, <1>5 DEF HeldUnmarked, CellsCopied, SelfAlive,
                                NothingLeftBehind, StepIsFree, WithinReach,
                                TargetAccepted

(* Every step keeps the invariant.                                         *)
LEMMA NextInv == IInv /\ [Next]_vars => IInv'
<1>. SUFFICES ASSUME IInv, [Next]_vars PROVE IInv' OBVIOUS
<1>1. CASE UNCHANGED vars
  BY <1>1 DEF vars, globals, others, IInv, TypeOK, HeldUnmarked, CellsCopied,
              SelfAlive,
              NothingLeftBehind, NoCollision, StepIsFree, FreeNow, Here,
              WithinReach, TargetAccepted, Rejected
<1>. QED
  BY <1>1, ConstructInv, TargetInv, SearchInv, ApplyInv, EnemyInv, DeathInv
     DEF Next, Move

(* The invariant holds throughout the game.                                *)
LEMMA Invariant == Spec => []IInv
BY InitInv, NextInv, PTL DEF Spec

(* The globals and the members of the object keep their types, however     *)
(* many moves and games' turns go by.                                      *)
THEOREM TypeCorrect == Spec => []TypeOK
BY Invariant, PTL DEF IInv

(* Each object sees as taken just the cells somebody stands on now: those  *)
(* left, or died on, are free again.                                       *)
THEOREM NothingStaysMarked == Spec => []NothingLeftBehind
BY Invariant, PTL DEF IInv

(* No move the strategy answers with puts a trooper on another one, on an  *)
(* enemy in sight or on a cell that is not FREE.                           *)
THEOREM NobodyCollides == Spec => []NoCollision
BY Invariant, PTL DEF IInv
---------------------------------------------------------------------------
(* The objects the searches start from *)

(* An object's members are of their types, whatever the globals and the    *)
(* moves before it have left, and its trooper is one of its teammates.     *)
LEMMA ObjectIsContext ==
  ASSUME IInv, pc = "searching"
  PROVE  /\ Object \in Context(Width, Height) /\ ValidContext(Object)
         /\ Here \in Grid /\ target \in Grid
<1>. USE DEF IInv
<1>1. /\ floyd_dist = FloydTable
      /\ self \in alive /\ self \in DOMAIN Team
      /\ cells \in [Grid -> CellTypes]
      /\ stances \in SUBSET Stances /\ target \in Grid /\ Here \in Grid
  BY DEF TypeOK, SelfAlive, CellsCopied, Here
<1>2. Width \in Nat /\ Height \in Nat
      /\ Visibilities \in SUBSET (Grid \X Grid \X Stances)
  BY StrategyAssumption
<1>3. floyd_dist \in [Grid \X Grid -> Int] BY <1>1, TableType
<1>4. At(Team[self], Here) \in Trooper(Grid)
  <2>1. Team[self] \in Trooper(Grid) BY <1>1, Start
  <2>. QED BY <1>1, <2>1, AtType
<1>5. Mates \in Seq(Trooper(Grid)) /\ Foes \in Seq(Trooper(Grid))
  BY MatesStand, FoesStand
<1>6. << >> \in Seq(Bonus(Grid)) OBVIOUS
<1>7. Object \in Context(Width, Height)
  <2>. DEFINE T == Trooper(Grid)
              me == At(Team[self], Here)
              S == Seq(T)
              B == Seq(Bonus(Grid))
              V == SUBSET (Grid \X Grid \X Stances)
  <2>1. Context(Width, Height) =
          [ width: {Width}, height: {Height}, cells: [Grid -> CellTypes],
            visibilities: V, dist: [Grid \X Grid -> Int],
            self: T, teammates: S, enemies: S, bonuses: B,
            stances: SUBSET Stances, target: Grid ]
    BY DEF Context, Grid
  <2>2. me \in T /\ Mates \in S /\ Foes \in S /\ << >> \in B
        /\ Visibilities \in V
    BY <1>2, <1>4, <1>5, <1>6
  <2>. HIDE DEF T, S, B, V
  <2>3. Object = [ width |-> Width, height |-> Height, cells |-> cells,
                   visibilities |-> Visibilities, dist |-> floyd_dist,
                   self |-> me, teammates |-> Mates, enemies |-> Foes,
                   bonuses |-> << >>, stances |-> stances,
                   target |-> target ]
    BY DEF Object
  <2>. HIDE DEF me
  <2>. QED BY <1>1, <1>3, <2>1, <2>2, <2>3
<1>8. \E i \in DOMAIN Object.teammates : Object.teammates[i] = Object.self
  <2>1. \E i \in DOMAIN Mates : Mates[i] = At(Team[self], positions[self])
    <3>. DEFINE k == Cardinality(alive)
                l == InOrder(alive)
    <3>1. alive \in SUBSET (1 .. Len(Team)) /\ Len(Team) \in Nat
      BY Start DEF TypeOK
    <3>2. /\ l \in [1 .. k -> alive]
          /\ \E i \in 1 .. k : l[i] = self
      BY <1>1, <3>1, InOrderLists
    <3>3. Mates = [i \in DOMAIN l |-> At(Team[l[i]], positions[l[i]])]
      BY DEF Mates
    <3>. HIDE DEF l, k
    <3>. QED BY <3>2, <3>3
  <2>. QED BY <2>1 DEF Object, Here
<1>9. Object.width = Width /\ Object.height = Height BY DEF Object
<1>. QED BY <1>1, <1>2, <1>7, <1>8, <1>9 DEF ValidContext

(* The target of a search and the mates are all within reach.              *)
LEMMA DistancesInRange ==
  ASSUME IInv, pc = "searching"
  PROVE  /\ MinDistance(Object, Here, target) \in 6 .. Width * Height
         /\ \A t \in alive :
               MinDistance(Object, Here, positions[t]) \in 1 .. Width * Height
<1>. USE DEF IInv
<1>1. /\ floyd_dist = FloydTable /\ self \in alive /\ Here = positions[self]
      /\ target \in Grid /\ \A t \in alive : positions[t] \in Grid
  BY DEF TypeOK, SelfAlive, Here
<1>2. \A p \in Grid : MinDistance(Object, Here, p) = FloydTable[<<Here, p>>]
  BY <1>1 DEF MinDistance, Object
<1>3. \A p \in Grid :
         FloydTable[<<Here, p>>] \in 1 .. Width * Height \union {inf}
  BY <1>1, StrategyAssumption DEF IsDistanceTable, Grid
<1>4. \A t \in alive : FloydTable[<<Here, positions[t]>>] # inf
  BY <1>1 DEF WithinReach
<1>5. /\ ~(FloydTable[<<Here, target>>] <= 5)
      /\ FloydTable[<<Here, target>>] # inf
  BY <1>1 DEF TargetAccepted, Rejected
<1>. DEFINE area == Width * Height
<1>6. area \in Nat BY StrategyAssumption
<1>. HIDE DEF area
<1>7. FloydTable[<<Here, target>>] \in 6 .. area
  BY <1>1, <1>3, <1>5, <1>6 DEF area
<1>. QED BY <1>1, <1>2, <1>3, <1>4, <1>7 DEF area

(* Ending the turn at once scores above the sentinel.                      *)
LEMMA RootScore ==
  ASSUME IInv, pc = "searching"
  PROVE  Score(Object, Root(Object).st) > -inf
<1>. DEFINE x == Object
            st == Root(x).st
            area == Width * Height
            foes == Len(Enemies)
            danger == ShootingEnemies(x, st.pos, st.stance,
                                      Game.grenadeThrowRange2)
            mates == (60 * MatesDist(x, st.pos)) \div Len(x.teammates)
            goal == MinDistance(x, st.pos, x.target)
            medkit == AsInt(st.has_medkit)
            ration == AsInt(st.has_field_ration)
            grenade == AsInt(st.has_grenade)
            command == AsInt(CloseToCommander(x, st.pos,
                                              Game.commanderAuraRange2))
<1>1. /\ area \in Nat /\ foes \in Nat
      /\ 10000 * foes + 115 * area < inf
  BY Start, StrategyAssumption, ScaleAssumption
<1>2. TypeOK BY DEF IInv
<1>3. /\ st.pos = Here /\ st.mate_damage = 0 /\ st.damage = 0
      /\ st.kills = 0
  BY <1>2, RootIsHere
<1>4. x.target = target /\ x.teammates = Mates /\ x.enemies = Foes
  BY DEF Object
<1>5. goal \in 0 .. area
  <2>1. goal = MinDistance(Object, Here, target) BY <1>3, <1>4
  <2>. HIDE DEF x, st, area
  <2>2. goal \in 6 .. area BY <2>1, DistancesInRange DEF area
  <2>. QED BY <1>1, <2>2
<1>6. mates \in 0 .. 60 * area
  <2>. DEFINE n == Len(Mates)
              T == Trooper(Grid)
              sum == MatesDist(x, Here)
  <2>1. Mates \in Seq(T) BY <1>2, MatesStand
  <2>. HIDE DEF T, x, st, area
  <2>2. n \in Nat /\ DOMAIN Mates = 1 .. n BY <2>1
  <2>3. \A i \in 1 .. n : \E t \in alive : positions[t] = Mates[i].pos
    BY <1>2, <2>2, MatesStand DEF StandsOn
  <2>4. n # 0
    <3>1. PICK t \in alive : TRUE BY <1>2 DEF TypeOK
    <3>2. StandsOn(Mates, positions[t]) BY <1>2, MatesStand
    <3>. QED BY <2>2, <3>2 DEF StandsOn
  <2>5. \A i \in 1 .. n : MinDistance(x, Here, Mates[i].pos) \in 0 .. area
    BY <1>1, <2>3, DistancesInRange DEF x, area
  <2>. HIDE DEF n
  <2>6. sum \in 0 .. n * area
    <3>1. DOMAIN x.teammates = 1 .. n BY <1>4, <2>2
    <3>2. \A i \in 1 .. n :
             MinDistance(x, Here, x.teammates[i].pos) \in 0 .. area
      BY <1>4, <2>5
    <3>3. n \in Nat /\ area \in Nat BY <1>1, <2>2
    <3>4. MatesDist(x, Here) \in 0 .. n * area
      BY <3>1, <3>2, <3>3, MatesDistBound
    <3>. QED BY <3>4 DEF sum
  <2>. HIDE DEF sum
  <2>7. 60 * sum \in 0 .. n * (60 * area)
    <3>. DEFINE m == n * area
    <3>1. m \in Nat /\ n * (60 * area) = 60 * m BY <1>1, <2>2
    <3>2. sum \in 0 .. m BY <2>6
    <3>. HIDE DEF m
    <3>. QED BY <3>1, <3>2
  <2>8. (60 * sum) \div n \in 0 .. 60 * area
    <3>. DEFINE b == 60 * area
                a == 60 * sum
    <3>1. b \in Nat /\ n \in Nat \ {0} /\ a \in 0 .. n * b
      BY <1>1, <2>2, <2>4, <2>7
    <3>. HIDE DEF a, b
    <3>2. a \div n \in 0 .. b BY <3>1, QuotientBound
    <3>. QED BY <3>2 DEF a, b
  <2>. QED BY <1>3, <1>4, <2>8 DEF sum, n
<1>7. danger \in 0 .. foes
  <2>. DEFINE S == { i \in DOMAIN Foes :
                       IsShooting(x, Foes[i], st.pos, st.stance,
                                  Game.grenadeThrowRange2) }
              n == Len(Foes)
              T == Trooper(Grid)
  <2>1. Foes \in Seq(T) /\ n <= foes BY <1>2, FoesStand
  <2>. HIDE DEF T
  <2>2. n \in Nat /\ S \in SUBSET (1 .. n) BY <2>1
  <2>3. danger = Cardinality(S) BY <1>4 DEF ShootingEnemies
  <2>. HIDE DEF S, n, foes, danger
  <2>4. /\ IsFiniteSet(1 .. n) /\ Cardinality(1 .. n) = n
    BY <2>2, FS_Interval
  <2>5. Cardinality(S) \in Nat /\ Cardinality(S) <= n
    BY <2>2, <2>4, FS_Subset, FS_CardinalityType
  <2>. QED BY <1>1, <2>1, <2>2, <2>3, <2>5
<1>8. /\ medkit \in {0, 1} /\ ration \in {0, 1}
      /\ grenade \in {0, 1} /\ command \in {0, 1}
  BY DEF AsInt
<1>. DEFINE aura == IF x.self.type # "SCOUT" THEN 500 * command ELSE 0
            way == IF st.mate_damage >= 0 /\ st.damage = 0
                   THEN 55 * goal ELSE 0
<1>9. Score(x, st) =
         - 2000 * st.mate_damage + 300 * st.damage + 20000 * st.kills
         - 10000 * danger + 400 * medkit + 400 * ration + 400 * grenade
         - mates - way + aura
  BY DEF Score
<1>. HIDE DEF x, st, area, foes, danger, mates, goal, medkit, ration, grenade,
              command
<1>10. way = 55 * goal /\ aura \in 0 .. 500
  BY <1>3, <1>5, <1>8
<1>. HIDE DEF way, aura
<1>11. Score(x, st) =
         - 10000 * danger + 400 * medkit + 400 * ration + 400 * grenade
         - mates - 55 * goal + aura
  BY <1>1, <1>3, <1>5, <1>6, <1>7, <1>8, <1>9, <1>10
<1>12. /\ - 10000 * danger >= - 10000 * foes
       /\ mates <= 60 * area /\ 55 * goal <= 55 * area
  BY <1>1, <1>5, <1>6, <1>7
<1>13. Score(x, st) > -inf
  BY <1>1, <1>5, <1>6, <1>7, <1>8, <1>10, <1>11, <1>12 DEF inf
<1>. QED BY <1>13 DEF x, st

(* Each search starts with a target and mates within reach, and so from a  *)
(* first score above the sentinel, however the target came down from other *)
(* troopers' moves.                                                        *)
THEOREM SearchesCanStart == Spec => []SearchCanStart
<1>1. IInv => SearchCanStart
  BY ObjectIsContext, DistancesInRange, RootScore DEF SearchCanStart
<1>. QED BY <1>1, Invariant, PTL

(* A node of the plan tree on a FREE cell of the map from which a way      *)
(* leads to where the trooper stands.                                      *)
Reachable(r) ==
    /\ r.st \in State(Standable(Object)) /\ r.st.pos \in Grid
    /\ WorldCells[r.st.pos] = "FREE" /\ FloydTable[<<r.st.pos, Here>>] # inf

(* So is every node of the plan tree: each move of a plan is a step.       *)
LEMMA PlansReachable ==
  ASSUME IInv, pc = "searching", NEW q \in Outcomes(Object)
  PROVE  Reachable(q)
<1>. DEFINE x == Object
            S == {n \in Outcomes(x) \X (1 .. MaxActionNumber) :
                    n[1] \in Level(x)[n[2]] /\ Reachable(n[1])}
<1>1. TypeOK /\ NoCollision /\ NothingLeftBehind /\ SelfAlive /\ WithinReach
  BY DEF IInv
<1>2. ValidContext(x) /\ x.cells = cells /\ Cells(x) = Grid /\ Here \in Grid
  BY ObjectIsContext DEF Object, Cells, Grid
<1>3. WorldCells[Here] = "FREE" /\ FloydTable[<<Here, Here>>] # inf
  BY <1>1 DEF NoCollision, SelfAlive, WithinReach, Here
<1>4. Reachable(Root(x))
  <2>1. Root(x).st.pos = Here BY <1>1, RootIsHere
  <2>2. Root(x).st \in State(Standable(x))
    <3>. HIDE DEF x
    <3>. QED BY <1>2, InitialStateType, PickUpType DEF Root
  <2>. QED BY <1>2, <1>3, <2>1, <2>2 DEF Reachable
<1>5. ASSUME NEW r, Reachable(r), NEW j \in Candidates(x, r)
      PROVE  Reachable(Successor(x, r, Options(x)[j]))
  <2>. DEFINE o == Options(x)[j]
              n == NewState(x, r.st, o)
  <2>1. r.st \in State(Standable(x)) BY <1>5 DEF Reachable
  <2>2. Reachable(r) /\ j \in Candidates(x, r) BY <1>5
  <2>3. r.st.pos \in Grid /\ WorldCells[r.st.pos] = "FREE"
        /\ FloydTable[<<r.st.pos, Here>>] # inf
    BY <2>2 DEF Reachable
  <2>. HIDE DEF x
  <2>4. o \in OptionsOf(x) /\ Allowed(x, r.st, o)
    <3>1. Options(x) \in Seq(OptionsOf(x)) BY <1>2, OptionsType
    <3>. QED BY <2>2, <3>1 DEF Candidates, Possible
  <2>5. n \in State(Standable(x)) BY <1>2, <2>1, <2>4, NewStateType
  <2>6. Successor(x, r, o).st = PickUp(x, n) BY DEF Successor
  <2>7. PickUp(x, n) \in State(Standable(x)) /\ PickUp(x, n).pos = n.pos
    BY <2>5, PickUpType
  <2>8. n.pos = IF o.act = "MOVE" THEN Neigh(r.st.pos, o.n) ELSE r.st.pos
    BY <2>1, <2>4, NewStatePos
  <2>9. /\ n.pos \in Grid /\ WorldCells[n.pos] = "FREE"
        /\ FloydTable[<<n.pos, Here>>] # inf
    <3>1. CASE o.act = "MOVE"
      <4>. DEFINE p == Neigh(r.st.pos, o.n)
      <4>1. p \in Grid /\ cells[p] = "FREE" BY <1>2, <2>4, <3>1 DEF Allowed
      <4>2. HasNeigh(r.st.pos, p) BY <2>3, <2>4, <3>1, NeighIsNext DEF OptionsOf
      <4>. HIDE DEF p
      <4>3. WorldCells[p] = "FREE" BY <1>1, <4>1 DEF NothingLeftBehind
      <4>4. FloydTable[<<p, r.st.pos>>] # inf
        BY <2>3, <4>1, <4>2, <4>3, StepsThereAndBack
      <4>5. FloydTable[<<p, Here>>] # inf BY <1>2, <2>3, <4>1, <4>4, WaysJoin
      <4>. QED BY <2>8, <3>1, <4>1, <4>3, <4>5 DEF p
    <3>2. CASE o.act # "MOVE" BY <2>3, <2>8, <3>2
    <3>. QED BY <3>1, <3>2
  <2>. QED BY <2>6, <2>7, <2>9 DEF Reachable, x
<1>. HIDE DEF x
<1>6. <<Root(x), 1>> \in S
  BY <1>4, LevelOne, CutoffAssumption DEF Outcomes
<1>7. \A d \in 1 .. MaxActionNumber : \A r :
         <<r, d>> \in S /\ d < MaxActionNumber =>
           \A j \in Candidates(x, r) :
             <<Successor(x, r, Options(x)[j]), d + 1>> \in S
  <2>1. SUFFICES ASSUME NEW d \in 1 .. MaxActionNumber, NEW r,
                        <<r, d>> \in S, d < MaxActionNumber,
                        NEW j \in Candidates(x, r)
                 PROVE  <<Successor(x, r, Options(x)[j]), d + 1>> \in S
    OBVIOUS
  <2>. DEFINE n == Successor(x, r, Options(x)[j])
  <2>2. r \in Level(x)[d] /\ Reachable(r) BY <2>1
  <2>3. n \in Level(x)[d + 1] /\ d + 1 \in 1 .. MaxActionNumber
    BY <2>1, <2>2, LevelStep, CutoffAssumption
  <2>4. Reachable(n) BY <1>5, <2>2
  <2>5. n \in Outcomes(x) BY <2>3 DEF Outcomes
  <2>. QED BY <2>3, <2>4, <2>5
<1>. HIDE DEF S
<1>8. \A d \in 1 .. MaxActionNumber : \A r \in Level(x)[d] : <<r, d>> \in S
  BY <1>6, <1>7, ClosedCoversLevels
<1>9. PICK d \in 1 .. MaxActionNumber : q \in Level(x)[d]
  BY DEF Outcomes, x
<1>. QED BY <1>8, <1>9 DEF S

(* No plan the search looks at ends where the target or a mate is out of   *)
(* reach: the inf of the table never enters a score.                       *)
PlansInReach ==
    pc = "searching" =>
        \A r \in Outcomes(Object) :
            /\ MinDistance(Object, r.st.pos, target) \in 1 .. Width * Height
            /\ \A t \in alive :
                  MinDistance(Object, r.st.pos, positions[t])
                    \in 1 .. Width * Height

(* Whatever plan is scored, its distances are the lengths of ways.         *)
THEOREM ScoresAreOfWays == Spec => []PlansInReach
<1>1. ASSUME IInv, pc = "searching", NEW r \in Outcomes(Object), NEW p \in Grid,
             FloydTable[<<Here, p>>] # inf
      PROVE  MinDistance(Object, r.st.pos, p) \in 1 .. Width * Height
  <2>1. /\ r.st.pos \in Grid /\ FloydTable[<<r.st.pos, Here>>] # inf
        /\ Here \in Grid
    BY <1>1, PlansReachable, ObjectIsContext DEF Reachable
  <2>2. FloydTable[<<r.st.pos, p>>] # inf BY <1>1, <2>1, WaysJoin
  <2>3. MinDistance(Object, r.st.pos, p) = FloydTable[<<r.st.pos, p>>]
    BY <1>1 DEF MinDistance, Object, IInv, SelfAlive, TypeOK
  <2>4. FloydTable[<<r.st.pos, p>>] \in 1 .. Width * Height \union {inf}
    BY <1>1, <2>1, StrategyAssumption DEF IsDistanceTable, Grid
  <2>. QED BY <2>2, <2>3, <2>4
<1>2. ASSUME IInv, pc = "searching"
      PROVE  /\ target \in Grid /\ FloydTable[<<Here, target>>] # inf
             /\ \A t \in alive : /\ positions[t] \in Grid
                                 /\ FloydTable[<<Here, positions[t]>>] # inf
  BY <1>2 DEF IInv, TypeOK, SelfAlive, TargetAccepted, Rejected, WithinReach,
              Here
<1>3. IInv => PlansInReach BY <1>1, <1>2 DEF PlansInReach
<1>. QED BY <1>3, Invariant, PTL

(* What Plans assumes of the objects PlanSearch searches from: all of      *)
(* ContextAssumption and of RootScoreAssumption.                           *)
SearchedFrom ==
    pc = "searching" =>
        ValidContext(Object) /\ Score(Object, Root(Object).st) > -inf

(* Every object a move is searched on is one PlanSearch may search from.   *)
THEOREM ObjectsAreContexts == Spec => []SearchedFrom
<1>1. IInv => SearchedFrom
  BY ObjectIsContext, RootScore DEF SearchedFrom
<1>. QED BY <1>1, Invariant, PTL
===============================================================================
