----------------------------- MODULE PlansProofs -----------------------------
(***************************************************************************)
(* What the operators of Plans return: every guard, cost, effect and score *)
(* of maximize_score has the type its module says, for every valid         *)
(* context, and the levels of the plan tree are what the recursion in      *)
(* Level says. PlanSearchProofs rests on these.                            *)
(***************************************************************************)
EXTENDS Plans, FiniteSetTheorems, TLAPS

(* Every non-empty set of natural numbers has a least element.  The        *)
(* intervals 1 .. n of its elements are finite sets, and strict inclusion  *)
(* of finite sets is well-founded.                                         *)
LEMMA LeastNat ==
  ASSUME NEW T \in SUBSET Nat, T # {}
  PROVE  \E x \in T : \A y \in T : x <= y
<1>. DEFINE Intervals == {1 .. n : n \in T}
<1>1. Intervals # {} OBVIOUS
<1>2. \A n \in Nat : IsFiniteSet(1 .. n) BY FS_Interval
<1>3. Intervals \subseteq FiniteSubsetsOf(Nat) BY <1>2 DEF FiniteSubsetsOf
<1>4. PICK b \in Intervals :
        \A a \in Intervals : ~(<<a, b>> \in StrictSubsetOrdering(Nat))
  BY WFMin, FS_StrictSubsetOrderingWellFounded, <1>1, <1>3
<1>5. PICK x \in T : b = 1 .. x OBVIOUS
<1>6. ASSUME NEW y \in T PROVE x <= y
  <2>1. <<1 .. y, 1 .. x>> \notin StrictSubsetOrdering(Nat) BY <1>4, <1>5
  <2>2. SUFFICES ASSUME y < x PROVE FALSE OBVIOUS
  <2>3. (1 .. y) \subseteq (1 .. x) BY <2>2
  <2>4. x \in 1 .. x /\ x \notin 1 .. y BY <2>2
  <2>. QED BY <2>1, <2>3, <2>4 DEF StrictSubsetOrdering
<1>. QED BY <1>6

(* The continuations that name a trooper or a direction that exists.       *)
OptionsOf(c) ==
    { o \in Action :
        /\ o.act # "END_TURN"
        /\ o.act \in {"USE_MEDIKIT", "HEAL"} => o.n \in 0 .. Len(c.teammates)
        /\ o.act \in {"THROW_GRENADE", "SHOOT"} => o.n \in 1 .. Len(c.enemies)
        /\ o.act = "MOVE" => o.n \in 1 .. 4 }

(* ContextAssumption, of one object.                                       *)
ValidContext(c) ==
    /\ c.width \in Nat /\ c.height \in Nat
    /\ c \in Context(c.width, c.height)
    /\ \E i \in DOMAIN c.teammates : c.teammates[i] = c.self

(* Every object the search is started from is a valid context.             *)
LEMMA ContextsValid == ASSUME NEW k \in DOMAIN Contexts
                       PROVE ValidContext(Contexts[k])
BY ContextAssumption DEF ValidContext

(* The fields of a valid context, for the lemmas that read them.           *)
LEMMA ContextFields ==
  ASSUME NEW c, ValidContext(c)
  PROVE /\ c.cells \in [Cells(c) -> CellTypes]
        /\ c.dist \in [Cells(c) \X Cells(c) -> Int]
        /\ c.self \in Trooper(Cells(c))
        /\ c.teammates \in Seq(Trooper(Cells(c)))
        /\ c.enemies \in Seq(Trooper(Cells(c)))
        /\ c.bonuses \in Seq(Bonus(Cells(c)))
        /\ c.target \in Cells(c)
        /\ c.stances \in SUBSET Stances
        /\ Len(c.teammates) \in Nat \ {0}
        /\ Len(c.enemies) \in Nat
BY DEF ValidContext, Context, Cells

(* Options lists, in order, only continuations that name a trooper or a    *)
(* direction that exists.                                                  *)
LEMMA OptionsListed ==
  ASSUME NEW c, Len(c.teammates) \in Nat, Len(c.enemies) \in Nat
  PROVE  Options(c) \in Seq(OptionsOf(c))
<1>. DEFINE S == OptionsOf(c)
<1>1. Len(c.teammates) \in Nat /\ Len(c.enemies) \in Nat OBVIOUS
<1>2. Each("USE_MEDIKIT", Len(c.teammates)) \in Seq(S)
  BY <1>1 DEF Each, OptionsOf, Action, ActionTypes
<1>3. Once("USE_MEDIKIT") \in Seq(S)
  BY <1>1 DEF Once, OptionsOf, Action, ActionTypes
<1>4. Each("THROW_GRENADE", Len(c.enemies)) \in Seq(S)
  BY <1>1 DEF Each, OptionsOf, Action, ActionTypes
<1>5. Each("HEAL", Len(c.teammates)) \in Seq(S)
  BY <1>1 DEF Each, OptionsOf, Action, ActionTypes
<1>6. Once("HEAL") \in Seq(S)
  BY <1>1 DEF Once, OptionsOf, Action, ActionTypes
<1>7. Each("SHOOT", Len(c.enemies)) \in Seq(S)
  BY <1>1 DEF Each, OptionsOf, Action, ActionTypes
<1>8. Each("MOVE", Len(Directions)) \in Seq(S)
  BY <1>1 DEF Each, OptionsOf, Action, ActionTypes, Directions
<1>9. /\ Once("RAISE_STANCE") \in Seq(S)
      /\ Once("LOWER_STANCE") \in Seq(S)
      /\ Once("EAT_FIELD_RATION") \in Seq(S)
  BY <1>1 DEF Once, OptionsOf, Action, ActionTypes
<1>. HIDE DEF S
<1>10. Options(c) \in Seq(S)
  BY <1>2, <1>3, <1>4, <1>5, <1>6, <1>7, <1>8, <1>9 DEF Options
<1>. QED BY <1>10 DEF S

(* So it does for a valid context.                                         *)
LEMMA OptionsType ==
  ASSUME NEW c, ValidContext(c)
  PROVE  Options(c) \in Seq(OptionsOf(c))
BY ContextFields, OptionsListed

(* The troopers a guard or an effect counts are finitely many.             *)
LEMMA CountType ==
  ASSUME NEW n \in Nat, NEW T \in SUBSET (1 .. n)
  PROVE  Cardinality(T) \in Nat
<1>1. IsFiniteSet(1 .. n) BY FS_Interval
<1>2. IsFiniteSet(T) BY <1>1, FS_Subset
<1>. QED BY <1>2, FS_CardinalityType

(* The costs and amounts of model::Game are natural numbers.               *)
LEMMA GameType ==
  \A f \in GameParameters : Game[f] \in Nat
BY GameAssumption

(* Picking up bonuses keeps a State a State and stays on its cell.         *)
LEMMA PickUpType ==
  ASSUME NEW c, NEW P, NEW st \in State(P)
  PROVE  /\ PickUp(c, st) \in State(P)
         /\ PickUp(c, st).pos = st.pos
         /\ PickUp(c, st).used_grenade = st.used_grenade
         /\ PickUp(c, st).used_field_ration = st.used_field_ration
BY DEF PickUp, State, BonusAt

(* The fields of a trooper, for the lemmas that read them.                 *)
LEMMA TrooperFields ==
  ASSUME NEW P, NEW t \in Trooper(P)
  PROVE  /\ t.pos \in P /\ t.stance \in Stances
         /\ t.hitpoints \in Int /\ t.maximalHitpoints \in Int
         /\ t.actionPoints \in Nat /\ t.shootCost \in Nat
         /\ \A s \in Stances : t.damage[s] \in Int
BY DEF Trooper

(* Every continuation costs a natural number of action points.             *)
LEMMA CostType ==
  ASSUME NEW c, ValidContext(c), NEW P, NEW st \in State(P),
         NEW o \in OptionsOf(c)
  PROVE  Cost(c, st, o) \in Nat
<1>1. c.self.shootCost \in Nat BY ContextFields, TrooperFields
<1>2. st.stance \in Stances BY DEF State
<1>3. MoveCost(st.stance) \in Nat
  BY <1>2, GameAssumption DEF MoveCost, GameParameters, Stances, PRONE,
                              KNEELING, STANDING
<1>. QED BY <1>1, <1>3, GameAssumption
     DEF Cost, GameParameters, OptionsOf, Action, ActionTypes

(* A continuation that is possible leaves a natural number of points: the  *)
(* guards of the branches pay before they act, and a ration only adds.     *)
LEMMA PointsAfterType ==
  ASSUME NEW c, ValidContext(c), NEW P, NEW st \in State(P),
         NEW o \in OptionsOf(c), NEW points \in Nat,
         Possible(c, st, points, o)
  PROVE  PointsAfter(c, st, points, o) \in Nat
<1>1. Cost(c, st, o) \in Nat BY CostType
<1>2. Game.fieldRationBonusActionPoints \in Nat
  BY GameAssumption DEF GameParameters
<1>. QED BY <1>1, <1>2 DEF PointsAfter, Possible

(* The patient of a medikit or a medic is a trooper of the team.           *)
LEMMA PatientType ==
  ASSUME NEW c, ValidContext(c), NEW n \in 0 .. Len(c.teammates)
  PROVE  Patient(c, n) \in Trooper(Cells(c))
<1>. DEFINE T == Trooper(Cells(c))
<1>1. c.self \in T /\ c.teammates \in Seq(T) BY ContextFields
<1>. HIDE DEF T
<1>2. \A i \in 1 .. Len(c.teammates) : c.teammates[i] \in T BY <1>1
<1>3. Patient(c, n) \in T BY <1>1, <1>2 DEF Patient
<1>. QED BY <1>3 DEF T

(* Healing changes hit points by an integer.                               *)
LEMMA HealType ==
  ASSUME NEW c, ValidContext(c), NEW n \in 0 .. Len(c.teammates)
  PROVE  MedikitHeal(c, n) \in Int /\ MedicHeal(c, n) \in Int
<1>1. /\ Patient(c, n).hitpoints \in Int
      /\ Patient(c, n).maximalHitpoints \in Int
  BY PatientType, TrooperFields
<1>2. /\ Game.medikitBonusHitpoints \in Nat
      /\ Game.medikitHealSelfBonusHitpoints \in Nat
      /\ Game.fieldMedicHealBonusHitpoints \in Nat
      /\ Game.fieldMedicHealSelfBonusHitpoints \in Nat
  BY GameAssumption DEF GameParameters
<1>. QED BY <1>1, <1>2 DEF MedikitHeal, MedicHeal, Healed

(* A grenade hurts and kills a natural number of troopers.                 *)
LEMMA SplashType ==
  ASSUME NEW P, NEW team \in Seq(Trooper(P)), NEW e
  PROVE  /\ Cardinality(Splashed(team, e)) \in Nat
         /\ Cardinality(SplashKilled(team, e)) \in Nat
<1>1. Len(team) \in Nat /\ DOMAIN team = 1 .. Len(team) OBVIOUS
<1>2. /\ Splashed(team, e) \in SUBSET (1 .. Len(team))
      /\ SplashKilled(team, e) \in SUBSET (1 .. Len(team))
  BY <1>1 DEF Splashed, SplashKilled
<1>. QED BY <1>1, <1>2, CountType

(* A condition counted as 0 or 1 is an integer.                            *)
LEMMA AsIntType == \A b : AsInt(b) \in Int
BY DEF AsInt

(* The mean distance to the team is an integer: the team is not empty, the *)
(* moving trooper is in it.                                                *)
LEMMA QuotientType ==
  ASSUME NEW a \in Int, NEW b \in Nat \ {0}
  PROVE  a \div b \in Int
OBVIOUS

(* What each branch of maximize_score makes of a State is a State, and     *)
(* stands on a cell a plan can stand on.                                   *)
LEMMA NewStateType ==
  ASSUME NEW c, ValidContext(c), NEW st \in State(Standable(c)),
         NEW o \in OptionsOf(c), Allowed(c, st, o)
  PROVE  NewState(c, st, o) \in State(Standable(c))
<1>1. CASE o.act = "USE_MEDIKIT"
  <2>1. NewState(c, st, o) = AfterMedikit(c, st, o.n) BY <1>1 DEF NewState
  <2>2. MedikitHeal(c, o.n) \in Int BY <1>1, HealType DEF OptionsOf
  <2>. DEFINE mate_damage == st.mate_damage - MedikitHeal(c, o.n)
  <2>3. mate_damage \in Int BY <2>2 DEF State
  <2>4. NewState(c, st, o) =
          [st EXCEPT !.mate_damage = mate_damage, !.has_medkit = FALSE]
    BY <2>1 DEF AfterMedikit
  <2>. HIDE DEF mate_damage
  <2>. QED BY <2>3, <2>4 DEF State
<1>2. CASE o.act = "THROW_GRENADE"
  <2>1. NewState(c, st, o) = AfterGrenade(c, st, o.n) BY <1>2 DEF NewState
  <2>. DEFINE e == c.enemies[o.n].pos
  <2>2. /\ Cardinality(Splashed(c.enemies, e)) \in Nat
        /\ Cardinality(SplashKilled(c.enemies, e)) \in Nat
        /\ Cardinality(Splashed(c.teammates, e)) \in Nat
        /\ Cardinality(SplashKilled(c.teammates, e)) \in Nat
    BY ContextFields, SplashType
  <2>3. /\ Game.grenadeDirectDamage \in Nat
        /\ Game.grenadeCollateralDamage \in Nat
    BY GameAssumption DEF GameParameters
  <2>. HIDE DEF e
  <2>4. /\ Game.grenadeCollateralDamage * Cardinality(Splashed(c.enemies, e)) \in Nat
        /\ Game.grenadeCollateralDamage * Cardinality(Splashed(c.teammates, e)) \in Nat
    BY <2>2, <2>3
  <2>5. st.damage \in Int /\ st.kills \in Int /\ st.mate_damage \in Int
    BY DEF State
  <2>. DEFINE direct == AsInt(Game.grenadeDirectDamage >= c.enemies[o.n].hitpoints)
              damage == st.damage + Game.grenadeDirectDamage
                          + Game.grenadeCollateralDamage
                              * Cardinality(Splashed(c.enemies, e))
              kills  == st.kills + direct
                          + Cardinality(SplashKilled(c.enemies, e))
                          - 2 * Cardinality(SplashKilled(c.teammates, e))
              mate_damage == st.mate_damage + Game.grenadeCollateralDamage
                              * Cardinality(Splashed(c.teammates, e))
  <2>6. direct \in Int BY AsIntType
  <2>. HIDE DEF direct
  <2>7. damage \in Int /\ kills \in Int /\ mate_damage \in Int
    BY <2>2, <2>3, <2>4, <2>5, <2>6
  <2>8. NewState(c, st, o) =
          [ st EXCEPT !.damage = damage, !.kills = kills,
                      !.mate_damage = mate_damage,
                      !.has_grenade = FALSE, !.used_grenade = TRUE ]
    BY <2>1 DEF AfterGrenade, e, direct
  <2>. HIDE DEF damage, kills, mate_damage
  <2>. QED BY <2>7, <2>8 DEF State
<1>3. CASE o.act = "HEAL"
  <2>1. NewState(c, st, o) = AfterHeal(c, st, o.n) BY <1>3 DEF NewState
  <2>2. MedicHeal(c, o.n) \in Int BY <1>3, HealType DEF OptionsOf
  <2>. DEFINE mate_damage == st.mate_damage - MedicHeal(c, o.n)
  <2>3. mate_damage \in Int BY <2>2 DEF State
  <2>4. NewState(c, st, o) = [st EXCEPT !.mate_damage = mate_damage]
    BY <2>1 DEF AfterHeal
  <2>. HIDE DEF mate_damage
  <2>. QED BY <2>3, <2>4 DEF State
<1>4. CASE o.act = "SHOOT"
  <2>1. NewState(c, st, o) = AfterShot(c, st, o.n) BY <1>4 DEF NewState
  <2>2. c.self.damage[st.stance] \in Int
    BY ContextFields, TrooperFields DEF State
  <2>. DEFINE killed == AsInt(c.self.damage[st.stance]
                                >= c.enemies[o.n].hitpoints)
  <2>. DEFINE damage == st.damage + c.self.damage[st.stance]
              kills  == st.kills + killed
  <2>3. killed \in Int BY AsIntType
  <2>. HIDE DEF killed
  <2>4. damage \in Int /\ kills \in Int BY <2>2, <2>3 DEF State
  <2>5. NewState(c, st, o) = [st EXCEPT !.damage = damage, !.kills = kills]
    BY <2>1 DEF AfterShot, killed
  <2>. HIDE DEF damage, kills
  <2>. QED BY <2>4, <2>5 DEF State
<1>5. CASE o.act = "MOVE"
  <2>1. NewState(c, st, o) = AfterMove(st, o.n) BY <1>5 DEF NewState
  <2>2. Neigh(st.pos, o.n) \in Standable(c)
    BY <1>5 DEF Allowed, Standable
  <2>. QED BY <2>1, <2>2 DEF AfterMove, State
<1>6. CASE o.act = "RAISE_STANCE"
  BY <1>6 DEF NewState, State, Raised, Stances, PRONE, KNEELING, STANDING
<1>7. CASE o.act = "LOWER_STANCE"
  BY <1>7 DEF NewState, State, Lowered, Stances, PRONE, KNEELING, STANDING
<1>8. CASE o.act = "EAT_FIELD_RATION"
  BY <1>8 DEF NewState, State, AfterRation
<1>. QED
  BY <1>1, <1>2, <1>3, <1>4, <1>5, <1>6, <1>7, <1>8
     DEF OptionsOf, Action, ActionTypes

(* run() starts from a State on the trooper's own cell.                    *)
LEMMA InitialStateType ==
  ASSUME NEW k, ValidContext(k)
  PROVE  /\ InitialState(k) \in State(Standable(k))
         /\ k.self.actionPoints \in Nat
<1>1. k.self \in Trooper(Cells(k)) BY ContextFields
<1>. QED BY <1>1 DEF InitialState, State, Standable, Trooper

(* Only a move changes the cell.                                           *)
LEMMA NewStatePos ==
  ASSUME NEW c, NEW P, NEW st \in State(P), NEW o \in OptionsOf(c)
  PROVE  NewState(c, st, o).pos = IF o.act = "MOVE" THEN Neigh(st.pos, o.n)
                                  ELSE st.pos
<1>1. CASE o.act = "USE_MEDIKIT" BY <1>1 DEF NewState, AfterMedikit, State
<1>2. CASE o.act = "THROW_GRENADE" BY <1>2 DEF NewState, AfterGrenade, State
<1>3. CASE o.act = "HEAL" BY <1>3 DEF NewState, AfterHeal, State
<1>4. CASE o.act = "SHOOT" BY <1>4 DEF NewState, AfterShot, State
<1>5. CASE o.act = "MOVE" BY <1>5 DEF NewState, AfterMove, State
<1>6. CASE o.act \in {"RAISE_STANCE", "LOWER_STANCE", "EAT_FIELD_RATION"}
  BY <1>6 DEF NewState, AfterRation, State
<1>. QED
  BY <1>1, <1>2, <1>3, <1>4, <1>5, <1>6 DEF OptionsOf, Action, ActionTypes

(* What MatesDist's fold computes on a set of teammates.                   *)
SumOver(c, p, g, T) ==
    IF T = {} THEN 0
    ELSE LET i == CHOOSE i \in T : TRUE
         IN  MinDistance(c, p, c.teammates[i].pos) + g[T \ {i}]

(* g has those sums, that of all the teammates among them.                 *)
SumsBy(c, p, g) ==
    /\ \A T \in SUBSET (DOMAIN c.teammates) : g[T] = SumOver(c, p, g, T)
    /\ MatesDist(c, p) = g[DOMAIN c.teammates]

(* The fold is defined on every set of them, from the smaller sets up.     *)
LEMMA MatesDistDef ==
  ASSUME NEW c, NEW p, IsFiniteSet(DOMAIN c.teammates)
  PROVE  \E g : SumsBy(c, p, g)
<1>. DEFINE S == DOMAIN c.teammates
            Body(g, T) == SumOver(c, p, g, T)
            Upto(n) == \E g : \A T \in SUBSET S :
                          Cardinality(T) <= n => g[T] = Body(g, T)
            Bad == {n \in Nat : ~Upto(n)}
<1>1. \A T \in SUBSET S : IsFiniteSet(T) /\ Cardinality(T) \in Nat
  BY FS_Subset, FS_CardinalityType
<1>2. ASSUME NEW T \in SUBSET S, T # {}
      PROVE  LET i == CHOOSE i \in T : TRUE
             IN  /\ i \in T /\ T \ {i} \in SUBSET S
                 /\ Cardinality(T \ {i}) = Cardinality(T) - 1
  <2>. DEFINE i == CHOOSE i \in T : TRUE
  <2>1. i \in T BY <1>2
  <2>. HIDE DEF i
  <2>2. Cardinality(T \ {i}) = Cardinality(T) - 1
    BY <1>1, <2>1, FS_RemoveElement
  <2>. QED BY <2>1, <2>2 DEF i
<1>3. \A n \in Nat : Upto(n)
  <2>1. SUFFICES ASSUME Bad # {} PROVE FALSE OBVIOUS
  <2>2. PICK n \in Bad : \A m \in Bad : n <= m
    <3>1. Bad \in SUBSET Nat OBVIOUS
    <3>. HIDE DEF Bad
    <3>. QED BY <2>1, <3>1, LeastNat
  <2>3. n \in Nat OBVIOUS
  <2>4. PICK f : n # 0 => \A T \in SUBSET S :
                   Cardinality(T) <= n - 1 => f[T] = Body(f, T)
    <3>1. n # 0 => n - 1 \in Nat /\ ~(n <= n - 1) BY <2>3
    <3>2. n # 0 => n - 1 \notin Bad
      <4>. HIDE DEF Bad
      <4>. QED BY <2>2, <3>1
    <3>. HIDE DEF Body
    <3>. QED BY <3>1, <3>2
  <2>. DEFINE h == [T \in SUBSET S |-> Body(f, T)]
  <2>5. ASSUME NEW T \in SUBSET S, Cardinality(T) <= n
        PROVE  Body(f, T) = Body(h, T)
    <3>1. CASE T = {} BY <3>1 DEF SumOver
    <3>2. CASE T # {}
      <4>. DEFINE i == CHOOSE i \in T : TRUE
                  U == T \ {i}
      <4>1. U \in SUBSET S /\ Cardinality(U) = Cardinality(T) - 1
            /\ Cardinality(U) \in Nat
        BY <1>1, <1>2, <3>2
      <4>2. n # 0 /\ Cardinality(U) <= n - 1 BY <1>1, <2>3, <2>5, <4>1
      <4>3. h[U] = f[U]
        <5>1. h[U] = Body(f, U) BY <4>1
        <5>2. f[U] = Body(f, U) BY <2>4, <4>1, <4>2
        <5>. QED BY <5>1, <5>2
      <4>. HIDE DEF h, U
      <4>. QED BY <4>3, <3>2 DEF SumOver, U
    <3>. QED BY <3>1, <3>2
  <2>6. \A T \in SUBSET S : Cardinality(T) <= n => h[T] = Body(h, T)
    <3>1. \A T \in SUBSET S : h[T] = Body(f, T) OBVIOUS
    <3>. HIDE DEF h, Body
    <3>. QED BY <2>5, <3>1
  <2>. HIDE DEF h, Body
  <2>7. Upto(n) BY <2>6
  <2>. QED BY <2>2, <2>7
<1>4. PICK f : \A T \in SUBSET S :
                 Cardinality(T) <= Cardinality(S) => f[T] = Body(f, T)
  <2>1. Cardinality(S) \in Nat BY <1>1
  <2>. HIDE DEF Body
  <2>. QED BY <1>3, <2>1
<1>. DEFINE g == [T \in SUBSET S |-> f[T]]
<1>5. \A T \in SUBSET S : g[T] = Body(g, T)
  <2>1. ASSUME NEW T \in SUBSET S PROVE Body(f, T) = Body(g, T)
    <3>1. CASE T = {} BY <3>1 DEF SumOver
    <3>2. CASE T # {}
      <4>1. T \ {CHOOSE i \in T : TRUE} \in SUBSET S OBVIOUS
      <4>. QED BY <3>2, <4>1 DEF SumOver
    <3>. QED BY <3>1, <3>2
  <2>2. \A T \in SUBSET S : Cardinality(T) <= Cardinality(S)
    BY FS_Subset
  <2>3. \A T \in SUBSET S : g[T] = f[T] OBVIOUS
  <2>. HIDE DEF g, Body
  <2>. QED BY <1>4, <2>1, <2>2, <2>3
<1>6. g = [T \in SUBSET S |-> Body(g, T)]
  <2>1. g = [T \in SUBSET S |-> g[T]] OBVIOUS
  <2>. HIDE DEF g, Body
  <2>. QED BY <1>5, <2>1
<1>. HIDE DEF g
<1>. DEFINE w == CHOOSE z : z = [T \in SUBSET S |-> SumOver(c, p, z, T)]
<1>7. w = [T \in SUBSET S |-> SumOver(c, p, w, T)] BY <1>6
<1>8. MatesDist(c, p) = w[S]
  <2>1. MatesDist(c, p) =
          (CHOOSE z : z = [T \in SUBSET S |->
             IF T = {} THEN 0
             ELSE MinDistance(c, p, c.teammates[CHOOSE i \in T : TRUE].pos)
                    + z[T \ {CHOOSE i \in T : TRUE}]])[S]
    BY Zenon DEF MatesDist, MapThenFoldSet
  <2>. QED BY <2>1 DEF SumOver
<1>9. \A T \in SUBSET S : w[T] = SumOver(c, p, w, T)
  <2>. HIDE DEF w
  <2>. QED BY <1>7
<1>. HIDE DEF w
<1>. QED BY <1>8, <1>9 DEF SumsBy

(* The sum of n distances is among the numbers V[n] if the sum of none is  *)
(* and one more distance leads from V[m] to V[m + 1].                      *)
LEMMA MatesDistAmong ==
  ASSUME NEW c, NEW p, NEW n \in Nat, DOMAIN c.teammates = 1 .. n,
         NEW V, 0 \in V[0],
         \A m \in Nat : \A i \in 1 .. n : \A s \in V[m] :
            MinDistance(c, p, c.teammates[i].pos) + s \in V[m + 1]
  PROVE  MatesDist(c, p) \in V[n]
<1>. DEFINE S == 1 .. n
<1>1. IsFiniteSet(S) /\ Cardinality(S) = n BY FS_Interval
<1>2. PICK g : /\ \A T \in SUBSET S : g[T] = SumOver(c, p, g, T)
               /\ MatesDist(c, p) = g[S]
  <2>1. PICK g : SumsBy(c, p, g) BY <1>1, MatesDistDef
  <2>. QED BY <2>1 DEF SumsBy
<1>. DEFINE Bad == {m \in Nat : \E T \in SUBSET S :
                      Cardinality(T) = m /\ g[T] \notin V[m]}
<1>3. SUFFICES ASSUME Bad # {} PROVE FALSE BY <1>1, <1>2
<1>4. PICK m \in Bad : \A k \in Bad : m <= k
  <2>1. Bad \in SUBSET Nat OBVIOUS
  <2>. HIDE DEF Bad
  <2>. QED BY <1>3, <2>1, LeastNat
<1>5. PICK T \in SUBSET S : Cardinality(T) = m /\ g[T] \notin V[m] OBVIOUS
<1>6. g[T] = SumOver(c, p, g, T) BY <1>2
<1>7. IsFiniteSet(T) BY <1>1, FS_Subset
<1>8. T # {}
  <2>1. SUFFICES ASSUME T = {} PROVE FALSE OBVIOUS
  <2>2. m = 0 BY <1>5, <2>1, FS_EmptySet
  <2>3. g[T] = 0 BY <1>6, <2>1 DEF SumOver
  <2>. QED BY <1>5, <2>2, <2>3
<1>. DEFINE i == CHOOSE i \in T : TRUE
            U == T \ {i}
<1>9. i \in T /\ i \in 1 .. n BY <1>8
<1>10. g[T] = MinDistance(c, p, c.teammates[i].pos) + g[U]
  BY <1>6, <1>8 DEF SumOver
<1>. HIDE DEF i
<1>11. U \in SUBSET S /\ Cardinality(U) = m - 1 /\ Cardinality(U) \in Nat
  <2>1. Cardinality(U) = Cardinality(T) - 1 BY <1>7, <1>9, FS_RemoveElement
  <2>2. IsFiniteSet(U) BY <1>1, FS_Subset
  <2>. QED BY <1>5, <2>1, <2>2, FS_CardinalityType
<1>12. m \in Nat /\ m - 1 \in Nat /\ ~(m <= m - 1) /\ (m - 1) + 1 = m
  BY <1>11
<1>13. g[U] \in V[m - 1]
  <2>1. m - 1 \notin Bad
    <3>. HIDE DEF Bad
    <3>. QED BY <1>4, <1>12
  <2>. QED BY <1>11, <1>12, <2>1
<1>. HIDE DEF U
<1>. QED BY <1>5, <1>9, <1>10, <1>12, <1>13

(* The distances to the team add up to an integer.                         *)
LEMMA MatesDistType ==
  ASSUME NEW c, ValidContext(c), NEW p \in Cells(c)
  PROVE  MatesDist(c, p) \in Int
<1>. DEFINE n == Len(c.teammates)
            T == Trooper(Cells(c))
            V == [m \in Nat |-> Int]
<1>1. c.teammates \in Seq(T) /\ c.dist \in [Cells(c) \X Cells(c) -> Int]
  BY ContextFields
<1>2. \A t \in T : t.pos \in Cells(c) BY TrooperFields
<1>. HIDE DEF T
<1>3. n \in Nat /\ DOMAIN c.teammates = 1 .. n BY <1>1
<1>4. \A i \in 1 .. n : MinDistance(c, p, c.teammates[i].pos) \in Int
  BY <1>1, <1>2 DEF MinDistance
<1>5. /\ 0 \in V[0] /\ V[n] = Int
      /\ \A m \in Nat : \A i \in 1 .. n : \A s \in V[m] :
            MinDistance(c, p, c.teammates[i].pos) + s \in V[m + 1]
  BY <1>3, <1>4
<1>. HIDE DEF V, n
<1>. QED BY <1>3, <1>5, MatesDistAmong

(* Distances of at most b add up to at most b for each of the team.        *)
LEMMA MatesDistBound ==
  ASSUME NEW c, NEW p, NEW n \in Nat, DOMAIN c.teammates = 1 .. n,
         NEW b \in Nat,
         \A i \in 1 .. n : MinDistance(c, p, c.teammates[i].pos) \in 0 .. b
  PROVE  MatesDist(c, p) \in 0 .. n * b
<1>. DEFINE V == [m \in Nat |-> 0 .. m * b]
<1>1. ASSUME NEW m \in Nat, NEW x \in 0 .. b, NEW s \in 0 .. m * b
      PROVE  x + s \in 0 .. (m + 1) * b
  <2>. DEFINE k == m * b
  <2>1. k \in Nat /\ (m + 1) * b = k + b OBVIOUS
  <2>2. s \in 0 .. k OBVIOUS
  <2>. HIDE DEF k
  <2>. QED BY <2>1, <2>2
<1>2. /\ 0 \in V[0] /\ V[n] = 0 .. n * b
      /\ \A m \in Nat : V[m] = 0 .. m * b /\ V[m + 1] = 0 .. (m + 1) * b
  OBVIOUS
<1>. HIDE DEF V
<1>3. \A m \in Nat : \A i \in 1 .. n : \A s \in V[m] :
         MinDistance(c, p, c.teammates[i].pos) + s \in V[m + 1]
  BY <1>1, <1>2
<1>4. MatesDist(c, p) \in V[n] BY <1>2, <1>3, MatesDistAmong
<1>. QED BY <1>2, <1>4

(* The score of a State is an integer.                                     *)
LEMMA ScoreType ==
  ASSUME NEW c, ValidContext(c), NEW st \in State(Standable(c))
  PROVE  Score(c, st) \in Int
<1>1. st.mate_damage \in Int /\ st.damage \in Int /\ st.kills \in Int
  BY DEF State
<1>2. ShootingEnemies(c, st.pos, st.stance, Game.grenadeThrowRange2) \in Nat
  <2>1. Len(c.enemies) \in Nat /\ DOMAIN c.enemies = 1 .. Len(c.enemies)
    BY ContextFields
  <2>. QED BY <2>1, CountType DEF ShootingEnemies
<1>3. st.pos \in Cells(c)
  <2>1. c.self.pos \in Cells(c) BY ContextFields, TrooperFields
  <2>. QED BY <2>1 DEF State, Standable
<1>4. MatesDist(c, st.pos) \in Int BY <1>3, MatesDistType
<1>5. MinDistance(c, st.pos, c.target) \in Int
  BY <1>3, ContextFields DEF MinDistance
<1>. DEFINE danger   == ShootingEnemies(c, st.pos, st.stance,
                                        Game.grenadeThrowRange2)
            mates    == (60 * MatesDist(c, st.pos)) \div Len(c.teammates)
            medkit   == AsInt(st.has_medkit)
            ration   == AsInt(st.has_field_ration)
            grenade  == AsInt(st.has_grenade)
            goal     == IF st.mate_damage >= 0 /\ st.damage = 0
                        THEN 55 * MinDistance(c, st.pos, c.target) ELSE 0
            command  == AsInt(CloseToCommander(c, st.pos,
                                               Game.commanderAuraRange2))
            aura     == IF c.self.type # "SCOUT" THEN 500 * command ELSE 0
<1>6. mates \in Int
  <2>1. 60 * MatesDist(c, st.pos) \in Int BY <1>4
  <2>2. Len(c.teammates) \in Nat \ {0} BY ContextFields
  <2>. QED BY <2>1, <2>2, QuotientType
<1>7. /\ medkit \in Int /\ ration \in Int
      /\ grenade \in Int /\ command \in Int
  BY AsIntType
<1>8. goal \in Int BY <1>1, <1>5
<1>. HIDE DEF command
<1>9. aura \in Int BY <1>7
<1>10. Score(c, st) =
         - 2000 * st.mate_damage + 300 * st.damage + 20000 * st.kills
         - 10000 * danger + 400 * medkit + 400 * ration + 400 * grenade
         - mates - goal + aura
  BY DEF Score, command
<1>. HIDE DEF danger, mates, medkit, ration, grenade, goal, aura
<1>. QED BY <1>1, <1>2, <1>6, <1>7, <1>8, <1>9, <1>10 DEF danger

----------------------------------------------------------------------------
(* The levels of the plan tree *)

(* What the recursion in Level(c) computes: there is a function that       *)
(* satisfies its equation on every initial segment of the levels.          *)
LEMMA LevelDef ==
  ASSUME NEW c
  PROVE  Level(c) = [ d \in 1 .. MaxActionNumber |->
                        IF d = 1 THEN {Root(c)}
                        ELSE UNION {Successors(c, r) : r \in Level(c)[d - 1]} ]
<1>. DEFINE Body(g, d) == IF d = 1 THEN {Root(c)}
                          ELSE UNION {Successors(c, r) : r \in g[d - 1]}
            Upto(n) == \E g : g = [d \in 1 .. n |-> Body(g, d)]
            Bad == {n \in Nat : ~Upto(n)}
<1>1. Upto(MaxActionNumber)
  <2>1. SUFFICES ASSUME Bad # {} PROVE FALSE
    BY CutoffAssumption
  <2>2. PICK n \in Bad : \A m \in Bad : n <= m
    <3>. HIDE DEF Bad
    <3>1. Bad \in SUBSET Nat BY DEF Bad
    <3>. QED BY <2>1, <3>1, LeastNat
  <2>3. CASE n = 0
    <3>. DEFINE g == [d \in 1 .. 0 |-> {}]
    <3>1. g = [d \in 1 .. 0 |-> Body(g, d)] OBVIOUS
    <3>. QED BY <2>2, <2>3, <3>1
  <2>4. CASE n # 0
    <3>1. n - 1 \in Nat /\ n - 1 \notin Bad
      <4>1. n \in Nat BY DEF Bad
      <4>2. n - 1 \in Nat /\ ~(n <= n - 1) BY <2>4, <4>1
      <4>. HIDE DEF Bad
      <4>. QED BY <2>2, <4>2
    <3>2. PICK g : g = [d \in 1 .. n - 1 |-> Body(g, d)] BY <3>1
    <3>. DEFINE h == [d \in 1 .. n |-> Body(g, d)]
    <3>3. ASSUME NEW d \in 1 .. n, d # 1 PROVE h[d - 1] = g[d - 1]
      <4>1. d - 1 \in 1 .. n - 1 /\ d - 1 \in 1 .. n BY <2>2, <3>3
      <4>. QED BY <3>2, <4>1
    <3>4. ASSUME NEW d \in 1 .. n PROVE Body(g, d) = Body(h, d)
      BY <3>3, <3>4
    <3>. HIDE DEF Body
    <3>5. h = [d \in 1 .. n |-> Body(h, d)] BY <3>4
    <3>. QED BY <2>2, <3>5
  <2>. QED BY <2>3, <2>4
<1>2. PICK g : g = [d \in 1 .. MaxActionNumber |-> Body(g, d)] BY <1>1
<1>. QED BY <1>2 DEF Level

(* Each level holds the successors of the nodes of the one before.         *)
LEMMA LevelNext ==
  ASSUME NEW c, NEW d \in 1 .. MaxActionNumber, d # 1
  PROVE  Level(c)[d] = UNION {Successors(c, r) : r \in Level(c)[d - 1]}
<1>. DEFINE Body(e) == IF e = 1 THEN {Root(c)}
                       ELSE UNION {Successors(c, r) : r \in Level(c)[e - 1]}
<1>1. Level(c) = [e \in 1 .. MaxActionNumber |-> Body(e)] BY LevelDef
<1>. HIDE DEF Body
<1>2. Level(c)[d] = Body(d) BY <1>1
<1>. QED BY <1>2 DEF Body

(* The first level holds the empty plan alone.                             *)
LEMMA LevelOne == ASSUME NEW c PROVE Level(c)[1] = {Root(c)}
BY LevelDef, CutoffAssumption

(* A successor of a node is one level deeper. *)
LEMMA LevelStep ==
  ASSUME NEW c, NEW d \in Nat \ {0}, d < MaxActionNumber,
         NEW r \in Level(c)[d], NEW j \in Candidates(c, r)
  PROVE  Successor(c, r, Options(c)[j]) \in Level(c)[d + 1]
<1>1. d + 1 \in 1 .. MaxActionNumber /\ d + 1 # 1 /\ (d + 1) - 1 = d
  BY CutoffAssumption
<1>2. Level(c)[d + 1] = UNION {Successors(c, q) : q \in Level(c)[(d + 1) - 1]}
  BY <1>1, LevelNext
<1>3. Successor(c, r, Options(c)[j]) \in Successors(c, r) BY DEF Successors
<1>. QED BY <1>1, <1>2, <1>3

(* A set of nodes, each with its level, that holds the root and with every *)
(* node its successors holds the whole plan tree.                          *)
LEMMA ClosedCoversLevels ==
  ASSUME NEW c, NEW S, <<Root(c), 1>> \in S,
         \A d \in 1 .. MaxActionNumber : \A r :
            <<r, d>> \in S /\ d < MaxActionNumber =>
              \A j \in Candidates(c, r) :
                <<Successor(c, r, Options(c)[j]), d + 1>> \in S
  PROVE  \A d \in 1 .. MaxActionNumber : \A r \in Level(c)[d] : <<r, d>> \in S
<1>. DEFINE Bad == {d \in 1 .. MaxActionNumber :
                      \E r \in Level(c)[d] : <<r, d>> \notin S}
<1>1. SUFFICES ASSUME Bad # {} PROVE FALSE OBVIOUS
<1>2. PICK n \in Bad : \A m \in Bad : n <= m
  <2>1. Bad \in SUBSET Nat OBVIOUS
  <2>. HIDE DEF Bad
  <2>. QED BY <1>1, <2>1, LeastNat
<1>3. PICK q \in Level(c)[n] : <<q, n>> \notin S OBVIOUS
<1>4. n # 1 BY <1>3, LevelOne
<1>5. n - 1 \in 1 .. MaxActionNumber /\ n - 1 < MaxActionNumber
      /\ n - 1 \notin Bad /\ (n - 1) + 1 = n
  <2>1. n \in 1 .. MaxActionNumber OBVIOUS
  <2>2. n - 1 \in 1 .. MaxActionNumber /\ ~(n <= n - 1)
        /\ n - 1 < MaxActionNumber /\ (n - 1) + 1 = n
    BY <1>4, <2>1, CutoffAssumption
  <2>. HIDE DEF Bad
  <2>. QED BY <1>2, <2>2
<1>6. Level(c)[n] = UNION {Successors(c, r) : r \in Level(c)[n - 1]}
  BY <1>4, LevelNext
<1>7. PICK r \in Level(c)[n - 1] : q \in Successors(c, r) BY <1>3, <1>6
<1>8. PICK j \in Candidates(c, r) : q = Successor(c, r, Options(c)[j])
  BY <1>7 DEF Successors
<1>9. <<r, n - 1>> \in S BY <1>5, <1>7
<1>. QED BY <1>3, <1>5, <1>8, <1>9

(* The plans of every level but the first begin with a continuation of the *)
(* empty plan.                                                             *)
LEMMA FirstListed ==
  ASSUME NEW c, Len(c.teammates) \in Nat, Len(c.enemies) \in Nat,
         NEW d \in 1 .. MaxActionNumber, NEW r \in Level(c)[d]
  PROVE  \/ d = 1 /\ r = Root(c)
         \/ d # 1 /\ \E j \in Candidates(c, Root(c)) : r.first = Options(c)[j]
<1>. DEFINE Begun(q) ==
              \E j \in Candidates(c, Root(c)) : q.first = Options(c)[j]
            Nodes == Outcomes(c) \X (1 .. MaxActionNumber)
            S == { n \in Nodes : n[1] \in Level(c)[n[2]] /\
                     IF n[2] = 1 THEN n[1] = Root(c) ELSE Begun(n[1]) }
<1>1. <<Root(c), 1>> \in S
  BY LevelOne, CutoffAssumption DEF Outcomes
<1>2. ASSUME NEW e \in 1 .. MaxActionNumber, NEW q, <<q, e>> \in S,
             e < MaxActionNumber, NEW j \in Candidates(c, q)
      PROVE  <<Successor(c, q, Options(c)[j]), e + 1>> \in S
  <2>. DEFINE o == Options(c)[j]
              n == Successor(c, q, o)
  <2>1. n \in Level(c)[e + 1] /\ e + 1 \in 1 .. MaxActionNumber /\ e + 1 # 1
    BY <1>2, LevelStep, CutoffAssumption
  <2>2. n \in Outcomes(c) BY <2>1 DEF Outcomes
  <2>3. n.first = IF q.first = EndTurn THEN o ELSE q.first
    BY DEF Successor
  <2>4. \A k \in DOMAIN Options(c) : Options(c)[k] # EndTurn
    <3>1. Options(c) \in Seq(OptionsOf(c)) BY OptionsListed
    <3>2. \A a \in OptionsOf(c) : a # EndTurn BY DEF OptionsOf, EndTurn
    <3>. QED BY <3>1, <3>2
  <2>5. CASE e = 1
    <3>1. q = Root(c) /\ q.first = EndTurn BY <1>2, <2>5 DEF Root
    <3>2. j \in Candidates(c, Root(c)) /\ n.first = o BY <2>3, <3>1
    <3>. QED BY <2>1, <2>2, <3>2
  <2>6. CASE e # 1
    <3>1. PICK k \in Candidates(c, Root(c)) : q.first = Options(c)[k]
      BY <1>2, <2>6
    <3>2. n.first = Options(c)[k] BY <2>3, <2>4, <3>1 DEF Candidates
    <3>. QED BY <2>1, <2>2, <3>2
  <2>. QED BY <2>5, <2>6
<1>. HIDE DEF S
<1>3. <<r, d>> \in S BY <1>1, <1>2, ClosedCoversLevels
<1>. QED BY <1>3 DEF S

(* What run() may return: the end of the turn, or a first action that is   *)
(* possible where the trooper is.                                          *)
LEMMA FirstActions ==
  ASSUME NEW c, Len(c.teammates) \in Nat, Len(c.enemies) \in Nat,
         NEW a \in BestFirstActions(c)
  PROVE  \/ a = EndTurn
         \/ \E j \in Candidates(c, Root(c)) : a = Options(c)[j]
<1>1. PICK q \in Outcomes(c) : a = q.first BY DEF BestFirstActions
<1>2. PICK d \in 1 .. MaxActionNumber : q \in Level(c)[d]
  BY <1>1 DEF Outcomes
<1>3. Root(c).first = EndTurn BY DEF Root
<1>. QED BY <1>1, <1>2, <1>3, FirstListed
==============================================================================
