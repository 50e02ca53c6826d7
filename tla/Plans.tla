--------------------------------- MODULE Plans ---------------------------------
(***************************************************************************)
(* The plans SlavaStrategy::maximize_score searches: sequences of actions  *)
(* one trooper can make in one turn, the state each of them leads to and   *)
(* the score of ending the turn there.  This module holds the data of the  *)
(* search (struct State, the guards and the effects of every branch); the  *)
(* search itself is PlanSearch, what it promises is BestPlan.              *)
(***************************************************************************)
EXTENDS Battlefield

CONSTANTS
    Contexts,         \* the constructed strategy objects to search from
    Game,             \* the costs and amounts of model::Game
    MaxActionNumber   \* the recursion cutoff: 11 in the code

GameParameters ==
    { "medikitUseCost", "medikitBonusHitpoints",
      "medikitHealSelfBonusHitpoints", "grenadeThrowCost",
      "grenadeThrowRange2", "grenadeDirectDamage",
      "grenadeCollateralDamage", "fieldMedicHealCost",
      "fieldMedicHealBonusHitpoints", "fieldMedicHealSelfBonusHitpoints",
      "standingMoveCost", "kneelingMoveCost", "proneMoveCost",
      "stanceChangeCost", "fieldRationEatCost",
      "fieldRationBonusActionPoints", "commanderAuraRange2" }

ASSUME CutoffAssumption == MaxActionNumber \in Nat \ {0}

ASSUME GameAssumption == Game \in [GameParameters -> Nat]

(* The cells a plan can stand on: its own and those FREE in the private    *)
(* copy of the cells.                                                      *)
Standable(c) == {p \in Cells(c) : c.cells[p] = "FREE"} \union {c.self.pos}

(* What the server guarantees of a world and the constructor of the object *)
(* built on it: the values are of their types and the trooper that moves   *)
(* is a member of its own team.                                            *)
ASSUME ContextAssumption ==
    \A k \in DOMAIN Contexts :
        /\ Contexts[k].width \in Nat /\ Contexts[k].height \in Nat
        /\ Contexts[k] \in Context(Contexts[k].width, Contexts[k].height)
        /\ \E i \in DOMAIN Contexts[k].teammates :
              Contexts[k].teammates[i] = Contexts[k].self

----------------------------------------------------------------------------
(* struct State *)

State(P) ==
    [ mate_damage: Int, damage: Int, kills: Int, pos: P, stance: Stances,
      has_medkit: BOOLEAN, has_field_ration: BOOLEAN,
      used_field_ration: BOOLEAN, has_grenade: BOOLEAN,
      used_grenade: BOOLEAN ]

(* The State run() passes to the outermost activation.                     *)
InitialState(c) ==
    [ mate_damage |-> 0, damage |-> 0, kills |-> 0,
      pos |-> c.self.pos, stance |-> c.self.stance,
      has_medkit |-> c.self.holdingMedikit,
      has_field_ration |-> c.self.holdingFieldRation,
      used_field_ration |-> FALSE,
      has_grenade |-> c.self.holdingGrenade, used_grenade |-> FALSE ]

BonusAt(c, p, type) ==
    \E i \in DOMAIN c.bonuses :
        c.bonuses[i].pos = p /\ c.bonuses[i].type = type

(* The loop at the head of maximize_score: the bonuses of the cell the     *)
(* plan has reached are taken to be picked up.                             *)
PickUp(c, st) ==
    [ st EXCEPT
        !.has_medkit = @ \/ BonusAt(c, st.pos, "MEDIKIT"),
        !.has_field_ration =
            @ \/ (BonusAt(c, st.pos, "FIELD_RATION") /\ ~st.used_field_ration),
        !.has_grenade =
            @ \/ (BonusAt(c, st.pos, "GRENADE") /\ ~st.used_grenade) ]

AsInt(b) == IF b THEN 1 ELSE 0

(* The score of ending the turn in a state.                                *)
Score(c, st) ==
    - 2000 * st.mate_damage + 300 * st.damage + 20000 * st.kills
    - 10000 * ShootingEnemies(c, st.pos, st.stance, Game.grenadeThrowRange2)
    + 400 * AsInt(st.has_medkit) + 400 * AsInt(st.has_field_ration)
    + 400 * AsInt(st.has_grenade)
    - (60 * MatesDist(c, st.pos)) \div Len(c.teammates)
    - (IF st.mate_damage >= 0 /\ st.damage = 0
       THEN 55 * MinDistance(c, st.pos, c.target) ELSE 0)
    + (IF c.self.type # "SCOUT"
       THEN 500 * AsInt(CloseToCommander(c, st.pos, Game.commanderAuraRange2))
       ELSE 0)
----------------------------------------------------------------------------
(* The actions a plan is made of.  n picks the trooper (0 the trooper that *)
(* moves, i > 0 a teammate or an enemy) or, for MOVE, the direction.       *)

ActionTypes ==
    { "END_TURN", "USE_MEDIKIT", "THROW_GRENADE", "HEAL", "SHOOT", "MOVE",
      "RAISE_STANCE", "LOWER_STANCE", "EAT_FIELD_RATION" }

Action == [act: ActionTypes, n: Nat]

(* What make_action(END_TURN) returns, and what a default-constructed Move  *)
(* such as best_action holds.                                              *)
EndTurn == [act |-> "END_TURN", n |-> 0]

Each(act, n) == [i \in 1 .. n |-> [act |-> act, n |-> i]]
Once(act)    == << [act |-> act, n |-> 0] >>

(* The order in which an activation tries its continuations.               *)
Options(c) ==
    Each("USE_MEDIKIT", Len(c.teammates)) \o Once("USE_MEDIKIT")
      \o Each("THROW_GRENADE", Len(c.enemies))
      \o Each("HEAL", Len(c.teammates)) \o Once("HEAL")
      \o Each("SHOOT", Len(c.enemies))
      \o Each("MOVE", Len(Directions))
      \o Once("RAISE_STANCE") \o Once("LOWER_STANCE")
      \o Once("EAT_FIELD_RATION")

(* The hit points a patient regains: min(bonus, maximal - current).        *)
Patient(c, n) == IF n = 0 THEN c.self ELSE c.teammates[n]

Healed(c, n, bonusMate, bonusSelf) ==
    LET missing == Patient(c, n).maximalHitpoints - Patient(c, n).hitpoints
        bonus   == IF n = 0 THEN bonusSelf ELSE bonusMate
    IN  IF bonus <= missing THEN bonus ELSE missing

Reaches(c, st, n) == n = 0 \/ HasNeigh(st.pos, c.teammates[n].pos)

MedikitHeal(c, n) ==
    Healed(c, n, Game.medikitBonusHitpoints,
           Game.medikitHealSelfBonusHitpoints)

MedicHeal(c, n) ==
    Healed(c, n, Game.fieldMedicHealBonusHitpoints,
           Game.fieldMedicHealSelfBonusHitpoints)

AfterMedikit(c, st, n) ==
    [st EXCEPT !.mate_damage = @ - MedikitHeal(c, n), !.has_medkit = FALSE]

AfterHeal(c, st, n) == [st EXCEPT !.mate_damage = @ - MedicHeal(c, n)]

(* The troopers of a team the splash of a grenade at e hurts, and those of *)
(* them it kills.                                                          *)
Splashed(team, e) == {i \in DOMAIN team : HasNeigh(e, team[i].pos)}

SplashKilled(team, e) ==
    {i \in Splashed(team, e) :
        Game.grenadeCollateralDamage >= team[i].hitpoints}

AfterGrenade(c, st, n) ==
    LET enemy == c.enemies[n]
        e     == enemy.pos
    IN  [ st EXCEPT
            !.damage = @ + Game.grenadeDirectDamage
                         + Game.grenadeCollateralDamage
                             * Cardinality(Splashed(c.enemies, e)),
            !.kills = @ + AsInt(Game.grenadeDirectDamage >= enemy.hitpoints)
                        + Cardinality(SplashKilled(c.enemies, e))
                        - 2 * Cardinality(SplashKilled(c.teammates, e)),
            !.mate_damage = @ + Game.grenadeCollateralDamage
                             * Cardinality(Splashed(c.teammates, e)),
            !.has_grenade = FALSE,
            !.used_grenade = TRUE ]

AfterShot(c, st, n) ==
    LET damage == c.self.damage[st.stance]
    IN  [ st EXCEPT !.damage = @ + damage,
                    !.kills = @ + AsInt(damage >= c.enemies[n].hitpoints) ]

AfterMove(st, n) == [st EXCEPT !.pos = Neigh(st.pos, n)]

Raised(stance)  == IF stance = PRONE THEN KNEELING ELSE STANDING
Lowered(stance) == IF stance = STANDING THEN KNEELING ELSE PRONE

(* Mutant: eating does not remember that a ration has been eaten.          *)
AfterRationForgotten(st) == [st EXCEPT !.has_field_ration = FALSE]

AfterRation(st) ==
    [st EXCEPT !.has_field_ration = FALSE, !.used_field_ration = TRUE]

(* new_state, as each branch of maximize_score builds it.                  *)
NewState(c, st, o) ==
    CASE o.act = "USE_MEDIKIT"      -> AfterMedikit(c, st, o.n)
      [] o.act = "THROW_GRENADE"    -> AfterGrenade(c, st, o.n)
      [] o.act = "HEAL"             -> AfterHeal(c, st, o.n)
      [] o.act = "SHOOT"            -> AfterShot(c, st, o.n)
      [] o.act = "MOVE"             -> AfterMove(st, o.n)
      [] o.act = "RAISE_STANCE"     -> [st EXCEPT !.stance = Raised(@)]
      [] o.act = "LOWER_STANCE"     -> [st EXCEPT !.stance = Lowered(@)]
      [] o.act = "EAT_FIELD_RATION" -> AfterRation(st)

MoveCost(stance) ==
    CASE stance = STANDING -> Game.standingMoveCost
      [] stance = KNEELING -> Game.kneelingMoveCost
      [] stance = PRONE    -> Game.proneMoveCost

Cost(c, st, o) ==
    CASE o.act = "USE_MEDIKIT"      -> Game.medikitUseCost
      [] o.act = "THROW_GRENADE"    -> Game.grenadeThrowCost
      [] o.act = "HEAL"             -> Game.fieldMedicHealCost
      [] o.act = "SHOOT"            -> c.self.shootCost
      [] o.act = "MOVE"             -> MoveCost(st.stance)
      [] o.act = "RAISE_STANCE"     -> Game.stanceChangeCost
      [] o.act = "LOWER_STANCE"     -> Game.stanceChangeCost
      [] o.act = "EAT_FIELD_RATION" -> Game.fieldRationEatCost

(* The guards of each branch, its cost apart.                              *)
Allowed(c, st, o) ==
    CASE o.act = "USE_MEDIKIT" ->
           st.has_medkit /\ Reaches(c, st, o.n) /\ MedikitHeal(c, o.n) > 0
      [] o.act = "THROW_GRENADE" ->
           /\ st.has_grenade
           /\ SquaredDistance(st.pos, c.enemies[o.n].pos)
                <= Game.grenadeThrowRange2
      [] o.act = "HEAL" ->
           /\ c.self.type = "FIELD_MEDIC"
           /\ Reaches(c, st, o.n) /\ MedicHeal(c, o.n) > 0
      [] o.act = "SHOOT" ->
           IsVisible(c.visibilities, c.self.range2, st.pos, st.stance,
                     c.enemies[o.n].pos, c.enemies[o.n].stance)
      [] o.act = "MOVE" ->
           /\ Neigh(st.pos, o.n) \in Cells(c)
           /\ c.cells[Neigh(st.pos, o.n)] = "FREE"
      [] o.act = "RAISE_STANCE" -> st.stance # STANDING
      [] o.act = "LOWER_STANCE" -> st.stance # PRONE
      [] o.act = "EAT_FIELD_RATION" -> st.has_field_ration

PointsAfter(c, st, points, o) ==
    points - Cost(c, st, o)
      + (IF o.act = "EAT_FIELD_RATION"
         THEN Game.fieldRationBonusActionPoints ELSE 0)

(* Mutant: an action is taken whether or not the points last.              *)
PossibleUnpaid(c, st, points, o) == Allowed(c, st, o)

Possible(c, st, points, o) ==
    Allowed(c, st, o) /\ points - Cost(c, st, o) >= 0

----------------------------------------------------------------------------
(* Everything a plan of fewer than MaxActionNumber actions can lead to.    *)

(* What the outermost activation evaluates: the empty plan.                *)
Root(c) ==
    [ st |-> PickUp(c, InitialState(c)), points |-> c.self.actionPoints,
      first |-> EndTurn ]

(* Ending the turn at once scores more than the sentinel best_score starts *)
(* from: the distances to the team and to the target are finite.           *)
ASSUME RootScoreAssumption ==
    \A k \in DOMAIN Contexts :
        Score(Contexts[k], Root(Contexts[k]).st) > -inf

Candidates(c, r) ==
    {j \in DOMAIN Options(c) : Possible(c, r.st, r.points, Options(c)[j])}

(* The node the continuation o of node r leads to; its plan begins with o  *)
(* if r is the root.                                                       *)
Successor(c, r, o) ==
    [ st |-> PickUp(c, NewState(c, r.st, o)),
      points |-> PointsAfter(c, r.st, r.points, o),
      first |-> IF r.first = EndTurn THEN o ELSE r.first ]

Successors(c, r) == {Successor(c, r, Options(c)[j]) : j \in Candidates(c, r)}

(* Level(c)[d]: the nodes of the plans of exactly d - 1 actions.           *)
Level(c) ==
    LET level[d \in 1 .. MaxActionNumber] ==
            IF d = 1 THEN {Root(c)}
            ELSE UNION {Successors(c, r) : r \in level[d - 1]}
    IN  level

Outcomes(c) == UNION {Level(c)[d] : d \in 1 .. MaxActionNumber}

(* The first actions of the plans no other plan beats.                     *)
BestFirstActions(c) ==
    LET outcomes == Outcomes(c)
        scores   == {Score(c, o.st) : o \in outcomes}
        best     == CHOOSE s \in scores : \A t \in scores : t <= s
    IN  {o.first : o \in {q \in outcomes : Score(c, q.st) = best}}
================================================================================
