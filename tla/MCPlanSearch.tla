------------------------------ MODULE MCPlanSearch ------------------------------
(***************************************************************************)
(* Small worlds for PlanSearch: one 4 x 3 map with two obstacles and a     *)
(* handful of situations on it, each of which makes some of the branches   *)
(* of maximize_score possible.                                             *)
(***************************************************************************)
EXTENDS PlanSearch, FiniteSetsExt

Width  == 4
Height == 3
P      == Points(Width, Height)

(*   y = 0:  .  .  .  .                                                    *)
(*   y = 1:  .  L  H  .      L: LOW_COVER, H: HIGH_COVER                   *)
(*   y = 2:  .  .  .  .                                                    *)
WorldCells ==
    [ p \in P |-> CASE p = <<1, 1>> -> "LOW_COVER"
                    [] p = <<2, 1>> -> "HIGH_COVER"
                    [] OTHER -> "FREE" ]

(* The table the server sends: a straight line is broken by a cell that is *)
(* higher than the lower of the two stances.                               *)
Hides(cell, stance) ==
    \/ cell = "HIGH_COVER"
    \/ cell = "LOW_COVER" /\ stance = PRONE

Between(r, p, q) ==
    /\ r \notin {p, q}
    /\ (q[1] - p[1]) * (r[2] - p[2]) = (q[2] - p[2]) * (r[1] - p[1])
    /\ \A i \in 1 .. 2 : \/ p[i] <= r[i] /\ r[i] <= q[i]
                         \/ q[i] <= r[i] /\ r[i] <= p[i]

LineOfSight ==
    { v \in P \X P \X Stances :
        \A r \in P : Between(r, v[1], v[2]) => ~Hides(WorldCells[r], v[3]) }

(* floyd_dist: the length of the shortest walk of at least one step over   *)
(* FREE cells (so 2, not 0, from a cell to itself), inf if there is none.  *)
FreeCells == {p \in P : WorldCells[p] = "FREE"}

Walks[n \in 1 .. Cardinality(P)] ==
    IF n = 1 THEN {e \in FreeCells \X FreeCells : HasNeigh(e[1], e[2])}
    ELSE LET shorter == Walks[n - 1]
         IN  {e \in FreeCells \X FreeCells :
                 \E m \in FreeCells :
                     HasNeigh(m, e[2]) /\ <<e[1], m>> \in shorter}

FloydDist ==
    LET walks == [n \in DOMAIN Walks |-> Walks[n]]
    IN  [ e \in P \X P |->
            LET steps == {n \in DOMAIN walks : e \in walks[n]}
            IN  IF steps = {} THEN inf ELSE Min(steps) ]

----------------------------------------------------------------------------
Unit(type, p, hp) ==
    [ type |-> type, pos |-> p, stance |-> STANDING,
      hitpoints |-> hp, maximalHitpoints |-> 100, actionPoints |-> 7,
      range2 |-> 9, shootCost |-> 3, damage |-> [s \in Stances |-> 35 - 5 * s],
      holdingGrenade |-> FALSE, holdingMedikit |-> FALSE,
      holdingFieldRation |-> FALSE ]

(* The object the constructor builds: the self's cell and every other      *)
(* trooper's are no longer FREE in its copy of the cells.                  *)
Situation(self, mates, enemies, bonuses, stances, target) ==
    [ width |-> Width, height |-> Height,
      cells |-> OccupiedCells(WorldCells, <<self>> \o mates \o enemies),
      visibilities |-> LineOfSight, dist |-> FloydDist,
      self |-> self, teammates |-> <<self>> \o mates, enemies |-> enemies,
      bonuses |-> bonuses, stances |-> stances, target |-> target ]

(* A bare trooper; a medic among hurt mates; a fight with a grenade and a  *)
(* bonus grenade, splash on both sides; a hungry scout; a medikit to fetch *)
(* for a mate; a wounded soldier lying on a medikit; a kneeling sniper.    *)
Alone ==
    Situation(Unit("COMMANDER", <<0, 0>>, 100), << >>, << >>,
              << [type |-> "FIELD_RATION", pos |-> <<1, 0>>] >>,
              Stances, <<3, 2>>)

Medic ==
    Situation([Unit("FIELD_MEDIC", <<0, 1>>, 98)
                 EXCEPT !.actionPoints = 4, !.holdingMedikit = TRUE],
              << Unit("COMMANDER", <<0, 0>>, 97),
                 Unit("SOLDIER", <<0, 2>>, 40) >>,
              << Unit("SNIPER", <<3, 2>>, 50) >>,
              << >>, {}, <<3, 0>>)

Fight ==
    Situation([Unit("SOLDIER", <<0, 2>>, 100)
                 EXCEPT !.actionPoints = 11, !.holdingGrenade = TRUE],
              << Unit("SCOUT", <<3, 1>>, 50) >>,
              << Unit("SOLDIER", <<2, 2>>, 70),
                 Unit("SCOUT", <<3, 2>>, 25) >>,
              << [type |-> "GRENADE", pos |-> <<1, 2>>] >>, {}, <<3, 0>>)

Hungry ==
    Situation([Unit("SCOUT", <<3, 2>>, 100)
                 EXCEPT !.actionPoints = 4, !.holdingFieldRation = TRUE],
              << Unit("COMMANDER", <<3, 0>>, 100) >>, << >>,
              << [type |-> "FIELD_RATION", pos |-> <<2, 2>>] >>,
              Stances, <<0, 0>>)

Fetch ==
    Situation([Unit("SCOUT", <<3, 1>>, 60) EXCEPT !.actionPoints = 8],
              << Unit("SOLDIER", <<0, 0>>, 10) >>,
              << Unit("SNIPER", <<2, 2>>, 60) >>,
              << [type |-> "MEDIKIT", pos |-> <<1, 0>>] >>, Stances, <<3, 2>>)

Wounded ==
    Situation([Unit("SOLDIER", <<1, 2>>, 20)
                 EXCEPT !.actionPoints = 5, !.stance = PRONE],
              << Unit("SNIPER", <<0, 2>>, 100) >>,
              << Unit("COMMANDER", <<1, 0>>, 60) >>,
              << [type |-> "MEDIKIT", pos |-> <<1, 2>>] >>, Stances, <<3, 0>>)

Kneeling ==
    Situation([Unit("SNIPER", <<3, 2>>, 100)
                 EXCEPT !.actionPoints = 9, !.stance = KNEELING],
              << Unit("COMMANDER", <<0, 2>>, 100) >>,
              << Unit("SOLDIER", <<1, 0>>, 64) >>, << >>, {}, <<0, 0>>)

MCContexts == << Alone, Medic, Fight, Hungry, Fetch, Wounded, Kneeling >>

(* Amounts of the size the server uses; the grenade is cheap and short, so *)
(* that it matters on a map this small.                                    *)
MCGame ==
    [ medikitUseCost |-> 2, medikitBonusHitpoints |-> 50,
      medikitHealSelfBonusHitpoints |-> 30, grenadeThrowCost |-> 4,
      grenadeThrowRange2 |-> 5, grenadeDirectDamage |-> 80,
      grenadeCollateralDamage |-> 60, fieldMedicHealCost |-> 1,
      fieldMedicHealBonusHitpoints |-> 5,
      fieldMedicHealSelfBonusHitpoints |-> 3, standingMoveCost |-> 2,
      kneelingMoveCost |-> 4, proneMoveCost |-> 6, stanceChangeCost |-> 2,
      fieldRationEatCost |-> 2, fieldRationBonusActionPoints |-> 5,
      commanderAuraRange2 |-> 2 ]
=================================================================================
