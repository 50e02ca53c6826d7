------------------------------- MODULE MCStrategy -------------------------------
(***************************************************************************)
(* A corridor twelve cells long, the shortest from whose every cell some   *)
(* cell is more than five steps away, and a FREE cell no way leads to.     *)
(***************************************************************************)
EXTENDS Strategy

MCWidth  == 14
MCHeight == 1
P        == Points(MCWidth, MCHeight)

MCWorldCells ==
    [p \in P |-> IF p[1] = 1 THEN "HIGH_COVER" ELSE "FREE"]

MCFloydTable ==
    [ e \in P \X P |->
        IF e[1][1] < 2 \/ e[2][1] < 2 THEN inf
        ELSE IF e[1] = e[2] THEN 2 ELSE Magnitude(e[1][1] - e[2][1]) ]

MCVisibilities ==
    {v \in P \X P \X Stances : v[1][1] # 1 /\ v[2][1] # 1 /\
        (v[1][1] < 1 <=> v[2][1] < 1)}

Unit(type, x) ==
    [ type |-> type, pos |-> <<x, 0>>, stance |-> STANDING,
      hitpoints |-> 100, maximalHitpoints |-> 100, actionPoints |-> 2,
      range2 |-> 1, shootCost |-> 3, damage |-> [s \in Stances |-> 25],
      holdingGrenade |-> FALSE, holdingMedikit |-> FALSE,
      holdingFieldRation |-> FALSE ]

MCTeam    == << Unit("COMMANDER", 2), Unit("SCOUT", 4) >>
MCEnemies == << Unit("SOLDIER", 13) >>
MCEnemyCells == { <<13, 0>>, <<9, 0>> }

MCGame ==
    [ medikitUseCost |-> 2, medikitBonusHitpoints |-> 50,
      medikitHealSelfBonusHitpoints |-> 30, grenadeThrowCost |-> 8,
      grenadeThrowRange2 |-> 4, grenadeDirectDamage |-> 80,
      grenadeCollateralDamage |-> 60, fieldMedicHealCost |-> 1,
      fieldMedicHealBonusHitpoints |-> 5,
      fieldMedicHealSelfBonusHitpoints |-> 3, standingMoveCost |-> 2,
      kneelingMoveCost |-> 4, proneMoveCost |-> 6, stanceChangeCost |-> 2,
      fieldRationEatCost |-> 2, fieldRationBonusActionPoints |-> 5,
      commanderAuraRange2 |-> 2 ]

NoContexts == << >>
=================================================================================
