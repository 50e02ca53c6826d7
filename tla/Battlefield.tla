----------------------------- MODULE Battlefield -----------------------------
(***************************************************************************)
(* The data the strategy looks at during one move: the geometry of the     *)
(* cell grid (struct Point), the visibility table of model::World, the     *)
(* values of a trooper, and the members a SlavaStrategy object has once    *)
(* its constructor has run.  Everything here is a pure function of its     *)
(* arguments; the search itself is in PlanSearch.                          *)
(*                                                                         *)
(* Coordinates are pairs <<x, y>>.  Ranges, which are doubles in the code, *)
(* are kept squared: every comparison in the code is of a Euclidean        *)
(* distance with a range, so squares decide it exactly.                    *)
(***************************************************************************)
EXTENDS Integers, Sequences, FiniteSets, Folds

(* Enumerations.  The code takes the minimum of two stances, so they are   *)
(* the numbers of enum TrooperStance; the others are only compared.        *)
PRONE    == 0
KNEELING == 1
STANDING == 2
Stances  == {PRONE, KNEELING, STANDING}

TrooperTypes == {"COMMANDER", "FIELD_MEDIC", "SOLDIER", "SNIPER", "SCOUT"}
CellTypes    == {"FREE", "LOW_COVER", "MEDIUM_COVER", "HIGH_COVER"}
BonusTypes   == {"GRENADE", "MEDIKIT", "FIELD_RATION"}

(* "inf" of the code: the floyd_dist entry of two cells no path joins.     *)
inf == 1000000000

----------------------------------------------------------------------------
(* struct Point *)

Points(width, height) == (0 .. width - 1) \X (0 .. height - 1)

(* Point::neighs: the four neighbours in the order the code pushes them.   *)
Directions == << <<-1, 0>>, <<0, -1>>, <<1, 0>>, <<0, 1>> >>

Neigh(p, i) == <<p[1] + Directions[i][1], p[2] + Directions[i][2]>>

Magnitude(n) == IF n < 0 THEN -n ELSE n

SquaredDistance(p, q) ==
    (q[1] - p[1]) * (q[1] - p[1]) + (q[2] - p[2]) * (q[2] - p[2])

(* Point::has_neigh, for a q that lies on the map (p.isCorrect()).         *)
HasNeigh(p, q) == Magnitude(p[1] - q[1]) + Magnitude(p[2] - q[2]) = 1

----------------------------------------------------------------------------
(* model::World, model::Trooper, model::Bonus *)

(* World::isVisible: in range, and the table the server sent says that the *)
(* lower of the two stances can be seen between the two cells.             *)
LowerStance(s, t) == IF s <= t THEN s ELSE t

IsVisible(visibilities, range2, viewer, viewerStance, object, objectStance) ==
    /\ SquaredDistance(viewer, object) <= range2
    /\ <<viewer, object, LowerStance(viewerStance, objectStance)>>
           \in visibilities

(* The fields of a trooper that the strategy reads; damage is              *)
(* Trooper::getDamage(stance), range2 the square of getShootingRange().    *)
Trooper(P) ==
    [ type: TrooperTypes, pos: P, stance: Stances,
      hitpoints: Int, maximalHitpoints: Int, actionPoints: Nat,
      range2: Nat, shootCost: Nat, damage: [Stances -> Int],
      holdingGrenade: BOOLEAN, holdingMedikit: BOOLEAN,
      holdingFieldRation: BOOLEAN ]

Bonus(P) == [type: BonusTypes, pos: P]

(* The members of a constructed SlavaStrategy object and the globals it    *)
(* reads: "cells" already has every trooper's cell overwritten with        *)
(* LOW_COVER, "stances" is the per-object vector init() fills, "dist" is   *)
(* floyd_dist and "target" the global target once run() has settled it.    *)
Context(width, height) ==
    LET P == Points(width, height)
    IN  [ width: {width}, height: {height},
          cells: [P -> CellTypes],
          visibilities: SUBSET (P \X P \X Stances),
          dist: [P \X P -> Int],
          self: Trooper(P), teammates: Seq(Trooper(P)),
          enemies: Seq(Trooper(P)), bonuses: Seq(Bonus(P)),
          stances: SUBSET Stances, target: P ]

Cells(c) == Points(c.width, c.height)

----------------------------------------------------------------------------
(* The constructor of SlavaStrategy *)

(* Mutant: only the enemies' and teammates' first cells, the list's head,  *)
(* are marked.                                                             *)
OccupiedCellsHead(cells, troopers) ==
    [cells EXCEPT ![troopers[1].pos] = "LOW_COVER"]

(* Every trooper's cell, the strategy's own included, is marked LOW_COVER  *)
(* in the object's private copy of the cells.                              *)
OccupiedCells(cells, troopers) ==
    [ p \in DOMAIN cells |->
        IF \E i \in DOMAIN troopers : troopers[i].pos = p
        THEN "LOW_COVER" ELSE cells[p] ]

(* min_distance *)
MinDistance(c, p, q) == c.dist[<<p, q>>]

(* What floyd() makes of the cells: from a cell to another there is a       *)
(* distance of at most the number of cells, or none.  Two FREE neighbours  *)
(* have one, and two cells that each have one to or from a third.          *)
IsDistanceTable(dist, cells, width, height) ==
    LET P == Points(width, height)
    IN  /\ dist \in [P \X P -> 1 .. width * height \union {inf}]
        /\ \A p, q \in P :
              cells[p] = "FREE" /\ cells[q] = "FREE" /\ HasNeigh(p, q)
                => dist[<<p, q>>] # inf
        /\ \A p, q, r \in P :
              dist[<<p, r>>] # inf /\ dist[<<r, q>>] # inf
                => dist[<<p, q>>] # inf

----------------------------------------------------------------------------
(* The terms of the score that depend on the cell only *)

(* Sum over all teammates, the trooper itself included, of the distance to *)
(* where they stand now.                                                   *)
MatesDist(c, p) ==
    MapThenFoldSet(+, 0, LAMBDA i : MinDistance(c, p, c.teammates[i].pos),
                   LAMBDA S : CHOOSE i \in S : TRUE, DOMAIN c.teammates)

CloseToCommander(c, p, aura2) ==
    \E i \in DOMAIN c.teammates :
        /\ c.teammates[i].type = "COMMANDER"
        /\ SquaredDistance(p, c.teammates[i].pos) <= aura2

(* An enemy threatens a cell if it could throw a grenade there or, in some *)
(* stance of the member "stances", see it within its shooting range.       *)
IsShooting(c, enemy, p, stance, grenade2) ==
    \/ SquaredDistance(p, enemy.pos) <= grenade2
    \/ \E s \in c.stances :
          IsVisible(c.visibilities, enemy.range2, enemy.pos, s, p, stance)

ShootingEnemies(c, p, stance, grenade2) ==
    Cardinality({ i \in DOMAIN c.enemies :
                    IsShooting(c, c.enemies[i], p, stance, grenade2) })
=============================================================================
