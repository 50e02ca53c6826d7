-------------------------------- MODULE Strategy --------------------------------
(***************************************************************************)
(* MyStrategy::move over a whole game: one SlavaStrategy object per move,  *)
(* built on the globals move_index, target and floyd_dist, which all the   *)
(* troopers of the process share, and on the cells the client holds.  The  *)
(* search of a move is taken at what BestPlan promises.  Between two moves *)
(* enemies come into sight, move and go out of it, and troopers die.       *)
(***************************************************************************)
EXTENDS Plans

CONSTANTS
    Width, Height, WorldCells, Visibilities,
    FloydTable,         \* what floyd() computes for WorldCells
    Team, Enemies,      \* sequences of troopers, where the game begins
    EnemyCells,         \* bound: where enemies are seen
    ResetPeriod         \* 128 in the code

Grid == Points(Width, Height)

ASSUME StrategyAssumption ==
    /\ Width \in Nat \ {0} /\ Height \in Nat \ {0}
    /\ ResetPeriod \in Nat \ {0}
    /\ WorldCells \in [Grid -> CellTypes]
    /\ Visibilities \subseteq Grid \X Grid \X Stances
    /\ IsDistanceTable(FloydTable, WorldCells, Width, Height)
    /\ Team \in Seq(Trooper(Grid)) /\ Enemies \in Seq(Trooper(Grid))
    /\ EnemyCells \subseteq Grid

(* The simulator puts the team on FREE cells, one trooper on each, with    *)
(* ways from each to each, and no enemy with them.                         *)
ASSUME StartAssumption ==
    /\ Team # << >>
    /\ \A t \in DOMAIN Team : WorldCells[Team[t].pos] = "FREE"
    /\ \A s, t \in DOMAIN Team :
          /\ Team[s].pos = Team[t].pos => s = t
          /\ FloydTable[<<Team[s].pos, Team[t].pos>>] # inf
    /\ \A t \in DOMAIN Team, e \in DOMAIN Enemies :
          Team[t].pos # Enemies[e].pos

(* The map and the other side are so small that the score's int can hold   *)
(* what being far from everything and in everybody's sight costs.          *)
ASSUME ScaleAssumption ==
    10000 * Len(Enemies) + 115 * (Width * Height) < inf

VARIABLES
    move_index, target, floyd_dist,     \* the globals
    held,           \* RemoteProcessClient's cells, sent once
    positions,      \* of the team, in the simulator's world
    alive, seen,    \* its living troopers; the cells of the enemies in sight
    pc, self,       \* the step of move() and the trooper it is for
    cells, stances, \* members of the object
    action          \* what run() returns

globals == <<move_index, target, floyd_dist>>
others  == <<alive, seen>>
vars == <<globals, held, positions, others, pc, self, cells, stances, action>>

Unseen == << >>

Init ==
    /\ move_index = -1 /\ target = <<0, 0>> /\ floyd_dist = << >>
    /\ held = WorldCells
    /\ positions = [t \in DOMAIN Team |-> Team[t].pos]
    /\ alive = DOMAIN Team /\ seen = [e \in DOMAIN Enemies |-> Enemies[e].pos]
    /\ pc = "idle" /\ self = 1
    /\ cells = << >> /\ stances = {} /\ action = EndTurn

(* The world lists the troopers there are in the order it always does: S   *)
(* is the set of their indexes.                                            *)
InOrder(S) ==
    CHOOSE s \in [1 .. Cardinality(S) -> S] :
        \A i, j \in DOMAIN s : i < j => s[i] < s[j]

At(trooper, p) == [trooper EXCEPT !.pos = p]

Mates ==
    LET living == InOrder(alive)
    IN  [i \in DOMAIN living |-> At(Team[living[i]], positions[living[i]])]

Foes ==
    LET visible == InOrder({e \in DOMAIN Enemies : seen[e] # Unseen})
    IN  [i \in DOMAIN visible |-> At(Enemies[visible[i]], seen[visible[i]])]

Here == positions[self]

(* Mutant: the index starts at 1.                                          *)
NextIndexSkipsFirst == IF move_index = -1 THEN 1 ELSE move_index + 1

(* Bound: from 2 * ResetPeriod on the index falls back by a period, which  *)
(* no test of it in the code can tell.                                     *)
NextIndex ==
    IF move_index + 1 = 2 * ResetPeriod THEN ResetPeriod ELSE move_index + 1

(* Mutant: the member cells is a reference to the client's.                *)
HeldAfterShared(marked) == marked

(* The object marks the troopers in a copy of the client's cells.          *)
HeldAfter(marked) == held

(* The constructor; init() only for the first object of the process.       *)
Construct ==
    /\ pc = "idle"
    /\ self' \in alive
    /\ move_index' = NextIndex
    /\ IF move_index' = 0
       THEN floyd_dist' = FloydTable /\ stances' = Stances
       ELSE stances' = {} /\ UNCHANGED floyd_dist
    /\ cells' = OccupiedCells(held, Mates \o Foes)
    /\ held' = HeldAfter(cells')
    /\ pc' = "begin"
    /\ UNCHANGED <<target, positions, others, action>>

(* run() gives up the target every ResetPeriod moves.                      *)
Begin ==
    /\ pc = "begin"
    /\ target' = IF move_index % ResetPeriod = 0 THEN Here ELSE target
    /\ pc' = "picking"
    /\ UNCHANGED <<move_index, floyd_dist, held, positions, others, self,
                   cells, stances, action>>

(* Mutant: that no way leads there is not looked at.                       *)
RejectedIfNear(p) == floyd_dist[<<Here, p>>] <= 5

Rejected(p) == floyd_dist[<<Here, p>>] <= 5 \/ floyd_dist[<<Here, p>>] = inf

(* Mutant: random(sizeX - 1), random(sizeY).                               *)
RandomInner == Points(Width - 1, Height)

RandomPoint == Points(Width, Height)

PickTarget ==
    /\ pc = "picking" /\ Rejected(target)
    /\ target' \in RandomPoint
    /\ UNCHANGED <<move_index, floyd_dist, held, positions, others, pc, self,
                   cells, stances, action>>

Settle ==
    /\ pc = "picking" /\ ~Rejected(target)
    /\ pc' = "searching"
    /\ UNCHANGED <<globals, held, positions, others, self, cells, stances, action>>

(* The object the search works on: a Context of Plans.                     *)
Object ==
    [ width |-> Width, height |-> Height, cells |-> cells,
      visibilities |-> Visibilities, dist |-> floyd_dist,
      self |-> At(Team[self], Here), teammates |-> Mates, enemies |-> Foes,
      bonuses |-> << >>, stances |-> stances, target |-> target ]

Search ==
    /\ pc = "searching"
    /\ \E object \in {Object} : action' \in BestFirstActions(object)
    /\ pc' = "answered"
    /\ UNCHANGED <<globals, held, positions, others, self, cells, stances>>

(* The simulator applies the move (external).                              *)
Apply ==
    /\ pc = "answered"
    /\ positions' = IF action.act = "MOVE"
                    THEN [positions EXCEPT ![self] = Neigh(@, action.n)]
                    ELSE positions
    /\ pc' = "idle"
    /\ UNCHANGED <<globals, held, others, self, cells, stances, action>>

(* Another player's turn (external).                                       *)
Occupied == {positions[t] : t \in alive} \union {seen[e] : e \in DOMAIN Enemies}

EnemyMoves ==
    /\ pc = "idle"
    /\ \E e \in DOMAIN Enemies, p \in (EnemyCells \ Occupied) \union {Unseen} :
          seen' = [seen EXCEPT ![e] = p]
    /\ UNCHANGED <<globals, held, positions, alive, pc, self, cells, stances,
                   action>>

TrooperDies ==
    /\ pc = "idle" /\ Cardinality(alive) > 1
    /\ \E t \in alive : alive' = alive \ {t}
    /\ UNCHANGED <<globals, held, positions, seen, pc, self, cells, stances,
                   action>>

Move == Construct \/ Begin \/ PickTarget \/ Settle \/ Search \/ Apply

Next == Move \/ EnemyMoves \/ TrooperDies

(* The process runs, and rand() does not miss the acceptable cells for     *)
(* ever.                                                                   *)
Spec ==
    /\ Init /\ [][Next]_vars /\ WF_vars(Move)
    /\ SF_vars(PickTarget /\ ~Rejected(target'))
---------------------------------------------------------------------------------
(* Properties *)

(* The variables keep their types; the table is there once an object is.   *)
TypeOK ==
    /\ move_index \in -1 .. 2 * ResetPeriod - 1
    /\ target \in Grid /\ positions \in [DOMAIN Team -> Grid]
    /\ alive \subseteq DOMAIN Team /\ alive # {}
    /\ seen \in [DOMAIN Enemies -> Grid \union {Unseen}]
    /\ floyd_dist = IF move_index = -1 THEN << >> ELSE FloydTable
    /\ held \in [Grid -> CellTypes]
    /\ self \in DOMAIN Team /\ stances \subseteq Stances
    /\ pc \in {"idle", "begin", "picking", "searching", "answered"}

(* What the search takes for granted of its object holds of every object   *)
(* the globals and the client's cells produce: a target some way leads to, *)
(* mates at a finite distance, and so a first score above -inf.            *)
SearchCanStart ==
    pc = "searching" =>
        /\ Object \in Context(Width, Height)
        /\ MinDistance(Object, Here, target) \in 6 .. Width * Height
        /\ \A t \in alive :
              MinDistance(Object, Here, positions[t]) \in 1 .. Width * Height
        /\ Score(Object, Root(Object).st) > -inf

(* The cells a trooper has left, or has died on, and those of enemies that *)
(* have gone are free again for the next object.                           *)
NothingLeftBehind ==
    pc \in {"begin", "picking", "searching"} =>
        \A p \in Grid :
            cells[p] = "FREE" <=>
                /\ WorldCells[p] = "FREE"
                /\ \A t \in alive : positions[t] # p
                /\ \A e \in DOMAIN Enemies : seen[e] # p

(* Troopers stand on FREE cells of the world and never on each other's.    *)
NoCollision ==
    /\ \A t \in alive :
          /\ WorldCells[positions[t]] = "FREE"
          /\ \A e \in DOMAIN Enemies : seen[e] # positions[t]
    /\ \A s, t \in alive : positions[s] = positions[t] => s = t

(* Every move asked for is answered: the search for a target ends.         *)
Decides == pc = "begin" ~> pc = "answered"
=================================================================================
