--------------------------------- MODULE Floyd ---------------------------------
(***************************************************************************)
(* SlavaStrategy::floyd: the table min_distance reads, filled once in the  *)
(* life of the process by init().  A step is one turn of the innermost     *)
(* loop, or of the middle one where it goes on at once.                    *)
(***************************************************************************)
EXTENDS Battlefield

CONSTANTS Width, Height     \* sizeX, sizeY

(* There are fewer cells than inf, a distance no way can have.             *)
ASSUME SizeAssumption ==
    Width \in Nat /\ Height \in Nat /\ Width * Height < inf

VARIABLES
    cells,          \* world.getCells(), the troopers not marked in it
    floyd_dist,
    k, i, j         \* the loops, as positions in free_points

vars == <<cells, floyd_dist, k, i, j>>

Grid == Points(Width, Height)

(* Only FREE and not FREE are told apart.                                  *)
Maps == [Grid -> {"FREE", "HIGH_COVER"}]

(* free_points: the FREE cells in the order of the x loop, then of the y   *)
(* loop.  The n-th has n FREE cells up to itself.                          *)
UpTo(p, q) == q[1] < p[1] \/ (q[1] = p[1] /\ q[2] <= p[2])

Free == {p \in Grid : cells[p] = "FREE"}

Position(p) == Cardinality({q \in Free : UpTo(p, q)})

free_points ==
    [n \in 1 .. Cardinality(Free) |-> CHOOSE p \in Free : Position(p) = n]

Count == Len(free_points)

K == free_points[k]
I == free_points[i]
J == free_points[j]

(* The first loop: 1 between neighbouring FREE cells, inf elsewhere.       *)
Adjacent(c) ==
    [ e \in Grid \X Grid |->
        IF c[e[1]] = "FREE" /\ c[e[2]] = "FREE" /\ HasNeigh(e[1], e[2])
        THEN 1 ELSE inf ]

Init ==
    /\ cells \in Maps
    /\ floyd_dist = Adjacent(cells)
    /\ k = 1 /\ i = 1 /\ j = 1

(* Mutant: the loop over the middle point is not the outermost one.        *)
NextRowSwapped ==
    /\ j' = 1
    /\ IF k < Count THEN k' = k + 1 /\ i' = i ELSE k' = 1 /\ i' = i + 1

NextRow ==
    /\ j' = 1
    /\ IF i < Count THEN i' = i + 1 /\ k' = k ELSE i' = 1 /\ k' = k + 1

NextColumn == IF j < Count THEN j' = j + 1 /\ UNCHANGED <<i, k>> ELSE NextRow

Running == k <= Count /\ i <= Count

(* No way from i to k: the middle loop goes on.                            *)
SkipRow ==
    /\ Running /\ floyd_dist[<<I, K>>] = inf
    /\ NextRow
    /\ UNCHANGED <<cells, floyd_dist>>

SkipColumn ==
    /\ Running /\ floyd_dist[<<I, K>>] # inf /\ floyd_dist[<<K, J>>] = inf
    /\ NextColumn
    /\ UNCHANGED <<cells, floyd_dist>>

(* Mutant: the last way found is kept.                                     *)
ShorterLast(d, through) == through

Shorter(d, through) == IF through < d THEN through ELSE d

Relax ==
    /\ Running /\ floyd_dist[<<I, K>>] # inf /\ floyd_dist[<<K, J>>] # inf
    /\ floyd_dist' = [floyd_dist EXCEPT ![<<I, J>>] =
                         Shorter(@, floyd_dist[<<I, K>>] + floyd_dist[<<K, J>>])]
    /\ NextColumn
    /\ UNCHANGED cells

Next == SkipRow \/ SkipColumn \/ Relax

Spec == Init /\ [][Next]_vars /\ WF_vars(Next)
--------------------------------------------------------------------------------
(* What the table should hold *)

(* Walk(S)[n]: the pairs of FREE cells joined by a walk of n steps all of  *)
(* whose inner points are in S.                                            *)
IsStep(p, q) == HasNeigh(p, q) /\ {cells[p], cells[q]} = {"FREE"}

Steps == {e \in Grid \X Grid : IsStep(e[1], e[2])}

Longer(walks, S) ==
    UNION {{<<w[1], q>> : q \in {p \in Grid : IsStep(w[2], p)}} :
             w \in {e \in walks : e[2] \in S}}

Walk(S) ==
    LET walk[n \in 1 .. Cardinality(S) + 1] ==
          IF n = 1 THEN Steps ELSE Longer(walk[n - 1], S)
    IN  walk

(* Their least length of at least one step, inf if there is none: from a  *)
(* cell to itself 2, not 0.                                                *)
Shortest(S) ==
    LET walk == [n \in 1 .. Cardinality(S) + 1 |-> Walk(S)[n]]
    IN  [ e \in Grid \X Grid |->
            LET lengths == {n \in DOMAIN walk : e \in walk[n]}
            IN  IF lengths = {} THEN inf
                ELSE CHOOSE n \in lengths : \A m \in lengths : n <= m ]
--------------------------------------------------------------------------------
(* Properties *)

(* The loops stay inside free_points, and an entry is inf or the length of *)
(* a way that visits no cell twice: sums of two entries never come near    *)
(* the width of int.                                                       *)
TypeOK ==
    /\ cells \in Maps
    /\ floyd_dist \in [Grid \X Grid -> 1 .. Width * Height \union {inf}]
    /\ k \in 1 .. Count + 1 /\ i \in 1 .. Count + 1
    /\ j \in 1 .. Count \union {1}

(* Between two turns of the outer loop the table holds the shortest ways   *)
(* through the points that loop has been through, and so, at its end, the  *)
(* shortest ways there are.                                                *)
ShortestSoFar ==
    i = 1 /\ j = 1 =>
        floyd_dist = Shortest({free_points[n] : n \in 1 .. k - 1})
================================================================================
