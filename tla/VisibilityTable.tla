----------------------------- MODULE VisibilityTable -----------------------------
(***************************************************************************)
(* The part of a world message that is read once: readCells and            *)
(* readCellVisibilities of RemoteProcessClient, and World::isVisible,      *)
(* which looks the answer up in the table that was read.                   *)
(*                                                                         *)
(* A byte of the table is the entry it stands for: who looks from where,   *)
(* at what, in which stance.  The message comes from the simulator, which  *)
(* is external: it lists the columns of the map, the table's sizes and the *)
(* entries in the order of five nested loops.                              *)
(***************************************************************************)
EXTENDS Integers, Sequences, FiniteSets, SequencesExt

CONSTANTS
    Widths, Heights,    \* sizes of the maps
    IntLimit            \* an int is in -IntLimit .. IntLimit - 1: 2^31

StanceCount == 3

ASSUME TableAssumption ==
    Widths \subseteq Nat /\ Heights \subseteq Nat /\ IntLimit \in Nat \ {0}

VARIABLES
    width, height,      \* of the world; getWidth() and getHeight()
    stream,             \* what is left of the message
    pc,                 \* what is read next, or "exited"
    columns,            \* columns still to be read
    cells,              \* the columns read
    sizes,              \* worldWidth, worldHeight, stanceCount, as far as read
    table,              \* cellVisibilities
    asked, answer,      \* a question to isVisible, and the entry it looks at
    exit_code

vars == <<width, height, stream, pc, columns, cells, sizes, table, asked, answer,
          exit_code>>

---------------------------------------------------------------------------------
(* The message (external) *)

(* Concatenation of f[0], f[1], ...                                        *)
Loop(f) == FlattenSeq([i \in 1 .. Cardinality(DOMAIN f) |-> f[i - 1]])

Entry(x1, y1, x2, y2, stance) ==
    [viewer |-> <<x1, y1>>, object |-> <<x2, y2>>, stance |-> stance]

Entries(w, h) ==
    LET X == 0 .. w - 1
        Y == 0 .. h - 1
    IN  Loop([x1 \in X |-> Loop([y1 \in Y |->
          Loop([x2 \in X |-> Loop([y2 \in Y |->
            [i \in 1 .. StanceCount |-> Entry(x1, y1, x2, y2, i - 1)]])])])])

Column(x, h) == << h >> \o [y \in 1 .. h |-> <<x, y - 1>>]

Map(w, h) == << w >> \o Loop([x \in 0 .. w - 1 |-> Column(x, h)])

(* The whole message, and what it is if one of its sizes is negative.      *)
MapMessage(w, h) == Map(w, h) \o <<w, h, StanceCount>> \o Entries(w, h)

Truncated(w, h) ==
    { << -1 >>, << w, -1 >>, Map(w, h) \o << -1 >>,
      Map(w, h) \o << w, -1 >>, Map(w, h) \o << w, h, -1 >> }

Nobody == [viewer |-> << >>, object |-> << >>, stances |-> << >>]

Init ==
    /\ width \in Widths /\ height \in Heights
    /\ stream \in {MapMessage(width, height)} \union Truncated(width, height)
    /\ pc = "width" /\ columns = 0 /\ cells = << >>
    /\ sizes = << >> /\ table = << >>
    /\ asked = Nobody /\ answer = Nobody /\ exit_code = 0
---------------------------------------------------------------------------------
(* Reading it *)

Read(n) ==
    /\ n <= Len(stream)
    /\ stream' = SubSeq(stream, n + 1, Len(stream))

Exit(code) == pc' = "exited" /\ exit_code' = code

Goto(next) == pc' = next /\ UNCHANGED exit_code

ReadWidth ==
    /\ pc = "width" /\ Read(1)
    /\ IF stream[1] < 0
       THEN Exit(10007) /\ UNCHANGED columns
       ELSE Goto("column") /\ columns' = stream[1]
    /\ UNCHANGED <<width, height, cells, sizes, table, asked, answer>>

(* One turn of readCells' loop: the height and that many cells.            *)
ReadColumn ==
    /\ pc = "column" /\ columns > 0
    /\ IF stream[1] < 0
       THEN Read(1) /\ Exit(10008) /\ UNCHANGED <<columns, cells>>
       ELSE /\ Read(1 + stream[1])
            /\ cells' = Append(cells, SubSeq(stream, 2, 1 + stream[1]))
            /\ columns' = columns - 1
            /\ Goto("column")
    /\ UNCHANGED <<width, height, sizes, table, asked, answer>>

SizeExits == <<10018, 10019, 10020>>

ReadSize ==
    /\ pc = "column" /\ columns = 0 /\ Len(sizes) < Len(SizeExits)
    /\ Read(1)
    /\ IF stream[1] < 0
       THEN Exit(SizeExits[Len(sizes) + 1]) /\ UNCHANGED sizes
       ELSE Goto("column") /\ sizes' = Append(sizes, stream[1])
    /\ UNCHANGED <<width, height, columns, cells, table, asked, answer>>

(* The value an int takes for n.                                           *)
AsInt(n) == ((n + IntLimit) % (2 * IntLimit)) - IntLimit

(* Mutant: one side of the map is forgotten.                               *)
ProductOfFour(w, h, stances) == AsInt(w * h * w * stances)

(* Mutant: a row too many is counted.                                      *)
ProductInclusive(w, h, stances) == AsInt(w * h * w * (h + 1) * stances)

Product(w, h, stances) == AsInt(w * h * w * h * stances)

rawVisibilityCount == Product(sizes[1], sizes[2], sizes[3])

(* readBytes takes the count for an unsigned number.                       *)
ByteCount == rawVisibilityCount % (2 * IntLimit)

(* A vector of negative size throws, which nobody catches.                 *)
Aborted == 134

ReadVisibilities ==
    /\ pc = "column" /\ Len(sizes) = Len(SizeExits)
    /\ Read(ByteCount)
    /\ IF rawVisibilityCount < 0
       THEN Exit(Aborted) /\ UNCHANGED table
       ELSE Goto("done") /\ table' = SubSeq(stream, 1, ByteCount)
    /\ UNCHANGED <<width, height, columns, cells, sizes, asked, answer>>
---------------------------------------------------------------------------------
(* World::isVisible *)

(* Mutant: width and height are swapped.                                   *)
IndexSwapped(w, h, viewer, object, stance) ==
    viewer[1] * w * h * w * StanceCount + viewer[2] * w * h * StanceCount
      + object[1] * w * StanceCount + object[2] * StanceCount + stance

Index(w, h, viewer, object, stance) ==
    viewer[1] * h * w * h * StanceCount + viewer[2] * w * h * StanceCount
      + object[1] * h * StanceCount + object[2] * StanceCount + stance

(* Mutant: the viewer's stance alone decides.                              *)
ViewerStance(viewerStance, objectStance) == viewerStance

LowerStance(viewerStance, objectStance) ==
    IF viewerStance <= objectStance THEN viewerStance ELSE objectStance

Points == (0 .. width - 1) \X (0 .. height - 1)
Stances == 0 .. StanceCount - 1

IsVisible ==
    /\ pc = "done" /\ asked = Nobody
    /\ \E viewer, object \in Points, stances \in Stances \X Stances :
         LET i == Index(width, height, viewer, object,
                        LowerStance(stances[1], stances[2]))
         IN  /\ asked' = [viewer |-> viewer, object |-> object, stances |-> stances]
             /\ answer' = IF i \in 0 .. Len(table) - 1 THEN table[i + 1] ELSE Nobody
    /\ UNCHANGED <<width, height, stream, pc, columns, cells, sizes, table,
                   exit_code>>

Next == ReadWidth \/ ReadColumn \/ ReadSize \/ ReadVisibilities \/ IsVisible

Spec == Init /\ [][Next]_vars /\ WF_vars(Next)
---------------------------------------------------------------------------------
(* Properties *)

(* The table's size is an int.                                             *)
Fitting ==
    { m \in Widths \X Heights :
        m[1] * m[2] * m[1] * m[2] * StanceCount < IntLimit }

Fits == <<width, height>> \in Fitting

(* What is looked up is the entry of the two cells asked about and the     *)
(* lower of the two stances, whoever is the viewer: a swapped size gives   *)
(* the right answer on a square map, and a wrong one on few pairs of cells *)
(* of another.                                                             *)
LooksUpOwnEntry ==
    Fits /\ asked # Nobody =>
      /\ answer.viewer = asked.viewer
      /\ answer.object = asked.object
      /\ \A s \in {asked.stances[1], asked.stances[2]} : answer.stance <= s
      /\ answer.stance \in {asked.stances[1], asked.stances[2]}

(* The client reads the cells of every column, in their order, and all of  *)
(* the table: nothing of it is left for the next message.                  *)
ReadsWholeGrid ==
    pc = "done" /\ Fits =>
      /\ stream = << >>
      /\ \A p \in Points : cells[p[1] + 1][p[2] + 1] = p

(* Every message whose table fits an int is read, or ends the process with *)
(* the code of the first size that is negative.                            *)
Concludes ==
    Fits ~> \/ pc = "done" /\ asked # Nobody
            \/ exit_code \in {10007, 10008, 10018, 10019, 10020}
=================================================================================
