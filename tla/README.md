# A verification of the CodeTroopers strategy

TLA+ models of russian-ai-cup-2013, a program that plays the game CodeTroopers
against a simulator: what it decides, how it talks to the simulator, how it is
run. TLC checks the models on small instances; TLAPS proves the most important
of them correct for all parameters.

## The system

One process, `MyStrategy`, plays one team. It connects to the simulator over
TCP, is asked for one action of one trooper at a time, and answers each
question before it reads the next. It has no threads. What is hard in it is a
depth-first search over shared mutable members, state that survives from one
question to the next, two layers of loops around partial and interrupted
transfers, and a protocol in which some data is sent once only.

| component | source | state | operations |
|---|---|---|---|
| plan search | `MyStrategy.cpp`, `run`, `maximize_score` | the recursion's stack; `best_action`, `best_score`, `cur_action` | try each kind of action, compare scores, return |
| strategy object, globals | `MyStrategy.cpp`, `MyStrategy::move`, constructor, `init` | `move_index`, `target`, `floyd_dist`, `sizeX`, `sizeY`; `cells`, `stances`, `teammates`, `enemies` of one object per move | construct, choose a target, search |
| distances | `MyStrategy.cpp`, `floyd` | `floyd_dist`, three loop positions | three nested loops, in place |
| geometry and game values | `Point`, `model/` | read only | distance, neighbours, `isVisible`, getters |
| client session | `Runner.cpp`, `RemoteProcessClient.cpp` | place in `run()`; cached `cells`, `cellVisibilities`; strategy objects | one call per message; twenty ways to exit |
| byte transport | `readBytes`, `writeBytes`; `SimpleSocket.cpp` `Send`, `Receive` | offsets, `m_pBuffer`, `m_nBytesReceived`, `errno` | loops over system calls |
| wire format | `RemoteProcessClient.cpp`, `readInt` .. `writeDouble` | none | values to bytes and back |
| map message | `readCells`, `readCellVisibilities`; `World::isVisible` | the table | read once, look up |
| connecting | `SimpleSocket.cpp`, `ActiveSocket.cpp` | `m_socket`, `m_bIsBlocking`, `m_socketErrno`; the descriptor; `errno` | initialize, set mode, open, select, shut down, close |
| harness | `local-runner/run-once.pl` | two children | start, restart on exit code 17, wait |
| batch | `local-runner/run.pl`, `run-render.pl` | counters, `result.txt` | play, read the result, count |
| simulator | `local-runner.jar`, a binary | external | greet, ask, receive, end, fail |

How they interact: `Runner::run` calls the client and, for every
`PlayerContext`, the `move` of the strategy object of the trooper asked for.
`move` builds a `SlavaStrategy`, which reads the world by reference, the
client's cached cells through it, and globals that all troopers share. The
client calls the socket; the socket calls the kernel. The harness sees of the
process only that it ended and with what code. The batch scripts see of a game
only the file the simulator leaves.

What makes each correct, in short: the search returns a best plan's legal
first action; a new object's view of the world is that of this move, not of an
earlier one; the table holds shortest distances; client and simulator stay in
step and every question gets its own answer; bytes arrive whole, once, in
order, or the process ends; integers survive the way to the other machine; the
visibility table is looked up where it was filled; the socket's handle is that of an open
descriptor, and no other is left open; a game is entered at most once, and counted for what it was.

## Modules

| module | models | extends |
|---|---|---|
| `Battlefield` | cells, distances, the visibility test, trooper and bonus values, the marking of occupied cells, the terms of the score that depend on a cell | |
| `Plans` | `struct State`, guard, cost and effect of every kind of action, the score; `Level`, `Outcomes`, `BestFirstActions`: every plan there is, as a set | `Battlefield` |
| `BestPlan` | abstract: decide, in one step, for the first action of a best plan | |
| `PlanSearch` | `run` and `maximize_score` with its call stack | `Plans` |
| `Floyd` | `floyd()`, a turn of its loops at a time | `Battlefield` |
| `Strategy` | one object per move over a whole game, on shared globals | `Plans` |
| `BytePipe` | abstract: whole calls one after the other, or an end | |
| `ByteStream` | `readBytes`/`writeBytes` over `Receive`/`Send`, a system call at a time | |
| `Session` | `Runner::run`, `RemoteProcessClient` and the simulator | |
| `Harness` | `run-once.pl` around the process and simulator of `Session` | `Session` |
| `WireFormat` | the readers and writers of values, over bytes | |
| `VisibilityTable` | `readCells`, `readCellVisibilities`, `World::isVisible` | |
| `Batch` | `run.pl` and `run-render.pl` around the games of `Harness` | `Harness` |
| `ActiveSocket` | `Initialize`, `SetNonblocking`, `SetBlocking`, `Open`, `ConnectTCP`, `Select`, `Shutdown`, `Close` | |
| `MCPlanSearch`, `MCStrategy`, `MCByteStream`, `MCWireFormat` | instances for TLC | |
| `PlansProofs`, `PlanSearchProofs` | proofs about plans, and about the search | `Plans`, `PlanSearch` |
| `StrategyProofs` | proofs | `Strategy`, `PlansProofs` |
| `SessionProofs` | proofs about the session and the scripts around it | `Batch` |
| `FloydProofs` | proofs about the table of distances | `Floyd` |
| `ByteStreamProofs`, `VisibilityTableProofs` | proofs | `ByteStream`, `VisibilityTable` |
| `ConnectionProofs` | proofs | `ActiveSocket`, `WireFormat` |

Names follow the source. `PROJECT.json` maps each definition to the lines it
stands for. Definitions named as mutants in their comments are plausible bugs,
used to see that each property can fail; nothing else refers to them.

### Correspondence

**Plan search.** A frame of `stack` is an activation of `maximize_score`: its
`state`, its `action_points`, and how far its loops have got. Every
continuation an activation may try, over teammates, enemies, neighbours and
stances, is a member of the sequence `Options(c)`, in the order of the source;
`Allowed`, `Cost` and `NewState` give the guard, price and effect of each.
`UseMedikit`, `ThrowGrenade`, ... take the first option not yet tried whose guard
holds, and are the recursive calls of one branch; `Activate`
is everything a call does before its first branch: picking up bonuses, the score,
the update of the best. `Return` is the end of the function, the cutoff
included. `c` is the object's unchanging members as the constructor leaves them.
A continuation that leaves the map (`neighs()` would not list it) is an
option whose guard is false. Distances are compared as squares; a range, a
double in the code, is kept as the square, as far as the integers tell.
The score is an unbounded integer: that it fits an `int` on real maps is
assumed, except that the distances in it are shown to be finite (`SearchCanStart`, `ScoresAreOfWays`).

**Strategy.** `Construct` is the constructor together with `init()` if it is the
first; `Begin`, `PickTarget`, `Settle`
are the first lines of `run()`; `Search` is the rest, taken at what
`PlanSearch` was shown to promise: some member of `BestFirstActions`. `Apply`,
the simulator's, moves the trooper. `held` is the client's vector behind
`world.getCells()`. Between two moves, `EnemyMoves` lets an enemy come into sight,
move or go out of it, and `TrooperDies` takes a trooper from the team; both are the
simulator's. `InOrder` lists the living troopers in the order the world has
them. `StartAssumption` is where the simulator puts a team: on FREE cells, one trooper on
each, with ways from each to each, no enemy with them. `FloydTable`, what `init()` computes, is
any table with what `FloydProofs` proves of `floyd`'s (`IsDistanceTable`). `move_index` falls back by a period once it passes two:
only its being 0 and its remainder matter.

**Floyd.** One action per way through the loop body: relaxing, or one of the two
`continue`s. Only FREE and HIGH_COVER appear; the code asks for FREE only.
`free_points` is the list of the FREE cells by their position in the two loops over the map.

**ByteStream.** `Send`, `SendAgain`, `Receive`, `ReceiveAgain` are one system
call and the code up to the next; the two `...Again` actions are the `do`
loops of the socket, `Send` and `Receive` return into the `while` loops of the client.
The kernel accepts or delivers any positive number of bytes, fails, or is
interrupted; `errno` is set by failures only, as POSIX has it. RECV puts its bytes at
`m_pBuffer + m_nBytesReceived`, which after an interrupted call is one byte before the buffer or
behind what came last. `Overrun` notes in `corrupted` when a byte falls outside the buffer; from then on
`HeapDamage` may end the process or overwrite the vector at any step, or do nothing. A write to a
closed peer succeeds, fails or raises SIGPIPE, for which nobody installs a handler.

**Session.** One action per call of `run()`. A message carries at most one
`flaw`, what one of the client's checks refuses, in the order they are made;
its code is `ExitCode`. Messages travel whole and in order, which is what
`ByteStream` shows of the transport; a simulator that goes away loses any suffix of
what it has sent. Cells that are in a message the client does not read them from
stay in the stream (`Unread`), cells it reads that are not there make it wait.

**Harness.** `ShellCode` is `$? >> 8`. The scripts' two children are `loop` and
the simulator of `Session`.

**WireFormat.** A message is a sequence of fields, written one `writeBytes`
call at a time; the peer reads them in little-endian order and answers with
fields, one at a time, that the client reads. `Base` is the number of values of a byte and `Size` the bytes of an
int: with small ones every integer there is can be tried. `IsTyped` is the C++ type of what a field is written from, `Memory` what
`memcpy` sees on the machine, `Ordered` the call of `reverse`, bounds as in
the code.

**VisibilityTable.** A byte of the table stands for itself: it *is* the
viewer, object and stance it was sent for, so that looking at a wrong one shows.
`AsInt` wraps the product as an int does. A length that becomes huge or
negative ends the process (`Aborted`) or waits for bytes that do not come.

**Batch.** A game is a run of `Harness`. When the simulator goes, it has
written a full result file, one that says FAILED, or none. `Count` and `Render`
read the file, as the two scripts do, and start the next game. Perl's undefined
is the record `Undefined`, 0 as a number. `Won`, `FirstOrSecond` and `Crashed` are the games
the counters should count, by number.

**ActiveSocket.** One action per call of the user, split where the call waits: in
connect(2) (`call = "connect"`) or in select(2). `errno`, the object's
`m_socketErrno` and the mode of the descriptor are variables of their own, since
the errors of this code come from their going apart. The kernel answers a connection
at any time (`Answered`) or never. The user makes the calls in any order: an `Initialize` overwrites the handle
whether or not it is open, and every call with a handle the kernel does not know fails with EBADF. `Close` has the
branch in which CLOSE fails and the handle stays; the descriptor is gone all the same, as on Linux. `replaced`
and `close_failed` remember these two events. Of a descriptor without a handle only that it is open is kept.
A descriptor is a number never used again. `Half` is
half of the numbers a port can be: 2^15 in the code, 8 in the run.

## Runs

| run | instance | states | shows |
|---|---|---|---|
| `plan_search` | 7 situations on a 4 x 3 map, cutoff 5 | 2 407 | see *Plan search* below |
| `floyd` | all 512 maps of 3 x 3 | 41 365 | shortest distances at every outer turn |
| `strategy` | corridor 14 x 1, two troopers, one enemy seen at two cells or not at all, cutoff 2, period 2 | 31 125 | objects fit for the search, nothing left of earlier moves, no collision, a target is found |
| `byte_stream` | 7 calls, 6 bytes out, 8 in, one interrupted call | 72 035 | refines `BytePipe`, sends once, loses nothing, ends, as long as no signal comes; with one, gives up on a live peer only in a read whose RECV has written outside its buffer |
| `session` | 2 troopers, 3 questions | 1 899 | step, alternation, one answer each, exits |
| `wire_format` | bytes of 5 bits, ints of 2 bytes, both byte orders | 207 169 | what is written is heard, both ways, on a little-endian machine; reading undoes writing on either |
| `visibility_table` | all maps up to 5 x 4, ints of 10 bits | 11 221 | the table is read whole and looked up right |
| `batch` | 2 games, each with 1 trooper, 1 question and any number of restarts; places 1 to 3 | 61 796 | restarts, waits, counters, one game at a time |
| `active_socket` | 2 descriptors, 4-bit ports, one signal | 64 818 | what `Open` promises (of a non-blocking socket: while no signal comes), the port, no handle without a socket or socket without a handle, but for a failed CLOSE and a second `Initialize` |
| `interrupted_send` | `byte_stream` with one call | - | a finding |
| `wire_big_endian` | `wire_format` on a big-endian machine | - | a finding |
| `batch_failed_game` | `batch` | - | a finding |

**Plan search.** The situations are a lone commander near a ration, a medic
with a medikit among hurt mates, a fight with one grenade in hand and one on
the way and both sides in the splash, a hungry scout, a medikit to
fetch, a wounded prone soldier lying on one, and a kneeling sniper. Between
them every branch is taken, including those that undo each other. Costs are of
the server's size, with a grenade cheap and short enough to matter on four
columns. In some situations every plan is shorter than the cutoff of 5, so that the search
is complete there; in others the trooper has points left when the recursion ends, and a
cutoff that comes a call early or late is noticed.
`OneOfEachPerPlan` needs a plan to meet a second grenade or ration, which the situations
have.

**Bounds elsewhere.** 3 x 3 has every local shape that matters to the table: detours
around a wall, unreachable corners, ties, the empty map. The corridor of twelve
cells is the shortest in which some cell is more than five steps from any
other, which the choice of a target needs; a FREE cell beyond a wall makes
unreachable targets occur. A cutoff of two there gives up to one action per plan, all
that one move of the game carries out. The script of `ByteStream` has reads of the same and
of another size in a row (the buffer kept, replaced), an empty read, and writes
that can be split twice. Two troopers and three questions are the least for an
answer to be credited to the wrong one and for a world after the first without cells.
The bytes of `wire_format` are narrower than the code's so that all the
integers of two of them can be written; five bits hold the greatest enum and coordinates of
the real map. Maps of unequal sides tell width from height in `visibility_table`; ints of 10 bits
hold the tables of the small maps and wrap on those of the large. Two games are the
least for a result to be taken for another game's. Ports of four bits have positive and
negative int16s, the one that is its own negative, and numbers that do not fit. Two
descriptors let one be left over from the other, or be overwritten by it. `MaxSent` bounds the bytes an endless resend sends, and is above what the
script writes; `MaxContexts`, `MaxInterrupts`,
`MaxGames`, `MaxSockets`, `MaxSignals` bound the environment.

`CHECK_DEADLOCK FALSE` is set where the system stops: the loops of `floyd`
end, the process exits, the scripts finish. In `plan_search` and `strategy` nothing
should stop (a returned search idles by an explicit step) and deadlock is checked.

### Fairness

Weak fairness of the program's own steps throughout: it is sequential and runs
on. Beyond it:

* `Strategy` assumes strong fairness of drawing an acceptable target. `rand()`
  from a fixed seed does not miss a reachable cell for ever; that there is one is
  a property of the map (see *Not modelled*).
* `ByteStream` assumes that a connected peer sends what the client waits for,
  as fairness of `Receive`. Nothing is assumed of signals.
* `Session`: the simulator answers while it is there. It may go away at any step, and
  nothing says that it does.
* `Batch`: the process and the scripts run; of the simulator nothing is assumed.
  `SlowSimulatorServed` and `EnteredGamesEnd` rest on that alone.
* `VisibilityTable`: what has arrived is read.

### Findings

* **`interrupted_send`.** `CSimpleSocket::Send` and `Receive` repeat a call that a signal
  interrupted by testing the error translated from `errno`, after calls that succeed
  too. A success does not reset `errno`, so after one interruption every later
  success looks interrupted: `Send` writes the same bytes again without end, against its
  comment at `SimpleSocket.cpp:403`; `Receive` writes what it gets one byte before its buffer, or behind it
(`SimpleSocket.cpp:763`), and blocks for more. What that does to the heap is undefined: `ExitsOnlyIfClosed`
has it as the one way the process can end inside a call with the peer still there.
  The program installs no signal handlers, so a call is interrupted only where it
  is built into one that does; `byte_stream` shows the transport right until then.
* **`wire_big_endian`.** The calls of `reverse` leave the last byte of an integer where it is. On
  a big-endian machine integers arrive as others, although `LITTLE_ENDIAN_BYTE_ORDER` is
  there to make it. Reading undoes writing all the same (`Loopback`), so the two
  tested against each other pass.
* **`batch_failed_game`.** `run.pl` counts a game that has left no place for us as one in
  which our strategy came first or second (`read.me` has the place in the strategy's line).

Oddities of the socket library that the models have and no run refutes: a `Close` that fails keeps the handle of a
descriptor that is gone; a second `Initialize` leaks the first descriptor; an interrupted `select` leaves its sets full,
so that a non-blocking `Open` may report a connection that is not made;
`m_bIsBlocking` survives `Close` although the next descriptor blocks; a name lookup that fails
other than with HOST_NOT_FOUND leaves the error code of the call before; `Shutdown` does not
look at its argument. The client uses none of them: it opens one blocking socket and
asks only whether that succeeded.

## Proofs

Eight modules hold the theorems, for all values of the constants that satisfy the
assumptions named below, which TLC evaluates on the instances of the runs. Every
module but `PlansProofs` goes the same way: an inductive invariant, `IInv`
(`BInv` for the scripts), one lemma per action that the action keeps it, and the properties from it.

| module | theorem | states |
|---|---|---|
| `PlanSearchProofs` | `TypeCorrect` | `[]TypeOK` |
| | `StackAlwaysPlan`, `FirstActionAlwaysLegal` | `[]StackIsPlan`, `[]FirstActionLegal` |
| | `OneOfEach` | `[]OneOfEachPerPlan` |
| | `ImplementsBestPlan` | `AnswersWithBestPlan`, the safety part of `BestPlan` |
| `StrategyProofs` | `TypeCorrect` | `[]TypeOK` |
| | `NothingStaysMarked`, `NobodyCollides` | `[]NothingLeftBehind`, `[]NoCollision` |
| | `SearchesCanStart` | `[]SearchCanStart` |
| | `ScoresAreOfWays` | the distances in the score of every plan are lengths of ways |
| | `ObjectsAreContexts` | what a search is given is what `PlanSearchProofs` assumes |
| `FloydProofs` | `TypeCorrect` | `[]TypeOK` |
| | `ShortestDistances` | `[]ShortestSoFar` |
| | `DistancesInTheEnd` | at the end every entry is the length of a shortest walk, or `inf` |
| | `TableInTheEnd` | at the end the table is what `Strategy` assumes |
| `SessionProofs` | `TypeCorrect` | `[]TypeOK` |
| | `AlwaysInStep`, `NeverDeadlocked` | `[]InStep`, `[]NeverBothWaiting` |
| | `OneAnswerToEach`, `SuccessIsGameOver` | `[]OneAnswerEach`, `[]SuccessMeansGameOver` |
| | `CountersStayTrue`, `ReportsTheGamePlayed` | `[]CountersAreTrue`, `[]ReportsOwnGame` |
| | `NobodyHeardTwice`, `NoTwoGames` | the action properties `RestartsOnlyUnheard`, `OneGameAtATime` |
| `ConnectionProofs` | `OwnsItsDescriptorAlways` | `[]OwnsItsDescriptor` |
| | `OpenIsConnected`, `PortIsReached` | `[]OpenMeansConnected`, `[]ReachesPort` |
| | `PeerHears`, `ClientHears` | `[]PeerHearsLittleEndian`, `[]ClientHearsLittleEndian` |
| | `ReadingUndoesWriting` | `[]Loopback` |
| `ByteStreamProofs` | `TypeCorrect` | `[]TypeOK` |
| | `SentOnceAndInOrder`, `NothingLost`, `ExitsOnlyIfPeerGone` | `[]SentOnceInOrder`, `[]NoneLost`, `[]ExitsOnlyIfClosed` |
| | `ImplementsBytePipe` | `IsBytePipe`, the refinement of `BytePipe` |
| `VisibilityTableProofs` | `IndexInTable`, `IndexUnique` | the index is a place in the table, and no other question's |
| | `LooksUpOwn`, `WholeGridRead` | `[]LooksUpOwnEntry`, `[]ReadsWholeGrid` |

**Plan search.** Assumed: `CutoffAssumption`, `GameAssumption`, `ContextAssumption` and
`RootScoreAssumption` of `Plans`: the cutoff is positive, costs and amounts are natural
numbers, an object is made of well-typed values and its trooper is a member of its own
team, and the empty plan scores above
the sentinel `-inf`. `ObjectsAreContexts` proves that every object of `Strategy` is such an object.
That the distances to the team add up to a number is proved (`MatesDistType`), the community modules'
fold unfolded by the least counterexample (`MatesDistAmong`). `TypeOK` is more than typing: points never go
negative, plans stand only on cells the trooper could enter, the stack is
never deeper than the cutoff.

Neither optimality nor legality is inductive. The
invariant `IInv` joins `TypeOK` and `StackIsPlan` with

* `Endpoints`: before `run()` nothing has been chosen, once it has returned the
  stack is empty;
* `OnTree`: every node on the stack is in the level of the plan tree its depth says;
* `Compared`: every node on the stack scores no more than `best_score`;
* `Attained`: `best_score` is the score of a node of the tree, `best_action` the
  first action of that node;
* `Covered`: there is a set of nodes, each with its level, none of which scores above
  `best_score`, that holds with a node its successors down to the cutoff, and holds every
  continuation an activation on the stack is through with; once `run()`
  has returned, the root;
* `BestPossible`: `best_action` is `EndTurn` or one of the root's candidates;
* `Remembered`: a `used_` flag, once set, is set in every later node of the plan, which is
  what `OneOfEach` rests on.

`Covered` is the heart: when an activation returns, its own node and the set
together are closed under successors again, and hold the continuation its caller
waits on. A set that is closed under successors and holds the root holds every level
(`ClosedCoversLevels` in `PlansProofs`): levels are a recursive function on
`1 .. MaxActionNumber`, and the proof goes by the least counterexample, with
`LeastNat`, since the library's induction theorems cannot be instantiated by
the provers available. Lemmas per action come in pairs: what the step does to the stack
(`TryShape`, `ReturnShape`, `RunShape`), and, conjunct by conjunct, that the
conjunct survives it (`OnTreeStep`, `ComparedStep`, ...).

**Strategy.** Assumed: the types of the constants and what `FloydProofs` proves of the table
(`StrategyAssumption`), where a team starts (`StartAssumption`), that a map's size and the number of enemies
keep the first score above the sentinel (`ScaleAssumption`; with 30 x 20 cells and 20 enemies, say, the sum is
less than a three-thousandth of it), and the cutoff and costs of `Plans`. `NoCollision` is not inductive: that a step is
onto a free cell was decided in an earlier state, from an object's copy of the cells. So `IInv` adds
that the client's cells were never written (`HeldUnmarked`), that the copy is marked exactly
where somebody stands (`NothingLeftBehind`, with `CellsCopied`), that an answer that is a
step leads to a cell nobody stands on (`StepIsFree`), and that the trooper it is for is alive
until it is carried out (`SelfAlive`). `FirstActions`, about plans in general, gives that a best plan that
starts with a move starts onto a cell that is FREE in the object's copy. `InOrderLists` gives the
order of the world meaning for a team of any size.

That mates stay within reach is an invariant too (`WithinReach`): a step leads to a FREE neighbour, so there
is a way back (`StepsThereAndBack`), and on to whoever could be reached before (`WaysJoin`). With it and the
target `run()` has not rejected (`TargetAccepted`) the distances of the first score are
at most the number of cells, their sum at most that for each mate (`MatesDistBound`), and the score above the
sentinel (`RootScore`). `PlansReachable` carries reach along a plan, move by move, to every node of the plan tree.

**Distances.** Assumed: the map has fewer cells than `inf`, 1e9 (the table itself has the square of
that). A walk is a function (`IsWalk`), and `IsShortest` says what a distance is without any
recursion; `ShortestIs` proves that the recursive `Shortest` of the run is that number. A shortest walk
visits no cell twice (`Cut`, `ShortWalk`), which bounds every entry by the number of cells.
`Divided` and `Concatenated` split and join walks at the turn's own point; from them `Through` says
what a turn of the outer loop should make of an entry, and `RowKept` that the entries to and from that
point, which the turn reads while it writes, are the same before and after. `IInv` describes the
table within a turn: what the inner loops have passed is as the turn leaves it, the rest as it found it.
Cells are passed in the order of `free_points`, which lists each FREE cell once (`FreePoints`).
`DistancesInTheEnd` states the outcome.

**Session.** Assumed: the team is not empty and the number of questions is a number. What the
properties say of one moment rests on all that was said before it: that the cells are read from the first
world only is right because they are sent in the first only, and that depends on how the two
count. `IInv` therefore has `Dialogue`, which says, for every call `run()` can be about to
make, which states the simulator can be in and what each channel holds then, failures of the
simulator at any point included; `Turns`, how many questions are unanswered; and `SimulatorOK`, that the
answers received are those of the questions asked.

**Batch.** Assumed: the session's assumption, places are positive. `BInv` is the session's
invariant (a game is one, and the next begins where it begins) with `HarnessOK`, who of the three
processes can still run; `ResultsOK`, that the file says what the game of the moment has come to
once its simulator has gone; and the counters' properties. `RefusedCode` has the 8 bits of an exit code: of
all codes of the client only that of a refused connection leaves 17.

**Connecting.** Assumed: `Half` is a positive number. `IInv` adds to the properties which descriptors there can have
been and that the handle is one of them (`Handles`, with the two exceptions `OwnsItsDescriptor` names), in which state a connection is that a call waits for (`Waits`), and
which port the descriptor is for (`Ports16`). `PortSurvives` is the arithmetic of the cast.

**Wire format.** Assumed: a byte has an even number of values, an int at least one byte, and every field
holds a value of its type (`FieldsAssumption`); a string's length is an int. The
invariant `WInv` says which bytes are on their way in each direction: those of the fields sent and not yet
taken (`InOrder`, over the recursive `Run`). That a reader takes exactly one field
(`FieldAtHead`) rests on `BackFromDigits`: the bytes of an integer, read as digits from the lowest, stand for
it and no other of its size. `SumOfDigits` is the induction, by the least counterexample again, over division
with remainders (`DivisionUnique`, `DivideTwice`). `Recursion` gives the recursive functions of the
model the values they are meant to have. `OffUndoesOn` needs no peer: both reversals are their own inverses.

**Byte transport.** Assumed: the script is a sequence of reads and writes, the peer's bytes are
numbers, and what a new buffer holds is not taken for one. `IInv` joins `TypeOK` with `Looping` (a
loop runs only while something is left), `ErrnoTruthful` (errno says EINTR only if a signal has come),
`Received` (what was returned and copied is, byte by byte, what the peer has sent, and
Receive starts at the first byte of its buffer), `Damage` (RECV writes outside the buffer only after a
signal and in a read, and from then on errno keeps Receive in its loop until the process ends),
`SentOnceInOrder` and `ExitsOnlyIfClosed`. So `ExitsOnlyIfPeerGone` holds with any number of signals: a write
never gives up on a live peer, a read does so only by that damage. For the
refinement every step is of one of three kinds (`StepKinds`): no call returns, the process ends inside a
call, or a call returns. `ReturnFinishes` shows that a call that returns has sent and
got what one step of `BytePipe` does. Like the run, the refinement speaks of behaviours while no
signal has come; after one, it is refuted by `interrupted_send`.

**Map message.** Assumed: widths and heights are natural numbers, `IntLimit` is positive; the
properties are about tables whose size fits an int. `IndexByDigits` reads the index
`isVisible` computes as a number of five digits, and `DigitsUnique` makes it one question's.
That the message has the entry there is the other half: nested loops of equal turns put the parts one
behind the other (`LoopEven`, `EntriesInOrder`, `ColumnsInOrder`). `IInv` says at every
step of the reading which columns and sizes were read and what is left of the message
(`Unread`, `Remaining`).

**Only model-checked.**

* Liveness (`Answers`, `Decides`, `Finishes`, `EndsWhenAlone`, `Concludes`, `SlowSimulatorServed`,
  `EnteredGamesEnd`): fairness and ENABLED are beyond the prover.
* The three violations.

## Not modelled

* **Rooms without a far cell.** If from some place no reachable cell is more
  than five steps away, `run()`'s loop never ends. The simulator's maps have
  such cells everywhere; `MCStrategy` assumes one.
* **Bonuses over a whole game.** In `Strategy` enemies come, move and go and troopers
  die, but there are no bonuses: its properties are about what an object inherits.
  `plan_search` has them, for one move.
* **Overflow of `int` in scores and distances.** Numbers keep their width where the code is
  exposed to them from outside: integers on the wire, the size of the table, the port.
* **`Trooper::getDamage` of a stance that is none of the three** exits with 10030 (`Trooper.cpp:105`). This
  code is not among those of `Session`: the simulator is trusted to send one of the three, and what the
  shell makes of 10030, 46, is not the code `run-once.pl` restarts on.
* **A team index out of range**: the simulator is trusted to send indices below the
  team size.
* **Server sockets, SendFile, UDP, multicast, socket options, timers**: library code
  nothing calls. Of what the library does for a client, `ConnectUDP` and `ConnectRAW`,
  and the UDP branches of `Send` and `Receive`, are left out for the same reason.
* **`random-map.pl`, the choice of maps and the percentages of `run.pl`, the Makefile, debug
  output**: no state.
* **The simulator** has no source here; its part of `Session`, `WireFormat`,
  `VisibilityTable` and `Batch` is what the client and `read.me` expect.

## Plan

Written so far, in this order: the search (`Battlefield`, `Plans`, `PlanSearch`,
`BestPlan`) with its proofs, because the decision is what the program is for;
`Floyd` and `Strategy`, on which its assumptions rest; `ByteStream`/`BytePipe`;
`Session`; `Harness`; then the data on the wire (`WireFormat`, `VisibilityTable`), the
batch scripts around `Harness` (`Batch`), and the socket below `Session`'s first step
(`ActiveSocket`). `Session` relies on `BytePipe`, `Harness` composes with
`Session`, `Batch` with `Harness`, `Strategy` with `BestPlan`.

Then the proofs: of the search first, of the session and the scripts around it, of the
strategy object, the socket, the transport, the map message and the table of distances, and of the
wire format.
