--------------------------------- MODULE Session ---------------------------------
(***************************************************************************)
(* One MyStrategy process and the game simulator it plays in: Runner::run  *)
(* and the messages of RemoteProcessClient, over the transport of          *)
(* ByteStream (whole messages in order, until one end goes away).          *)
(*                                                                         *)
(* A step of the client is one call run() makes.  The simulator is not in  *)
(* the repository; it is modelled from what the client expects of it: it   *)
(* greets, then asks for one move at a time, and sends the cells and their *)
(* visibilities with the first question only.  It may be late, send a      *)
(* message one of the client's checks refuses, or go away.                 *)
(***************************************************************************)
EXTENDS Integers, Sequences

CONSTANTS
    TeamSize,       \* troopers of the team
    MaxContexts     \* bound: moves the simulator asks for

ASSUME SessionAssumption == TeamSize \in Nat \ {0} /\ MaxContexts \in Nat

VARIABLES
    pc,             \* the call run() makes next
    cells,          \* TRUE once the client holds cells and cellVisibilities
    strategies,     \* how many strategy objects run() has created
    context,        \* the PlayerContext being answered
    exit_code,      \* of the process, once pc = "exited"
    simulator,      \* what the simulator does next
    asked,          \* the troopers it has asked a move of, in order
    answers,        \* the moves it has received
    to_client,      \* messages on their way
    to_simulator

client == <<pc, cells, strategies, context, exit_code>>
server == <<simulator, asked, answers>>
vars   == <<client, server, to_client, to_simulator>>

(* What a check of the client can find wrong with a message, in the order  *)
(* it reads it, and the code it exits with.                                *)
ExitCode ==
    [ wrongType |-> 10011, noGame |-> 10017, noTrooper |-> 10006,
      noWorld |-> 10002, playerCount |-> 10003, noPlayer |-> 10004,
      nameLength |-> 10014, trooperCount |-> 10005, bonusCount |-> 10009,
      noBonus |-> 10010, width |-> 10007, height |-> 10008,
      worldWidth |-> 10018, worldHeight |-> 10019, stanceCount |-> 10020 ]

GridFlaws == {"width", "height", "worldWidth", "worldHeight", "stanceCount"}
GameFlaws == {"noGame"}
WorldFlaws == DOMAIN ExitCode \ (GridFlaws \union GameFlaws \union {"wrongType"})

ConnectionRefused == 10001
SendFailed        == 10013
Killed            == -1

(* Mutant: a stream that ends early is taken for the end of the game.      *)
StreamEndedQuietly == 0

StreamEnded == 10012

(* A message of the simulator: grid says whether the world in it carries   *)
(* its cells, present is the boolean readPlayerContext asks for first.     *)
Message(type, flaw, present, grid, index, id) ==
    [ type |-> type, flaw |-> flaw, present |-> present, grid |-> grid,
      teammateIndex |-> index, id |-> id ]

Plain(type, flaw) == Message(type, flaw, TRUE, FALSE, 0, 0)

NoContext == Plain("NONE", "none")

ClientInit ==
    /\ pc = "connect" /\ cells = FALSE /\ strategies = 0
    /\ context = NoContext /\ exit_code = 0

Init ==
    /\ ClientInit
    /\ simulator = "starting" /\ asked = << >> /\ answers = << >>
    /\ to_client = << >> /\ to_simulator = << >>

(* "left" after it has ended the game, "gone" if it failed before.         *)
Gone == simulator \in {"left", "gone"}
----------------------------------------------------------------------------------
(* The client *)

Exit(code) ==
    /\ pc' = "exited" /\ exit_code' = code
    /\ UNCHANGED <<cells, strategies, context>>

(* RemoteProcessClient's constructor                                       *)
Connect ==
    /\ pc = "connect"
    /\ IF simulator = "listening"
       THEN pc' = "writeToken" /\ UNCHANGED <<cells, strategies, context, exit_code>>
       ELSE Exit(ConnectionRefused)
    /\ UNCHANGED <<server, to_client, to_simulator>>

(* A message is sent whole; if the simulator has gone it is lost, or the   *)
(* send fails, or SIGPIPE ends the process.                                *)
Write(at, message, next) ==
    /\ pc = at
    /\ \/ /\ pc' = next /\ UNCHANGED <<cells, strategies, exit_code>>
          /\ context' = NoContext
          /\ to_simulator' = IF Gone THEN to_simulator
                             ELSE Append(to_simulator, message)
       \/ /\ Gone
          /\ Exit(SendFailed) \/ Exit(Killed)
          /\ UNCHANGED to_simulator
    /\ UNCHANGED <<server, to_client>>

WriteToken == Write("writeToken", [type |-> "AUTHENTICATION_TOKEN"], "readTeamSize")

WriteProtocolVersion ==
    Write("writeProtocolVersion", [type |-> "PROTOCOL_VERSION"],
          "readGameContext")

(* Mutant: the object of the first trooper decides for all.                *)
DecisionOfFirst == [type |-> "MOVE", id |-> context.id, strategy |-> 0]

(* strategies[teammateIndex] decides; the Move is tagged with the context  *)
(* it answers and the object that made it.                                 *)
Decision ==
    [type |-> "MOVE", id |-> context.id, strategy |-> context.teammateIndex]

(* Mutant: a move that is the same as the one before is not sent.          *)
WriteMoveOnChange ==
    \/ Write("writeMove", Decision, "readPlayerContext")
    \/ /\ pc = "writeMove" /\ answers # << >>
       /\ pc' = "readPlayerContext" /\ context' = NoContext
       /\ UNCHANGED <<cells, strategies, exit_code, server, to_client,
                      to_simulator>>

WriteMove == Write("writeMove", Decision, "readPlayerContext")

(* Mutant: every world is taken to carry its cells.                        *)
ReadsGridAlways == TRUE

(* readCells and readCellVisibilities read only if nothing is held yet.    *)
ReadsGrid == ~cells

(* Reading waits until all the bytes it asks for are there: cells that the *)
(* message does not carry would have to come from later messages, and      *)
(* those it carries but the client does not ask for stay in the stream.    *)
Received == Head(to_client)

IsWorld == Received.type = "PLAYER_CONTEXT" /\ Received.present

Readable == to_client # << >> /\ (IsWorld /\ ReadsGrid => Received.grid)

Incoming(at) == pc = at /\ Readable

Unread ==
    IF IsWorld /\ Received.grid /\ ~ReadsGrid
    THEN << [Received EXCEPT !.type = "CELLS"] >> ELSE << >>

Take ==
    /\ to_client' = Unread \o Tail(to_client)
    /\ UNCHANGED <<server, to_simulator>>

ReadTeamSize ==
    /\ Incoming("readTeamSize") /\ Take
    /\ IF Received.type = "TEAM_SIZE"
       THEN pc' = "writeProtocolVersion" /\ UNCHANGED <<cells, strategies, context, exit_code>>
       ELSE Exit(ExitCode["wrongType"])

(* Mutant: the loop of run() counts up to teamSize.                        *)
CreatedOneMore == TeamSize + 1

(* The objects run() creates, one per trooper.                             *)
Created == TeamSize

ReadGameContext ==
    /\ Incoming("readGameContext") /\ Take
    /\ IF Received.type # "GAME_CONTEXT" THEN Exit(ExitCode["wrongType"])
       ELSE IF Received.flaw # "none" THEN Exit(ExitCode[Received.flaw])
       ELSE /\ pc' = "readPlayerContext"
            /\ strategies' = Created
            /\ UNCHANGED <<cells, context, exit_code>>

(* readPlayerContext: GAME_OVER, or a context that is not present, ends    *)
(* the game.                                                               *)
ReadPlayerContext ==
    /\ Incoming("readPlayerContext") /\ Take
    /\ IF Received.type \notin {"GAME_OVER", "PLAYER_CONTEXT"}
       THEN Exit(ExitCode["wrongType"])
       ELSE IF Received.type = "GAME_OVER" \/ ~Received.present
       THEN pc' = "finish" /\ UNCHANGED <<cells, strategies, context, exit_code>>
       ELSE IF Received.flaw # "none" THEN Exit(ExitCode[Received.flaw])
       ELSE /\ pc' = "writeMove" /\ context' = Received /\ cells' = TRUE
            /\ UNCHANGED <<strategies, exit_code>>

Reading == {"readTeamSize", "readGameContext", "readPlayerContext"}

(* Mutant: readBytes goes on reading at the end of the stream.             *)
StreamEndsUnnoticed ==
    pc \in Reading /\ ~Readable /\ Gone /\ UNCHANGED vars

(* readBytes runs out of bytes: exit(10012).                               *)
StreamEnds ==
    /\ pc \in Reading /\ ~Readable /\ Gone
    /\ Exit(StreamEnded)
    /\ UNCHANGED <<server, to_client, to_simulator>>

(* run() deletes its strategies and main returns 0.                        *)
Finish ==
    /\ pc = "finish"
    /\ pc' = "exited" /\ exit_code' = 0 /\ strategies' = 0
    /\ UNCHANGED <<cells, context, server, to_client, to_simulator>>

Client ==
    \/ Connect \/ WriteToken \/ ReadTeamSize \/ WriteProtocolVersion
    \/ ReadGameContext \/ ReadPlayerContext \/ WriteMove \/ StreamEnds
    \/ Finish

----------------------------------------------------------------------------------
(* The simulator (external) *)

Listen ==
    /\ simulator = "starting" /\ simulator' = "listening"
    /\ UNCHANGED <<client, asked, answers, to_client, to_simulator>>

Await(at, type) ==
    /\ simulator = at /\ to_simulator # << >>
    /\ Head(to_simulator).type = type
    /\ to_simulator' = Tail(to_simulator)

SendTeamSize ==
    /\ Await("listening", "AUTHENTICATION_TOKEN")
    /\ simulator' = "greeted"
    /\ \E type \in {"TEAM_SIZE", "UNKNOWN_MESSAGE"} :
          to_client' = Append(to_client, Plain(type, "none"))
    /\ UNCHANGED <<client, asked, answers>>

SendGameContext ==
    /\ Await("greeted", "PROTOCOL_VERSION")
    /\ simulator' = "playing"
    /\ \E type \in {"GAME_CONTEXT", "UNKNOWN_MESSAGE"},
          flaw \in GameFlaws \union {"none"} :
          to_client' = Append(to_client, Plain(type, flaw))
    /\ UNCHANGED <<client, asked, answers>>

(* The troopers of the team are asked in turn, one move at a time.         *)
SendPlayerContext ==
    /\ simulator = "playing" /\ Len(asked) < MaxContexts
    /\ simulator' = "awaiting"
    /\ LET grid == asked = << >>
       IN  \E type \in {"PLAYER_CONTEXT", "UNKNOWN_MESSAGE"},
              index \in 0 .. TeamSize - 1,
              flaw \in WorldFlaws \union {"none"}
                         \union (IF grid THEN GridFlaws ELSE {}) :
             /\ asked' = Append(asked, index)
             /\ to_client' = Append(to_client,
                   Message(type, flaw, TRUE, grid, index, Len(asked) + 1))
    /\ UNCHANGED <<client, answers, to_simulator>>

ReceiveMove ==
    /\ Await("awaiting", "MOVE")
    /\ simulator' = "playing"
    /\ answers' = Append(answers, Head(to_simulator))
    /\ UNCHANGED <<client, asked, to_client>>

SendGameOver ==
    /\ simulator = "playing"
    /\ simulator' = "over"
    /\ \E m \in {Plain("GAME_OVER", "none"),
                 Message("PLAYER_CONTEXT", "none", FALSE, FALSE, 0, 0)} :
          to_client' = Append(to_client, m)
    /\ UNCHANGED <<client, asked, answers, to_simulator>>

(* It ends: at the end of the game, or when its client has left, or        *)
(* because it fails.  What it has not got out of its buffers is lost.      *)
GoAway ==
    /\ ~Gone
    /\ simulator' = IF simulator = "over" THEN "left" ELSE "gone"
    /\ \E n \in 0 .. Len(to_client) : to_client' = SubSeq(to_client, 1, n)
    /\ UNCHANGED <<client, asked, answers, to_simulator>>

Simulator ==
    \/ Listen \/ SendTeamSize \/ SendGameContext \/ SendPlayerContext
    \/ ReceiveMove \/ SendGameOver

Next == Client \/ Simulator \/ GoAway

(* The client's process runs.  Of the simulator nothing is assumed but     *)
(* that it answers while it is there.                                      *)
Spec == Init /\ [][Next]_vars /\ WF_vars(Client) /\ WF_vars(Simulator)
----------------------------------------------------------------------------------
(* Properties *)

(* The variables keep their types, and strategy objects exist exactly from *)
(* the game context to the end.                                            *)
TypeOK ==
    /\ pc \in Reading \union {"connect", "writeToken", "writeProtocolVersion",
                              "writeMove", "finish", "exited"}
    /\ cells \in BOOLEAN
    /\ strategies \in {0, TeamSize}
    /\ pc \in {"readPlayerContext", "writeMove"} => strategies = TeamSize
    /\ pc = "writeMove" <=> context # NoContext /\ pc # "exited"
    /\ exit_code \in {0, ConnectionRefused, StreamEnded, SendFailed, Killed}
                       \union {ExitCode[f] : f \in DOMAIN ExitCode}
    /\ asked \in Seq(0 .. TeamSize - 1) /\ Len(asked) <= MaxContexts

(* The client reads the cells of a world exactly when it carries them:     *)
(* otherwise every later byte of the session would be taken for another.   *)
InStep ==
    pc = "readPlayerContext" /\ to_client # << >> /\ IsWorld
    => Received.grid = ReadsGrid

(* The client and the simulator never wait for each other: while both run, *)
(* one of them has something to read or something to do.                   *)
NeverBothWaiting ==
    ~ /\ pc \in Reading /\ ~Readable
      /\ simulator \in {"listening", "greeted", "awaiting"} /\ to_simulator = << >>

(* The k-th move answers the k-th question and is made by the object of    *)
(* the trooper it was asked for, and no question is asked before the last  *)
(* one has its answer.                                                     *)
OneAnswerEach ==
    /\ \A k \in DOMAIN answers :
          answers[k] = [type |-> "MOVE", id |-> k, strategy |-> asked[k]]
    /\ Len(asked) - Len(answers) \in {0, 1}
    /\ simulator = "playing" => Len(asked) = Len(answers)

(* The process reports success only if the simulator has ended the game,   *)
(* never because the simulator failed: Runner::run returns on GAME_OVER or *)
(* an absent context alone, every other way out is an exit of the client.  *)
SuccessMeansGameOver ==
    pc = "exited" /\ exit_code = 0 => simulator \in {"over", "left"}

(* The process ends once the simulator has gone.                           *)
EndsWhenAlone == Gone ~> pc = "exited"
==================================================================================
