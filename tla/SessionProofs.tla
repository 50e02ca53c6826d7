------------------------------ MODULE SessionProofs ------------------------------
(***************************************************************************)
(* What holds of every session, whatever the team and the length of the    *)
(* game: the client and the simulator stay in step.                        *)
(*                                                                         *)
(* None of the properties is inductive: that a message is the one its      *)
(* reader expects rests on everything the two ends have done before.  The  *)
(* inductive invariant says, for each call run() can be about to make,     *)
(* what the simulator is doing and what is on its way in each direction.   *)
(* It holds as well of every process that run-once.pl starts, and of the   *)
(* scripts over run-once.pl (Batch), whatever the number of games: the     *)
(* file they read is the one of the game they have played.                 *)
(***************************************************************************)
EXTENDS Batch, SequenceTheorems, FiniteSetTheorems, TLAPS

(* What the simulator sends, by the reader of RemoteProcessClient that     *)
(* takes it: readTeamSize, readGameContext, readPlayerContext.             *)
AnyFlaw   == DOMAIN ExitCode \union {"none"}
Greetings == {Plain(type, "none") : type \in {"TEAM_SIZE", "UNKNOWN_MESSAGE"}}
Openings  == {Plain(type, flaw) : type \in {"GAME_CONTEXT", "UNKNOWN_MESSAGE"},
                                  flaw \in GameFlaws \union {"none"}}

(* A question about a trooper, and the last one asked.                     *)
QuestionsAbout(index, id, grid) ==
    [ type : {"PLAYER_CONTEXT", "UNKNOWN_MESSAGE"}, flaw : AnyFlaw,
      present : {TRUE}, grid : {grid}, teammateIndex : {index}, id : {id} ]

(* The last question asked; the first carries the grid.                    *)
Questions == QuestionsAbout(asked[Len(asked)], Len(asked), Len(asked) = 1)

(* What ends the game.                                                     *)
Endings == {Plain("GAME_OVER", "none"),
            Message("PLAYER_CONTEXT", "none", FALSE, FALSE, 0, 0)}

(* Channels that hold one message, and two.                                *)
Only(S)    == {<<m>> : m \in S}
Both(S, T) == {<<m, n>> : m \in S, n \in T}

(* What the client sends.                                                  *)
Token   == [type |-> "AUTHENTICATION_TOKEN"]
Version == [type |-> "PROTOCOL_VERSION"]
AnswerTo(k) == [type |-> "MOVE", id |-> k, strategy |-> asked[k]]

(* The game has not begun.                                                 *)
NothingAsked == asked = << >> /\ answers = << >>

(* Nobody has heard of the client.                                         *)
Unheard ==
    /\ simulator \in {"starting", "listening", "gone"}
    /\ NothingAsked /\ to_client = << >> /\ to_simulator = << >>

(* readTeamSize: the token is on its way, or the team size is.             *)
AwaitsTeamSize ==
    /\ NothingAsked
    /\ \/ /\ simulator = "listening"
          /\ to_client = << >> /\ to_simulator = <<Token>>
       \/ /\ simulator = "greeted"
          /\ to_client \in Only(Greetings) /\ to_simulator = << >>
       \/ /\ simulator = "gone"
          /\ to_client \in {<< >>} \union Only(Greetings)

(* writeProtocolVersion: both channels are empty.                          *)
HasTeamSize ==
    /\ NothingAsked /\ to_client = << >>
    /\ \/ simulator = "greeted" /\ to_simulator = << >>
       \/ simulator = "gone"

(* The simulator does not wait for the game context to be read: its first  *)
(* question, or the end of the game, may follow at once.                   *)
AwaitsGame ==
    /\ cells = FALSE /\ answers = << >>
    /\ \/ /\ simulator = "greeted" /\ asked = << >>
          /\ to_client = << >> /\ to_simulator = <<Version>>
       \/ /\ simulator = "playing" /\ asked = << >>
          /\ to_client \in Only(Openings) /\ to_simulator = << >>
       \/ /\ simulator = "awaiting" /\ Len(asked) = 1
          /\ to_client \in Both(Openings, Questions) /\ to_simulator = << >>
       \/ /\ simulator = "over" /\ asked = << >>
          /\ to_client \in Both(Openings, Endings) /\ to_simulator = << >>
       \/ /\ simulator = "gone"
          /\ \/ to_client \in {<< >>} \union Only(Openings)
             \/ Len(asked) = 1 /\ to_client \in Both(Openings, Questions)
       \/ /\ simulator = "left"
          /\ to_client \in {<< >>} \union Only(Openings)
                             \union Both(Openings, Endings)

(* A question carries the grid exactly if it is the first.                 *)
QuestionComes ==
    /\ asked # << >> /\ to_client \in Only(Questions)
    /\ cells <=> Len(asked) # 1

(* readPlayerContext: a move, a question or the game's end is on its way.  *)
InGame ==
    \/ /\ simulator = "playing" /\ (cells <=> asked # << >>)
       /\ to_client = << >> /\ to_simulator = << >>
    \/ simulator = "awaiting" /\ QuestionComes /\ to_simulator = << >>
    \/ /\ simulator = "awaiting" /\ cells
       /\ to_client = << >> /\ to_simulator = <<AnswerTo(Len(asked))>>
    \/ /\ simulator = "over"
       /\ to_client \in Only(Endings) /\ to_simulator = << >>
    \/ simulator = "gone" /\ (to_client = << >> \/ QuestionComes)
    \/ /\ simulator = "left"
       /\ to_client \in {<< >>} \union Only(Endings)

(* writeMove: the context held is the question last asked.                 *)
HasQuestion ==
    /\ cells /\ context \in Questions /\ asked # << >> /\ to_client = << >>
    /\ \/ simulator = "awaiting" /\ to_simulator = << >>
       \/ simulator = "gone"

(* finish: the game is over and nothing is on its way.                     *)
Ended ==
    /\ to_client = << >>
    /\ \/ simulator = "over" /\ to_simulator = << >>
       \/ simulator = "left"

(* The exit code tells how far the session came.                           *)
HasExited ==
    /\ ~Gone => to_simulator = << >>
    /\ exit_code = ConnectionRefused => Unheard
    /\ exit_code = 0 => simulator \in {"over", "left"}

(* Each call of run() finds the simulator and the channels as it expects.  *)
Dialogue ==
    /\ pc = "connect" => Unheard /\ cells = FALSE
    /\ pc = "writeToken" => Unheard /\ simulator # "starting" /\ cells = FALSE
    /\ pc = "readTeamSize" => AwaitsTeamSize /\ cells = FALSE
    /\ pc = "writeProtocolVersion" => HasTeamSize /\ cells = FALSE
    /\ pc = "readGameContext" => AwaitsGame
    /\ pc = "readPlayerContext" => InGame
    /\ pc = "writeMove" => HasQuestion
    /\ pc = "finish" => Ended
    /\ pc = "exited" => HasExited

(* How many questions have an answer.                                      *)
Turns ==
    /\ simulator \in {"starting", "listening", "greeted"} => NothingAsked
    /\ simulator \in {"playing", "over", "left"} => Len(asked) = Len(answers)
    /\ simulator = "awaiting" => Len(asked) = Len(answers) + 1
    /\ simulator = "gone" => Len(asked) - Len(answers) \in {0, 1}

(* The answers.                                                            *)
Moves == [type : {"MOVE"}, id : Nat, strategy : 0 .. TeamSize - 1]

(* The simulator has received the answers of its questions, in order.      *)
SimulatorOK ==
    /\ simulator \in {"starting", "listening", "greeted", "playing", "awaiting",
                      "over", "left", "gone"}
    /\ answers \in Seq(Moves)
    /\ \A k \in DOMAIN answers : answers[k] = AnswerTo(k)

(* The inductive invariant.                                                *)
IInv == TypeOK /\ SimulatorOK /\ Turns /\ Dialogue
--------------------------------------------------------------------------------
(* Sequences of one and two messages *)

(* Putting a message into a channel that is empty or holds one, and taking *)
(* one out of it.                                                          *)
LEMMA Channels ==
    ASSUME NEW m, NEW n
    PROVE  /\ Append(<< >>, m) = <<m>> /\ Append(<<m>>, n) = <<m, n>>
           /\ Head(<<m>>) = m /\ Head(<<m, n>>) = m
           /\ Tail(<<m>>) = << >> /\ Tail(<<m, n>>) = <<n>>
           /\ << >> \o << >> = << >> /\ << >> \o <<m>> = <<m>>
           /\ <<m>> # << >> /\ <<m, n>> # << >>
<1>. DEFINE S == {m, n}
<1>1. <<m>> \in Seq(S) /\ <<m, n>> \in Seq(S) /\ Len(<<m>>) = 1 /\ Len(<<m, n>>) = 2
  OBVIOUS
<1>2. /\ Append(<<m>>, n) \in Seq(S) /\ Len(Append(<<m>>, n)) = 2
      /\ \A i \in 1 .. 2 : Append(<<m>>, n)[i] = <<m, n>>[i]
  BY <1>1, AppendProperties
<1>. HIDE DEF S
<1>3. Append(<<m>>, n) = <<m, n>>
  BY <1>1, <1>2, SeqEqual
<1>4. Append(<< >>, m) = <<m>>
  OBVIOUS
<1>5. Head(<<m>>) = m /\ Head(<<m, n>>) = m
  OBVIOUS
<1>6. Tail(<<m>>) = << >>
  OBVIOUS
<1>7. Tail(<<m, n>>) = <<n>>
  OBVIOUS
<1>8. <<m>> # << >> /\ <<m, n>> # << >>
  OBVIOUS
<1>9. << >> \o << >> = << >> /\ << >> \o <<m>> = <<m>>
  BY <1>1, EmptySeq, ConcatEmptySeq
<1>. QED BY <1>3, <1>4, <1>5, <1>6, <1>7, <1>8, <1>9

(* What is left of a channel when its sender goes away.                    *)
LEMMA Prefixes ==
    ASSUME NEW m, NEW n
    PROVE  /\ \A i \in 0 .. Len(<< >>) : SubSeq(<< >>, 1, i) = << >>
           /\ \A i \in 0 .. Len(<<m>>) : SubSeq(<<m>>, 1, i) \in {<< >>, <<m>>}
           /\ \A i \in 0 .. Len(<<m, n>>) :
                 SubSeq(<<m, n>>, 1, i) \in {<< >>, <<m>>, <<m, n>>}
<1>. DEFINE S == {m, n}
<1>1. <<m>> \in Seq(S) /\ <<m, n>> \in Seq(S) /\ Len(<<m>>) = 1 /\ Len(<<m, n>>) = 2
  OBVIOUS
<1>2. SubSeq(<<m>>, 1, 0) = << >> /\ SubSeq(<<m, n>>, 1, 0) = << >>
  BY SubSeqEmpty
<1>3. SubSeq(<<m>>, 1, 1) = <<m>> /\ SubSeq(<<m, n>>, 1, 2) = <<m, n>>
  BY <1>1, SubSeqFull
<1>4. SubSeq(<<m, n>>, 1, 1) = <<m>>
  <2>1. SubSeq(<<m, n>>, 1, 1) = << <<m, n>>[1] >> \o SubSeq(<<m, n>>, 2, 1)
    BY <1>1, SubSeqRecursiveFirst
  <2>2. SubSeq(<<m, n>>, 2, 1) = << >>
    BY SubSeqEmpty
  <2>3. <<m>> \o << >> = <<m>>
    BY <1>1, ConcatEmptySeq
  <2>4. <<m, n>>[1] = m
    OBVIOUS
  <2>. QED BY <2>1, <2>2, <2>3, <2>4
<1>5. \A i \in 0 .. Len(<< >>) : SubSeq(<< >>, 1, i) = << >>
  OBVIOUS
<1>. QED BY <1>1, <1>2, <1>3, <1>4, <1>5
--------------------------------------------------------------------------------
(* Init, and what each action keeps *)

(* A session begins in step.                                               *)
LEMMA InitInv == Init => IInv
<1>. SUFFICES ASSUME Init PROVE IInv
  OBVIOUS
<1>1. TypeOK
  <2>1. asked \in Seq(0 .. TeamSize - 1) /\ Len(asked) <= MaxContexts
    BY SessionAssumption, EmptySeq DEF Init
  <2>2. context = NoContext /\ pc = "connect"
    BY DEF Init, ClientInit
  <2>. QED BY <2>1, <2>2 DEF Init, ClientInit, TypeOK, Reading
<1>2. SimulatorOK /\ Turns
  BY DEF Init, SimulatorOK, Turns, NothingAsked
<1>3. Dialogue
  BY DEF Init, ClientInit, Dialogue, Unheard, NothingAsked
<1>. QED BY <1>1, <1>2, <1>3 DEF IInv

(* A step of the client leaves the simulator's own state alone.            *)
LEMMA SimulatorKept ==
    SimulatorOK /\ Turns /\ UNCHANGED server => SimulatorOK' /\ Turns'
BY DEF SimulatorOK, Turns, NothingAsked, server, AnswerTo

(* An exit with a code of the list keeps the types.                        *)
LEMMA ExitTypes ==
    ASSUME TypeOK, UNCHANGED server,
           NEW code \in {ConnectionRefused, StreamEnded, SendFailed, Killed}
                          \union {ExitCode[f] : f \in DOMAIN ExitCode},
           Exit(code)
    PROVE  TypeOK'
BY DEF TypeOK, Exit, server, Reading

(* The codes of the checks are none of the others.                         *)
LEMMA Codes ==
    /\ \A f \in DOMAIN ExitCode : ExitCode[f] \notin {0, ConnectionRefused}
    /\ StreamEnded \notin {0, ConnectionRefused}
    /\ SendFailed \notin {0, ConnectionRefused}
    /\ Killed \notin {0, ConnectionRefused}
BY DEF ExitCode, ConnectionRefused, StreamEnded, SendFailed, Killed

(* The constructor of RemoteProcessClient.                                 *)
LEMMA ConnectInv == IInv /\ Connect => IInv'
<1>. SUFFICES ASSUME IInv, Connect PROVE IInv'
  OBVIOUS
<1>. USE DEF IInv, Connect
<1>1. Unheard
  BY DEF Dialogue
<1>2. UNCHANGED <<server, to_client, to_simulator, cells, strategies, context>>
  BY DEF Exit
<1>3. TypeOK'
  BY <1>2 DEF TypeOK, Exit, server, Reading
<1>4. SimulatorOK' /\ Turns'
  BY <1>2, SimulatorKept
<1>5. Dialogue'
  BY <1>1, <1>2 DEF Dialogue, Unheard, NothingAsked, server, Exit, HasExited,
        ConnectionRefused, Gone
<1>. QED BY <1>3, <1>4, <1>5

(* writeToken *)
LEMMA WriteTokenInv == IInv /\ WriteToken => IInv'
<1>. SUFFICES ASSUME IInv, WriteToken PROVE IInv'
  OBVIOUS
<1>. USE DEF IInv, WriteToken, Write
<1>1. pc = "writeToken" /\ Unheard /\ simulator \in {"listening", "gone"}
        /\ cells = FALSE
  BY DEF Dialogue, Unheard
<1>2. SimulatorOK' /\ Turns'
  BY SimulatorKept
<1>3. CASE pc' = "readTeamSize"
  <2>1. TypeOK'
    BY <1>1, <1>3 DEF TypeOK, Reading, server, Exit
  <2>2. to_client' = << >> /\ cells' = FALSE /\ UNCHANGED server
    BY <1>1, <1>3 DEF Unheard, Exit
  <2>3. Gone \/ to_simulator' = <<Token>>
    BY <1>1, <1>3, Channels DEF Unheard, Token, Exit
  <2>4. Dialogue'
    BY <1>1, <1>3, <2>2, <2>3
       DEF Dialogue, AwaitsTeamSize, Unheard, NothingAsked, server, Gone
  <2>. QED BY <1>2, <2>1, <2>4
<1>4. CASE Gone /\ (Exit(SendFailed) \/ Exit(Killed))
  <2>1. TypeOK'
    BY <1>4, ExitTypes
  <2>2. Dialogue'
    BY <1>1, <1>4, Codes DEF Dialogue, Exit, HasExited, Gone, server
  <2>. QED BY <1>2, <2>1, <2>2
<1>. QED BY <1>3, <1>4

(* writeProtocolVersion *)
LEMMA WriteProtocolVersionInv == IInv /\ WriteProtocolVersion => IInv'
<1>. SUFFICES ASSUME IInv, WriteProtocolVersion PROVE IInv'
  OBVIOUS
<1>. USE DEF IInv, WriteProtocolVersion, Write
<1>1. pc = "writeProtocolVersion" /\ HasTeamSize /\ cells = FALSE
  BY DEF Dialogue
<1>2. SimulatorOK' /\ Turns'
  BY SimulatorKept
<1>3. CASE pc' = "readGameContext"
  <2>1. TypeOK'
    BY <1>1, <1>3 DEF TypeOK, Reading, server, Exit
  <2>2. to_client' = << >> /\ cells' = FALSE /\ UNCHANGED server
    BY <1>1, <1>3 DEF HasTeamSize, Exit
  <2>3. Gone \/ to_simulator' = <<Version>>
    BY <1>1, <1>3, Channels DEF HasTeamSize, Version, Exit, Gone
  <2>4. Dialogue'
    BY <1>1, <1>3, <2>2, <2>3
       DEF Dialogue, AwaitsGame, HasTeamSize, NothingAsked, server, Gone
  <2>. QED BY <1>2, <2>1, <2>4
<1>4. CASE Gone /\ (Exit(SendFailed) \/ Exit(Killed))
  <2>1. TypeOK'
    BY <1>4, ExitTypes
  <2>2. Dialogue'
    BY <1>1, <1>4, Codes DEF Dialogue, Exit, HasExited, Gone, server
  <2>. QED BY <1>2, <2>1, <2>2
<1>. QED BY <1>3, <1>4

(* The fields of a question.                                               *)
LEMMA QuestionFields ==
    ASSUME NEW m \in Questions
    PROVE  /\ m.type \in {"PLAYER_CONTEXT", "UNKNOWN_MESSAGE"}
           /\ m.present = TRUE /\ m.flaw \in AnyFlaw
           /\ m.grid = (Len(asked) = 1)
           /\ m.id = Len(asked) /\ m.teammateIndex = asked[Len(asked)]
           /\ m # NoContext
<1>1. /\ m.type \in {"PLAYER_CONTEXT", "UNKNOWN_MESSAGE"} /\ m.flaw \in AnyFlaw
      /\ m.id = Len(asked) /\ m.teammateIndex = asked[Len(asked)]
  BY DEF Questions, QuestionsAbout
<1>2. m.present = TRUE
  BY DEF Questions, QuestionsAbout
<1>3. m.grid = (Len(asked) = 1)
  BY DEF Questions, QuestionsAbout
<1>4. NoContext.type = "NONE"
  BY DEF NoContext, Plain, Message
<1>. QED BY <1>1, <1>2, <1>3, <1>4

(* writeMove: the answer is on its way.                                    *)
LEMMA WriteMoveInv == IInv /\ WriteMove => IInv'
<1>. SUFFICES ASSUME IInv, WriteMove PROVE IInv'
  OBVIOUS
<1>. USE DEF IInv, WriteMove, Write
<1>1. pc = "writeMove" /\ HasQuestion
  BY DEF Dialogue
<1>2. SimulatorOK' /\ Turns'
  BY SimulatorKept
<1>3. CASE pc' = "readPlayerContext"
  <2>1. TypeOK'
    BY <1>1, <1>3 DEF TypeOK, Reading, server, Exit
  <2>2. to_client' = << >> /\ cells' /\ UNCHANGED server
    BY <1>1, <1>3 DEF HasQuestion, Exit
  <2>3. Decision = AnswerTo(Len(asked))
    BY <1>1, QuestionFields DEF HasQuestion, Decision, AnswerTo
  <2>4. Gone \/ to_simulator' = <<AnswerTo(Len(asked))>>
    BY <1>1, <1>3, <2>3, Channels DEF HasQuestion, Exit, Gone
  <2>5. Dialogue'
    BY <1>1, <1>3, <2>2, <2>4
       DEF Dialogue, InGame, HasQuestion, server, Gone, AnswerTo
  <2>. QED BY <1>2, <2>1, <2>5
<1>4. CASE Gone /\ (Exit(SendFailed) \/ Exit(Killed))
  <2>1. TypeOK'
    BY <1>4, ExitTypes
  <2>2. Dialogue'
    BY <1>1, <1>4, Codes DEF Dialogue, Exit, HasExited, Gone, server
  <2>. QED BY <1>2, <2>1, <2>2
<1>. QED BY <1>3, <1>4

(* readTeamSize *)
LEMMA ReadTeamSizeInv == IInv /\ ReadTeamSize => IInv'
<1>. SUFFICES ASSUME IInv, ReadTeamSize PROVE IInv'
  OBVIOUS
<1>. USE DEF IInv, ReadTeamSize, Incoming
<1>1. pc = "readTeamSize" /\ AwaitsTeamSize /\ cells = FALSE /\ Take
  BY DEF Dialogue
<1>2. PICK m \in Greetings : to_client = <<m>>
  BY <1>1 DEF AwaitsTeamSize, Only, Readable
<1>3. m.type # "PLAYER_CONTEXT"
  BY DEF Greetings, Plain, Message
<1>4. to_client' = << >> /\ UNCHANGED <<server, to_simulator>>
  BY <1>1, <1>2, <1>3, Channels DEF Take, Unread, IsWorld, Received
<1>5. SimulatorOK' /\ Turns'
  BY <1>4, SimulatorKept
<1>6. (simulator = "greeted" /\ to_simulator = << >>) \/ simulator = "gone"
  BY <1>1, <1>2, Channels DEF AwaitsTeamSize
<1>7. CASE pc' = "writeProtocolVersion" /\ UNCHANGED <<cells, strategies, context, exit_code>>
  <2>1. TypeOK'
    BY <1>1, <1>4, <1>7 DEF TypeOK, Reading, server
  <2>2. Dialogue'
    BY <1>1, <1>4, <1>6, <1>7
       DEF Dialogue, HasTeamSize, AwaitsTeamSize, NothingAsked, server
  <2>. QED BY <1>5, <2>1, <2>2
<1>8. CASE Exit(ExitCode["wrongType"])
  <2>1. "wrongType" \in DOMAIN ExitCode
    BY DEF ExitCode
  <2>2. TypeOK'
    BY <1>4, <1>8, <2>1, ExitTypes
  <2>3. Dialogue'
    BY <1>1, <1>4, <1>6, <1>8, <2>1, Codes
       DEF Dialogue, Exit, HasExited, Gone, server
  <2>. QED BY <1>5, <2>2, <2>3
<1>. QED BY <1>7, <1>8

(* readGameContext: what follows it in the stream is the first question,   *)
(* or the end of the game.                                                 *)
LEMMA ReadGameContextInv == IInv /\ ReadGameContext => IInv'
<1>. SUFFICES ASSUME IInv, ReadGameContext PROVE IInv'
  OBVIOUS
<1>. USE DEF IInv, ReadGameContext, Incoming
<1>1. pc = "readGameContext" /\ AwaitsGame /\ Take
  BY DEF Dialogue
<1>2. PICK m \in Openings : to_client = <<m>> \/ \E n : to_client = <<m, n>>
  BY <1>1 DEF AwaitsGame, Only, Both, Readable
<1>3. m.type # "PLAYER_CONTEXT" /\ m.flaw \in DOMAIN ExitCode \union {"none"}
  BY DEF Openings, Plain, Message, GameFlaws, ExitCode
<1>4. Unread = << >>
  BY <1>2, <1>3, Channels DEF Unread, IsWorld, Received
<1>5. /\ to_client = <<m>> => to_client' = << >>
      /\ \A n : to_client = <<m, n>> => to_client' = <<n>>
      /\ UNCHANGED <<server, to_simulator>>
  <2>1. to_client' = << >> \o Tail(to_client) /\ UNCHANGED <<server, to_simulator>>
    BY <1>1, <1>4 DEF Take
  <2>2. to_client = <<m>> => to_client' = << >>
    BY <2>1, Channels
  <2>3. ASSUME NEW n, to_client = <<m, n>> PROVE to_client' = <<n>>
    BY <2>1, <2>3, Channels
  <2>. QED BY <2>1, <2>2, <2>3
<1>6. SimulatorOK' /\ Turns'
  BY <1>5, SimulatorKept
<1>7. to_client # << >> /\ Head(to_client) = m
  BY <1>2, Channels
<1>8. \/ Gone
      \/ /\ simulator = "playing" /\ asked = << >>
         /\ to_client \in Only(Openings) /\ to_simulator = << >>
      \/ /\ simulator = "awaiting" /\ Len(asked) = 1
         /\ to_client \in Both(Openings, Questions) /\ to_simulator = << >>
      \/ /\ simulator = "over" /\ asked = << >>
         /\ to_client \in Both(Openings, Endings) /\ to_simulator = << >>
  BY <1>1, <1>7 DEF AwaitsGame, Gone
<1>9. CASE \E code : code \in {ExitCode[f] : f \in DOMAIN ExitCode} /\ Exit(code)
  <2>1. TypeOK'
    BY <1>5, <1>9, ExitTypes
  <2>2. Dialogue'
    BY <1>1, <1>5, <1>8, <1>9, Codes
       DEF Dialogue, Exit, HasExited, Gone, server
  <2>. QED BY <1>6, <2>1, <2>2
<1>10. CASE /\ pc' = "readPlayerContext" /\ strategies' = Created
            /\ UNCHANGED <<cells, context, exit_code>>
  <2>1. TypeOK'
    BY <1>1, <1>5, <1>10 DEF TypeOK, Reading, server, Created
  <2>2. UNCHANGED <<simulator, asked, answers, Questions>>
    BY <1>5 DEF server, Questions
  <2>3. /\ to_client \in Only(Openings) => to_client' = << >>
        /\ to_client \in Both(Openings, Questions) => to_client' \in Only(Questions')
        /\ to_client \in Both(Openings, Endings) => to_client' \in Only(Endings)
    BY <1>5, <1>7, <2>2, Channels DEF Only, Both
  <2>4. InGame'
    BY <1>1, <1>5, <1>7, <1>10, <2>2, <2>3 DEF InGame, QuestionComes, AwaitsGame
  <2>. QED BY <1>6, <1>10, <2>1, <2>4 DEF Dialogue
<1>11. "wrongType" \in DOMAIN ExitCode
  BY DEF ExitCode
<1>. QED BY <1>3, <1>7, <1>9, <1>10, <1>11 DEF Received

(* readPlayerContext *)
LEMMA ReadPlayerContextInv == IInv /\ ReadPlayerContext => IInv'
<1>. SUFFICES ASSUME IInv, ReadPlayerContext PROVE IInv'
  OBVIOUS
<1>. USE DEF IInv, ReadPlayerContext, Incoming
<1>1. pc = "readPlayerContext" /\ InGame /\ Take /\ strategies = TeamSize
  BY DEF Dialogue, TypeOK
<1>2. to_client # << >>
  BY DEF Readable
<1>3. PICK m : to_client = <<m>> /\ m \in Questions \union Endings
  BY <1>1, <1>2 DEF InGame, QuestionComes, Only
<1>4. Received = m
  BY <1>3, Channels DEF Received
<1>5. CASE m \in Questions
  <2>1. /\ m.type \in {"PLAYER_CONTEXT", "UNKNOWN_MESSAGE"} /\ m.present = TRUE
        /\ m.flaw \in DOMAIN ExitCode \union {"none"}
        /\ m.grid = (Len(asked) = 1)
    BY <1>5, QuestionFields DEF AnyFlaw
  <2>2. m \notin Endings
    BY <2>1 DEF Endings, Plain, Message
  <2>3. /\ (simulator = "awaiting" /\ to_simulator = << >>) \/ simulator = "gone"
        /\ QuestionComes
    <3>1. to_client \notin Only(Endings)
      BY <1>3, <2>2 DEF Only
    <3>. QED BY <1>1, <1>2, <3>1 DEF InGame
  <2>4. Unread = << >>
    BY <1>4, <2>1, <2>3 DEF Unread, IsWorld, ReadsGrid, QuestionComes
  <2>5. to_client' = << >> /\ UNCHANGED <<server, to_simulator>>
    BY <1>1, <1>3, <2>4, Channels DEF Take
  <2>6. SimulatorOK' /\ Turns'
    BY <2>5, SimulatorKept
  <2>7. CASE \E code : code \in {ExitCode[f] : f \in DOMAIN ExitCode} /\ Exit(code)
    <3>1. TypeOK'
      BY <2>5, <2>7, ExitTypes
    <3>2. Dialogue'
      BY <2>3, <2>5, <2>7, Codes DEF Dialogue, Exit, HasExited, Gone, server
    <3>. QED BY <2>6, <3>1, <3>2
  <2>8. CASE /\ pc' = "writeMove" /\ context' = m /\ cells' = TRUE
             /\ UNCHANGED <<strategies, exit_code>>
    <3>1. TypeOK'
      BY <1>1, <1>5, <2>5, <2>8, QuestionFields DEF TypeOK, Reading, server
    <3>2. UNCHANGED <<simulator, asked, answers, Questions>>
      BY <2>5 DEF server, Questions
    <3>3. HasQuestion'
      BY <1>5, <2>3, <2>5, <2>8, <3>2 DEF HasQuestion, QuestionComes
    <3>. QED BY <2>6, <2>8, <3>1, <3>3 DEF Dialogue
  <2>9. "wrongType" \in DOMAIN ExitCode
    BY DEF ExitCode
  <2>. QED BY <1>4, <2>1, <2>7, <2>8, <2>9
<1>6. CASE m \in Endings
  <2>1. /\ m.type \in {"GAME_OVER", "PLAYER_CONTEXT"}
        /\ m.type = "GAME_OVER" \/ m.present = FALSE
        /\ ~(m.type = "PLAYER_CONTEXT" /\ m.present)
    BY <1>6 DEF Endings, Plain, Message
  <2>2. m \notin Questions
    BY <2>1, QuestionFields
  <2>3. (simulator = "over" /\ to_simulator = << >>) \/ simulator = "left"
    <3>1. to_client \notin Only(Questions)
      BY <1>3, <2>2 DEF Only
    <3>. QED BY <1>1, <1>2, <3>1 DEF InGame, QuestionComes
  <2>4. Unread = << >>
    BY <1>4, <2>1 DEF Unread, IsWorld
  <2>5. to_client' = << >> /\ UNCHANGED <<server, to_simulator>>
    BY <1>1, <1>3, <2>4, Channels DEF Take
  <2>6. pc' = "finish" /\ UNCHANGED <<cells, strategies, context, exit_code>>
    BY <1>4, <2>1
  <2>7. SimulatorOK' /\ Turns'
    BY <2>5, SimulatorKept
  <2>8. TypeOK'
    BY <1>1, <2>5, <2>6 DEF TypeOK, Reading, server
  <2>9. Dialogue'
    BY <2>3, <2>5, <2>6 DEF Dialogue, Ended, server
  <2>. QED BY <2>7, <2>8, <2>9
<1>. QED BY <1>3, <1>5, <1>6

(* readBytes at the end of the stream                                      *)
LEMMA StreamEndsInv == IInv /\ StreamEnds => IInv'
<1>. SUFFICES ASSUME IInv, StreamEnds PROVE IInv'
  OBVIOUS
<1>. USE DEF IInv, StreamEnds
<1>1. TypeOK'
  BY ExitTypes
<1>2. SimulatorOK' /\ Turns'
  BY SimulatorKept
<1>3. Dialogue'
  BY Codes DEF Dialogue, Exit, HasExited, Gone, server
<1>. QED BY <1>1, <1>2, <1>3

(* The end of main                                                         *)
LEMMA FinishInv == IInv /\ Finish => IInv'
<1>. SUFFICES ASSUME IInv, Finish PROVE IInv'
  OBVIOUS
<1>. USE DEF IInv, Finish
<1>1. Ended
  BY DEF Dialogue
<1>2. TypeOK'
  BY DEF TypeOK, Reading, server
<1>3. SimulatorOK' /\ Turns'
  BY SimulatorKept
<1>4. Dialogue'
  BY <1>1 DEF Dialogue, Ended, HasExited, Gone, server, ConnectionRefused
<1>. QED BY <1>2, <1>3, <1>4

(* The simulator begins to listen.                                         *)
LEMMA ListenInv == IInv /\ Listen => IInv'
<1>. SUFFICES ASSUME IInv, Listen PROVE IInv'
  OBVIOUS
<1>. USE DEF IInv, Listen
<1>1. UNCHANGED <<pc, cells, strategies, context, exit_code, asked, answers,
                  to_client, to_simulator>>
  BY DEF client
<1>2. TypeOK'
  BY <1>1 DEF TypeOK
<1>3. SimulatorOK' /\ Turns'
  BY <1>1 DEF SimulatorOK, Turns, NothingAsked, AnswerTo
<1>4. pc \in {"connect", "exited"}
  BY DEF TypeOK, Reading, Dialogue, AwaitsTeamSize, HasTeamSize, AwaitsGame,
         InGame, HasQuestion, Ended
<1>5. Dialogue'
  BY <1>1, <1>4 DEF Dialogue, Unheard, NothingAsked, HasExited, Gone
<1>. QED BY <1>2, <1>3, <1>5

(* The simulator takes the token and says how many troopers there are.     *)
LEMMA SendTeamSizeInv == IInv /\ SendTeamSize => IInv'
<1>. SUFFICES ASSUME IInv, SendTeamSize PROVE IInv'
  OBVIOUS
<1>. USE DEF IInv, SendTeamSize, Await
<1>1. UNCHANGED <<pc, cells, strategies, context, exit_code, asked, answers>>
  BY DEF client
<1>2. TypeOK'
  BY <1>1 DEF TypeOK
<1>3. SimulatorOK' /\ Turns'
  BY <1>1 DEF SimulatorOK, Turns, NothingAsked, AnswerTo
<1>4. pc = "readTeamSize" /\ AwaitsTeamSize
  BY DEF TypeOK, Reading, Dialogue, Unheard, HasTeamSize, AwaitsGame, InGame,
         HasQuestion, Ended, HasExited, Gone
<1>5. to_client = << >> /\ to_simulator = <<Token>>
  BY <1>4 DEF AwaitsTeamSize
<1>6. to_client' \in Only(Greetings)
  BY <1>5, Channels DEF Only, Greetings
<1>7. to_simulator' = << >>
  BY <1>5, Channels
<1>8. Dialogue'
  BY <1>1, <1>4, <1>6, <1>7 DEF Dialogue, AwaitsTeamSize, NothingAsked
<1>. QED BY <1>2, <1>3, <1>8

(* The simulator takes the version and describes the game.                 *)
LEMMA SendGameContextInv == IInv /\ SendGameContext => IInv'
<1>. SUFFICES ASSUME IInv, SendGameContext PROVE IInv'
  OBVIOUS
<1>. USE DEF IInv, SendGameContext, Await
<1>1. UNCHANGED <<pc, cells, strategies, context, exit_code, asked, answers>>
  BY DEF client
<1>2. TypeOK'
  BY <1>1 DEF TypeOK
<1>3. SimulatorOK' /\ Turns'
  BY <1>1 DEF SimulatorOK, Turns, NothingAsked, AnswerTo
<1>4. pc = "readGameContext" /\ AwaitsGame
  BY DEF TypeOK, Reading, Dialogue, Unheard, HasTeamSize, AwaitsTeamSize, InGame,
         HasQuestion, Ended, HasExited, Gone
<1>5. to_client = << >> /\ to_simulator = <<Version>> /\ asked = << >>
  BY <1>4 DEF AwaitsGame
<1>6. to_client' \in Only(Openings)
  BY <1>5, Channels DEF Only, Openings
<1>7. to_simulator' = << >>
  BY <1>5, Channels
<1>8. Dialogue'
  BY <1>1, <1>4, <1>5, <1>6, <1>7 DEF Dialogue, AwaitsGame
<1>. QED BY <1>2, <1>3, <1>8

(* What SendPlayerContext sends is a question.                             *)
LEMMA QuestionMember ==
    ASSUME NEW type \in {"PLAYER_CONTEXT", "UNKNOWN_MESSAGE"}, NEW flaw \in AnyFlaw,
           NEW index, NEW id, NEW grid
    PROVE  Message(type, flaw, TRUE, grid, index, id) \in QuestionsAbout(index, id, grid)
BY DEF QuestionsAbout, Message

(* The simulator asks for a move.                                          *)
LEMMA SendPlayerContextInv == IInv /\ SendPlayerContext => IInv'
<1>. SUFFICES ASSUME IInv, SendPlayerContext PROVE IInv'
  OBVIOUS
<1>1. /\ TypeOK /\ SimulatorOK /\ Turns /\ Dialogue
      /\ simulator = "playing" /\ simulator' = "awaiting" /\ Len(asked) < MaxContexts
      /\ UNCHANGED <<pc, cells, strategies, context, exit_code, answers, to_simulator>>
  BY DEF IInv, SendPlayerContext, client
<1>. DEFINE Flaws == WorldFlaws \union {"none"}
                       \union (IF asked = << >> THEN GridFlaws ELSE {})
            q(type, index, flaw) ==
              Message(type, flaw, TRUE, asked = << >>, index, Len(asked) + 1)
<1>2. PICK type \in {"PLAYER_CONTEXT", "UNKNOWN_MESSAGE"}, index \in 0 .. TeamSize - 1,
           flaw \in Flaws :
        asked' = Append(asked, index) /\ to_client' = Append(to_client, q(type, index, flaw))
  BY DEF SendPlayerContext
<1>14. flaw \in AnyFlaw
  BY DEF AnyFlaw, WorldFlaws, GridFlaws, GameFlaws, ExitCode
<1>3. asked \in Seq(0 .. TeamSize - 1) /\ Len(asked) = Len(answers)
        /\ answers \in Seq(Moves)
  BY <1>1 DEF TypeOK, Turns, SimulatorOK
<1>4. /\ asked' \in Seq(0 .. TeamSize - 1) /\ Len(asked') = Len(asked) + 1
      /\ \A k \in 1 .. Len(asked) : asked'[k] = asked[k]
      /\ asked'[Len(asked')] = index
  BY <1>2, <1>3, AppendProperties
<1>5. Len(asked) \in Nat /\ DOMAIN answers = 1 .. Len(asked)
  BY <1>3, LenProperties
<1>6. asked' # << >> /\ (Len(asked') = 1 <=> asked = << >>)
  BY <1>3, <1>4, <1>5, EmptySeq
<1>7. TypeOK'
  BY <1>1, <1>4, <1>5, SessionAssumption DEF TypeOK
<1>8. SimulatorOK' /\ Turns'
  BY <1>1, <1>3, <1>4, <1>5 DEF SimulatorOK, Turns, AnswerTo
<1>. DEFINE m == q(type, index, flaw)
<1>9. m \in Questions'
  <2>1. m \in QuestionsAbout(index, Len(asked) + 1, asked = << >>)
    BY <1>14, QuestionMember
  <2>2. (Len(asked') = 1) = (asked = << >>)
    BY <1>6
  <2>. HIDE DEF m
  <2>. QED BY <1>4, <2>1, <2>2 DEF Questions
<1>15. to_client' = Append(to_client, m)
  BY <1>2
<1>. HIDE DEF m, q, Flaws
<1>10. \/ pc = "readGameContext" /\ AwaitsGame
       \/ pc = "readPlayerContext" /\ InGame
       \/ pc = "exited" /\ HasExited
  BY <1>1 DEF TypeOK, Reading, Dialogue, Unheard, HasTeamSize, AwaitsTeamSize,
         HasQuestion, Ended
<1>11. CASE pc = "readGameContext" /\ AwaitsGame
  <2>1. asked = << >> /\ to_client \in Only(Openings) /\ to_simulator = << >>
          /\ cells = FALSE /\ answers = << >>
    BY <1>1, <1>11 DEF AwaitsGame
  <2>2. to_client' \in Both(Openings, Questions')
    <3>1. PICK o \in Openings : to_client = <<o>>
      BY <2>1 DEF Only
    <3>2. to_client' = <<o, m>>
      BY <1>15, <3>1, Channels
    <3>. QED BY <1>9, <3>2 DEF Both
  <2>3. AwaitsGame'
    BY <1>1, <1>6, <2>1, <2>2 DEF AwaitsGame
  <2>. QED BY <1>1, <1>7, <1>8, <1>11, <2>3 DEF Dialogue, IInv
<1>12. CASE pc = "readPlayerContext" /\ InGame
  <2>1. to_client = << >> /\ to_simulator = << >> /\ (cells <=> asked # << >>)
    BY <1>1, <1>12 DEF InGame
  <2>2. to_client' \in Only(Questions')
    <3>1. to_client' = <<m>>
      BY <1>15, <2>1, Channels
    <3>. QED BY <1>9, <3>1 DEF Only
  <2>3. InGame'
    BY <1>1, <1>6, <2>1, <2>2 DEF InGame, QuestionComes
  <2>. QED BY <1>1, <1>7, <1>8, <1>12, <2>3 DEF Dialogue, IInv
<1>13. CASE pc = "exited" /\ HasExited
  <2>1. HasExited'
    BY <1>1, <1>13 DEF HasExited, Gone, Unheard
  <2>. QED BY <1>1, <1>7, <1>8, <1>13, <2>1 DEF Dialogue, IInv
<1>. QED BY <1>10, <1>11, <1>12, <1>13

(* The simulator takes the answer to the question it has asked.            *)
LEMMA ReceiveMoveInv == IInv /\ ReceiveMove => IInv'
<1>. SUFFICES ASSUME IInv, ReceiveMove PROVE IInv'
  OBVIOUS
<1>. DEFINE n == Len(asked)
<1>1. /\ TypeOK /\ SimulatorOK /\ Turns /\ Dialogue
      /\ simulator = "awaiting" /\ simulator' = "playing"
      /\ UNCHANGED <<pc, cells, strategies, context, exit_code, asked, to_client>>
      /\ to_simulator # << >> /\ to_simulator' = Tail(to_simulator)
      /\ answers' = Append(answers, Head(to_simulator))
  BY DEF IInv, ReceiveMove, Await, client
<1>2. pc = "readPlayerContext" /\ InGame
  BY <1>1 DEF TypeOK, Reading, Dialogue, Unheard, HasTeamSize, AwaitsTeamSize,
         AwaitsGame, HasQuestion, Ended, HasExited, Gone
<1>3. cells /\ to_client = << >> /\ to_simulator = <<AnswerTo(n)>>
  BY <1>1, <1>2 DEF InGame
<1>4. to_simulator' = << >> /\ answers' = Append(answers, AnswerTo(n))
  BY <1>1, <1>3, Channels
<1>5. asked \in Seq(0 .. TeamSize - 1) /\ answers \in Seq(Moves)
        /\ n = Len(answers) + 1
  BY <1>1 DEF TypeOK, SimulatorOK, Turns
<1>6. n \in Nat /\ n \in 1 .. n /\ asked # << >>
  BY <1>5, LenProperties, EmptySeq
<1>7. AnswerTo(n) \in Moves
  BY <1>5, <1>6, ElementOfSeq DEF AnswerTo, Moves
<1>8. /\ answers' \in Seq(Moves) /\ Len(answers') = n
      /\ DOMAIN answers = 1 .. n - 1 /\ DOMAIN answers' = 1 .. n
      /\ \A k \in 1 .. n - 1 : answers'[k] = answers[k]
      /\ answers'[n] = AnswerTo(n)
  BY <1>4, <1>5, <1>6, <1>7, AppendProperties, LenProperties
<1>9. SimulatorOK'
  <2>1. ASSUME NEW k \in DOMAIN answers' PROVE answers'[k] = AnswerTo(k)'
    BY <1>1, <1>6, <1>8, <2>1 DEF SimulatorOK, AnswerTo
  <2>. QED BY <1>1, <1>8, <2>1 DEF SimulatorOK
<1>10. TypeOK' /\ Turns'
  BY <1>1, <1>8 DEF TypeOK, Turns
<1>11. Dialogue'
  BY <1>1, <1>2, <1>3, <1>4, <1>6 DEF Dialogue, InGame
<1>. QED BY <1>9, <1>10, <1>11 DEF IInv

(* The simulator ends the game.                                            *)
LEMMA SendGameOverInv == IInv /\ SendGameOver => IInv'
<1>. SUFFICES ASSUME IInv, SendGameOver PROVE IInv'
  OBVIOUS
<1>1. /\ TypeOK /\ SimulatorOK /\ Turns /\ Dialogue
      /\ simulator = "playing" /\ simulator' = "over"
      /\ UNCHANGED <<pc, cells, strategies, context, exit_code, asked, answers,
                     to_simulator>>
  BY DEF IInv, SendGameOver, client
<1>2. PICK m \in Endings : to_client' = Append(to_client, m)
  BY DEF SendGameOver, Endings
<1>3. TypeOK'
  BY <1>1 DEF TypeOK
<1>4. SimulatorOK' /\ Turns'
  BY <1>1 DEF SimulatorOK, Turns, AnswerTo
<1>5. \/ pc = "readGameContext" /\ AwaitsGame
      \/ pc = "readPlayerContext" /\ InGame
      \/ pc = "exited" /\ HasExited
  BY <1>1 DEF TypeOK, Reading, Dialogue, Unheard, HasTeamSize, AwaitsTeamSize,
         HasQuestion, Ended
<1>6. CASE pc = "readGameContext" /\ AwaitsGame
  <2>1. asked = << >> /\ to_client \in Only(Openings) /\ to_simulator = << >>
    BY <1>1, <1>6 DEF AwaitsGame
  <2>2. PICK o \in Openings : to_client = <<o>>
    BY <2>1 DEF Only
  <2>3. to_client' = <<o, m>>
    BY <1>2, <2>2, Channels
  <2>4. to_client' \in Both(Openings, Endings)
    BY <2>3 DEF Both
  <2>5. AwaitsGame'
    BY <1>1, <1>6, <2>1, <2>4 DEF AwaitsGame
  <2>. QED BY <1>1, <1>3, <1>4, <1>6, <2>5 DEF Dialogue, IInv
<1>7. CASE pc = "readPlayerContext" /\ InGame
  <2>1. to_client = << >> /\ to_simulator = << >>
    BY <1>1, <1>7 DEF InGame
  <2>2. to_client' = <<m>>
    BY <1>2, <2>1, Channels
  <2>3. to_client' \in Only(Endings)
    BY <2>2 DEF Only
  <2>4. InGame'
    BY <1>1, <2>1, <2>3 DEF InGame
  <2>. QED BY <1>1, <1>3, <1>4, <1>7, <2>4 DEF Dialogue, IInv
<1>8. CASE pc = "exited" /\ HasExited
  <2>1. HasExited'
    BY <1>1, <1>8 DEF HasExited, Gone, Unheard
  <2>. QED BY <1>1, <1>3, <1>4, <1>8, <2>1 DEF Dialogue, IInv
<1>. QED BY <1>5, <1>6, <1>7, <1>8

(* The simulator goes away: it may be anywhere, and so may what it has     *)
(* sent.                                                                   *)
LEMMA GoAwayInv == IInv /\ GoAway => IInv'
<1>. SUFFICES ASSUME IInv, GoAway PROVE IInv'
  OBVIOUS
<1>1. /\ TypeOK /\ SimulatorOK /\ Turns /\ Dialogue /\ ~Gone
      /\ simulator' = IF simulator = "over" THEN "left" ELSE "gone"
      /\ UNCHANGED <<pc, cells, strategies, context, exit_code, asked, answers,
                     to_simulator>>
  BY DEF IInv, GoAway, client
<1>2. PICK i \in 0 .. Len(to_client) : to_client' = SubSeq(to_client, 1, i)
  BY DEF GoAway
<1>3. /\ to_client = << >> => to_client' = << >>
      /\ \A m : to_client = <<m>> => to_client' \in {<< >>, <<m>>}
      /\ \A m, n : to_client = <<m, n>> => to_client' \in {<< >>, <<m>>, <<m, n>>}
  BY <1>2, Prefixes
<1>4. TypeOK'
  BY <1>1 DEF TypeOK
<1>5. SimulatorOK' /\ Turns'
  <2>1. SimulatorOK'
    BY <1>1 DEF SimulatorOK, AnswerTo
  <2>2. Turns'
    <3>1. asked = << >> /\ answers = << >> => Len(asked) = Len(answers)
      OBVIOUS
    <3>2. Len(answers) \in Nat /\ Len(asked) \in Nat
      BY <1>1, LenProperties DEF TypeOK, SimulatorOK
    <3>. QED BY <1>1, <3>1, <3>2 DEF Turns, NothingAsked, Gone, SimulatorOK
  <2>. QED BY <2>1, <2>2
<1>6. \A S : to_client \in Only(S) => to_client' \in {<< >>} \union Only(S)
  BY <1>3 DEF Only
<1>7. \A S, T : to_client \in Both(S, T)
        => to_client' \in {<< >>} \union Only(S) \union Both(S, T)
  BY <1>3 DEF Only, Both
<1>8. UNCHANGED Questions
  BY <1>1 DEF Questions
<1>9. Dialogue'
  <2>1. pc = "connect" => Unheard'
    BY <1>1, <1>3 DEF Dialogue, Unheard, NothingAsked
  <2>2. pc = "writeToken" => Unheard'
    BY <1>1, <1>3 DEF Dialogue, Unheard, NothingAsked
  <2>3. pc = "readTeamSize" => AwaitsTeamSize'
    BY <1>1, <1>3, <1>6 DEF Dialogue, AwaitsTeamSize, NothingAsked, Gone
  <2>4. pc = "writeProtocolVersion" => HasTeamSize'
    BY <1>1, <1>3 DEF Dialogue, HasTeamSize, NothingAsked
  <2>5. pc = "readGameContext" => AwaitsGame'
    BY <1>1, <1>3, <1>6, <1>7, <1>8 DEF Dialogue, AwaitsGame, Gone
  <2>6. pc = "readPlayerContext" => InGame'
    BY <1>1, <1>3, <1>6, <1>8 DEF Dialogue, InGame, QuestionComes, Gone
  <2>7. pc = "writeMove" => HasQuestion'
    BY <1>1, <1>3, <1>8 DEF Dialogue, HasQuestion
  <2>8. pc = "finish" => Ended'
    BY <1>1, <1>3 DEF Dialogue, Ended, Gone
  <2>9. pc = "exited" => HasExited'
    BY <1>1, <1>3 DEF Dialogue, HasExited, Unheard, NothingAsked, Gone
  <2>10. simulator' # "starting"
    BY <1>1
  <2>. QED BY <1>1, <2>1, <2>2, <2>3, <2>4, <2>5, <2>6, <2>7, <2>8, <2>9, <2>10
       DEF Dialogue
<1>. QED BY <1>4, <1>5, <1>9 DEF IInv

(* Every step of a session, and every step that leaves it alone, keeps the *)
(* invariant.                                                              *)
LEMMA NextInv == IInv /\ [Next]_vars => IInv'
<1>. SUFFICES ASSUME IInv, [Next]_vars PROVE IInv'
  OBVIOUS
<1>1. CASE Client
  BY <1>1, ConnectInv, WriteTokenInv, ReadTeamSizeInv, WriteProtocolVersionInv,
     ReadGameContextInv, ReadPlayerContextInv, WriteMoveInv, StreamEndsInv,
     FinishInv DEF Client
<1>2. CASE Simulator
  BY <1>2, ListenInv, SendTeamSizeInv, SendGameContextInv, SendPlayerContextInv,
     ReceiveMoveInv, SendGameOverInv DEF Simulator
<1>3. CASE GoAway
  BY <1>3, GoAwayInv
<1>4. CASE UNCHANGED vars
  <2>1. UNCHANGED <<pc, cells, strategies, context, exit_code, simulator, asked,
                    answers, to_client, to_simulator>>
    BY <1>4 DEF vars, client, server
  <2>2. TypeOK'
    BY <2>1 DEF IInv, TypeOK
  <2>3. SimulatorOK' /\ Turns'
    BY <2>1 DEF IInv, SimulatorOK, Turns, NothingAsked, AnswerTo
  <2>4. Dialogue'
    BY <2>1 DEF IInv, Dialogue, Unheard, AwaitsTeamSize, HasTeamSize, AwaitsGame,
           InGame, QuestionComes, HasQuestion, Ended, HasExited, NothingAsked,
           Questions, AnswerTo, Gone
  <2>. QED BY <2>2, <2>3, <2>4 DEF IInv
<1>. QED BY <1>1, <1>2, <1>3, <1>4 DEF Next
--------------------------------------------------------------------------------
(* The theorems *)

(* The invariant holds in every reachable state.                           *)
LEMMA Invariant == Spec => []IInv
BY InitInv, NextInv, PTL DEF Spec

(* Runner::run's variables keep their types, strategy objects exist from   *)
(* the game context to the end, and a context is held exactly while its    *)
(* move is due.                                                            *)
THEOREM TypeCorrect == Spec => []TypeOK
<1>1. IInv => TypeOK
  BY DEF IInv
<1>. QED BY <1>1, Invariant, PTL

(* A world the client is about to read carries its cells exactly if the    *)
(* client will read them: readCells and readCellVisibilities read once,    *)
(* and the simulator sends the grid once, with its first question.         *)
THEOREM AlwaysInStep == Spec => []InStep
<1>1. IInv => InStep
  <2>. SUFFICES ASSUME IInv, pc = "readPlayerContext", to_client # << >>, IsWorld
                PROVE  Received.grid = ReadsGrid
    BY DEF InStep
  <2>1. InGame
    BY DEF IInv, Dialogue
  <2>2. PICK m : to_client = <<m>> /\ (m \in Endings \/ QuestionComes)
    BY <2>1 DEF InGame, QuestionComes, Only
  <2>3. Received = m
    BY <2>2, Channels DEF Received
  <2>4. m \notin Endings
    BY <2>3 DEF Endings, Plain, Message, IsWorld
  <2>5. QuestionComes /\ m \in Questions
    BY <2>2, <2>4, Channels DEF QuestionComes, Only
  <2>6. m.grid = (Len(asked) = 1)
    BY <2>5, QuestionFields
  <2>7. (Len(asked) = 1) = ReadsGrid
    BY <2>5 DEF QuestionComes, ReadsGrid
  <2>. QED BY <2>3, <2>6, <2>7
<1>. QED BY <1>1, Invariant, PTL

(* The client never waits for a message while the simulator waits for one  *)
(* of the client's: no pair of their blocking calls can meet.              *)
THEOREM NeverDeadlocked == Spec => []NeverBothWaiting
<1>1. IInv => NeverBothWaiting
  <2>. SUFFICES ASSUME IInv, pc \in Reading, ~Readable, to_simulator = << >>,
                       simulator \in {"listening", "greeted", "awaiting"}
                PROVE  FALSE
    BY DEF NeverBothWaiting
  <2>1. CASE pc = "readTeamSize"
    <3>1. PICK m \in Greetings : to_client = <<m>>
      BY <2>1, Channels DEF IInv, Dialogue, AwaitsTeamSize, Only
    <3>2. m.type # "PLAYER_CONTEXT"
      BY DEF Greetings, Plain, Message
    <3>. QED BY <3>1, <3>2, Channels DEF Readable, IsWorld, Received
  <2>2. CASE pc = "readGameContext"
    <3>1. PICK m \in Openings : to_client # << >> /\ Head(to_client) = m
      BY <2>2, Channels DEF IInv, Dialogue, AwaitsGame, Both
    <3>2. m.type # "PLAYER_CONTEXT"
      BY DEF Openings, Plain, Message
    <3>. QED BY <3>1, <3>2 DEF Readable, IsWorld, Received
  <2>3. CASE pc = "readPlayerContext"
    <3>1. QuestionComes
      BY <2>3, Channels DEF IInv, Dialogue, InGame
    <3>2. PICK m \in Questions : to_client = <<m>>
      BY <3>1 DEF QuestionComes, Only
    <3>3. m.grid = (Len(asked) = 1)
      BY QuestionFields
    <3>4. (Len(asked) = 1) = ReadsGrid
      BY <3>1 DEF QuestionComes, ReadsGrid
    <3>. QED BY <3>2, <3>3, <3>4, Channels DEF Readable, Received
  <2>. QED BY <2>1, <2>2, <2>3 DEF Reading
<1>. QED BY <1>1, Invariant, PTL

(* The k-th move answers the k-th question, made by the strategy object of *)
(* the trooper it is for, and there is never more than one open question.  *)
THEOREM OneAnswerToEach == Spec => []OneAnswerEach
<1>1. IInv => OneAnswerEach
  <2>. SUFFICES ASSUME IInv PROVE OneAnswerEach
    OBVIOUS
  <2>1. asked = << >> /\ answers = << >> => Len(asked) = Len(answers)
    OBVIOUS
  <2>2. Len(asked) \in Nat /\ Len(answers) \in Nat
    BY LenProperties DEF IInv, TypeOK, SimulatorOK
  <2>. QED BY <2>1, <2>2
       DEF IInv, OneAnswerEach, SimulatorOK, Turns, AnswerTo, NothingAsked
<1>. QED BY <1>1, Invariant, PTL

(* Exit code 0 means that the game was over: main returns 0 only after     *)
(* GAME_OVER or an absent context, and no check exits with 0.              *)
THEOREM SuccessIsGameOver == Spec => []SuccessMeansGameOver
<1>1. IInv => SuccessMeansGameOver
  BY DEF IInv, Dialogue, HasExited, SuccessMeansGameOver
<1>. QED BY <1>1, Invariant, PTL
--------------------------------------------------------------------------------
(* run-once.pl, run.pl and run-render.pl *)

(* run-once.pl: the child that restarts MyStrategy ends only once the      *)
(* process has ended, and the parent waits for the runner, then for it.    *)
HarnessOK ==
    /\ loop \in {"running", "ended"} /\ parent \in {"runner", "strategy", "done"}
    /\ loop = "ended" => pc = "exited"
    /\ parent # "runner" => Gone
    /\ parent = "done" => loop = "ended"

(* What a game of ours can come to: no result, or a place and a verdict.   *)
OwnResults == {Undefined} \union
    {Result(place, verdict) : place \in Places, verdict \in {"OK", "CRASHED"}}

(* A game has its result once its simulator has gone, and if it has come   *)
(* to one then the file says so.                                           *)
ResultsOK ==
    /\ total \in Nat \ {0}
    /\ results \in Seq(OwnResults)
    /\ Len(results) = IF Gone THEN total ELSE total - 1
    /\ Gone /\ results[total] # Undefined =>
         file.lines # << >> /\ Head(file.lines) = results[total]
    /\ script = "run-render.pl" => file.seed \in {0, total}

(* The counters and the results reported are right.                        *)
CountersOK == ReportsOwnGame /\ CountersAreTrue

(* The inductive invariant: that of the session, and the scripts' parts.   *)
BInv == IInv /\ HarnessOK /\ ResultsOK /\ CountersOK
---------------------------------------------------------------------------------
(* One process after the other *)

(* Only ConnectionRefused leaves 17 when it is cut to 8 bits.              *)
LEMMA RefusedCode == TypeOK /\ Refused => exit_code = ConnectionRefused
<1>1. \A f \in DOMAIN ExitCode : ExitCode[f] \in 10002 .. 10020
  BY DEF ExitCode
<1>2. TypeOK => exit_code \in {0, 10001, 10012, 10013, -1} \union 10002 .. 10020
  <2>. SUFFICES ASSUME TypeOK, \E f \in DOMAIN ExitCode : exit_code = ExitCode[f]
                PROVE  exit_code \in 10002 .. 10020
    BY DEF TypeOK, ConnectionRefused, StreamEnded, SendFailed, Killed
  <2>. QED BY <1>1
<1>3. \A code \in 10002 .. 10020 : code % 256 # 17
  OBVIOUS
<1>. QED BY <1>2, <1>3 DEF Refused, ShellCode, Killed, ConnectionRefused

(* A process that is started again finds the simulator as it was.          *)
LEMMA RestartInv == IInv /\ Restart => Unheard /\ IInv'
<1>. SUFFICES ASSUME IInv, Restart PROVE Unheard /\ IInv'
  OBVIOUS
<1>1. Unheard
  BY RefusedCode DEF IInv, Restart, Dialogue, HasExited
<1>2. TypeOK'
  BY DEF IInv, Restart, TypeOK, server, Reading
<1>3. SimulatorOK' /\ Turns'
  BY SimulatorKept DEF IInv, Restart
<1>4. Dialogue'
  BY <1>1 DEF Restart, Dialogue, Unheard, NothingAsked, server
<1>. QED BY <1>1, <1>2, <1>3, <1>4 DEF IInv

(* A new game begins like the first.                                       *)
LEMMA StartGameInv == StartGame => IInv'
<1>1. StartGame => Init'
  BY DEF StartGame, Init, ClientInit
<1>2. Init' => IInv'
  BY InitInv, PTL
<1>. QED BY <1>1, <1>2

(* Steps inside a game keep the invariant of the session, never bring a    *)
(* simulator or a process back, and restart no process that was heard of.  *)
LEMMA HarnessInv ==
    ASSUME IInv, HarnessOK, HarnessNext
    PROVE  /\ IInv' /\ HarnessOK' /\ (Gone => Gone')
           /\ loop = "running" /\ pc = "exited" /\ pc' # "exited" => Unheard
<1>1. CASE Restart
  <2>1. IInv' /\ Unheard
    BY <1>1, RestartInv
  <2>2. UNCHANGED <<simulator, loop, parent>> /\ loop = "running"
    BY <1>1 DEF Restart, server, harness
  <2>. QED BY <2>1, <2>2 DEF HarnessOK, Gone
<1>2. CASE Leave \/ ReapRunner \/ ReapStrategy
  <2>1. UNCHANGED vars
    BY <1>2 DEF Leave, ReapRunner, ReapStrategy
  <2>2. IInv'
    BY <2>1, NextInv
  <2>3. UNCHANGED <<pc, simulator>>
    BY <2>1 DEF vars, client, server
  <2>. QED BY <1>2, <2>2, <2>3
       DEF HarnessOK, Gone, Leave, ReapRunner, ReapStrategy, RunnerEnded
<1>3. CASE Next /\ UNCHANGED harness
  <2>1. IInv'
    BY <1>3, NextInv
  <2>2. Gone => Gone'
    BY <1>3 DEF Next, Client, Simulator, Connect, WriteToken, ReadTeamSize,
       WriteProtocolVersion, ReadGameContext, ReadPlayerContext, WriteMove,
       StreamEnds, Finish, Write, Take, server, Gone, Listen, SendTeamSize,
       SendGameContext, SendPlayerContext, ReceiveMove, SendGameOver, GoAway,
       Await
  <2>3. pc = "exited" => pc' = "exited"
    BY <1>3 DEF Next, Client, Simulator, Connect, WriteToken, ReadTeamSize,
       WriteProtocolVersion, ReadGameContext, ReadPlayerContext, WriteMove,
       StreamEnds, Finish, Write, Incoming, Reading, client, Listen,
       SendTeamSize, SendGameContext, SendPlayerContext, ReceiveMove,
       SendGameOver, GoAway
  <2>4. UNCHANGED <<loop, parent>>
    BY <1>3 DEF harness
  <2>. QED BY <2>1, <2>2, <2>3, <2>4 DEF HarnessOK
<1>. QED BY <1>1, <1>2, <1>3 DEF HarnessNext, Script
---------------------------------------------------------------------------------
(* Counting *)

(* One more game, one more in the count if it is of the kind counted.      *)
LEMMA OneMore ==
    ASSUME NEW W, NEW k \in Nat
    PROVE  /\ Cardinality({i \in 1 .. k : i \in W}) \in Nat
           /\ Cardinality({i \in 1 .. k + 1 : i \in W})
                = Cardinality({i \in 1 .. k : i \in W}) + One(k + 1 \in W)
<1>. DEFINE T == {i \in 1 .. k : i \in W}
            U == {i \in 1 .. k + 1 : i \in W}
<1>1. IsFiniteSet(1 .. k)
  BY FS_Interval
<1>2. IsFiniteSet(T) /\ Cardinality(T) \in Nat
  BY <1>1, FS_Subset, FS_CardinalityType
<1>3. CASE k + 1 \in W
  <2>1. U = T \union {k + 1} /\ k + 1 \notin T
    BY <1>3
  <2>2. Cardinality(T \union {k + 1}) = Cardinality(T) + 1
    BY <1>2, <2>1, FS_AddElement
  <2>. QED BY <1>2, <1>3, <2>1, <2>2 DEF One
<1>4. CASE k + 1 \notin W
  <2>1. U = T
    BY <1>4
  <2>. QED BY <1>2, <1>4, <2>1 DEF One
<1>. QED BY <1>3, <1>4

(* The kinds of the first k games, as sets of their numbers.               *)
Firsts  == {i \in Nat : results[i].place = 1}
Seconds == {i \in Nat : results[i].place \in {1, 2}}
Crashes == {i \in Nat : results[i].verdict # "OK"}

(* The games counted are the first total - 1 of results.                   *)
LEMMA CountedIs ==
    ASSUME ResultsOK
    PROVE  /\ DOMAIN Counted = 1 .. total - 1
           /\ \A i \in 1 .. total - 1 : Counted[i] = results[i]
           /\ \A i \in 1 .. total - 1 : results[i] \in OwnResults
<1>1. \A i \in 1 .. total - 1 : i \in 1 .. Len(results)
  BY DEF ResultsOK
<1>2. \A i \in 1 .. total - 1 : results[i] \in OwnResults
  BY <1>1, ElementOfSeq DEF ResultsOK
<1>3. /\ Counted \in Seq(OwnResults) /\ Len(Counted) = total - 1
      /\ \A i \in 1 .. total - 1 : Counted[i] = results[i]
  BY <1>2, SubSeqProperties DEF Counted, ResultsOK
<1>. QED BY <1>2, <1>3, LenProperties

(* The counts, by the numbers of the games.                                *)
LEMMA CountsAre ==
    ASSUME ResultsOK
    PROVE  /\ Won = {i \in 1 .. total - 1 : i \in Firsts}
           /\ FirstOrSecond = {i \in 1 .. total - 1 : i \in Seconds}
           /\ Crashed = {i \in 1 .. total - 1 : i \in Crashes}
           /\ AllHaveResults <=> \A i \in 1 .. total - 1 : results[i] # Undefined
<1>1. total - 1 \in Nat
  BY DEF ResultsOK
<1>. QED BY <1>1, CountedIs
         DEF Won, FirstOrSecond, Crashed, AllHaveResults, Firsts, Seconds, Crashes
---------------------------------------------------------------------------------
(* Init, and what each step keeps *)

(* It holds when the first game of a batch starts.                         *)
LEMMA BatchInitInv == BatchInit => BInv
<1>. SUFFICES ASSUME BatchInit PROVE BInv
  OBVIOUS
<1>1. IInv /\ simulator = "starting"
  BY InitInv DEF BatchInit, HarnessInit, Init
<1>2. HarnessOK
  BY DEF BatchInit, HarnessInit, HarnessOK
<1>3. ResultsOK
  <2>1. results \in Seq(OwnResults) /\ Len(results) = 0
    BY EmptySeq DEF BatchInit
  <2>2. file.seed = 0
    BY DEF BatchInit, NoFile, File
  <2>. QED BY <1>1, <2>1, <2>2 DEF BatchInit, ResultsOK, Gone
<1>4. CountersOK
  <2>1. \A W : {i \in 1 .. total - 1 : i \in W} = {}
    BY DEF BatchInit
  <2>2. Won = {} /\ FirstOrSecond = {} /\ Crashed = {}
    BY <1>3, <2>1, CountsAre
  <2>3. Cardinality({}) = 0
    BY FS_EmptySet
  <2>. QED BY <2>2, <2>3
       DEF BatchInit, CountersOK, CountersAreTrue, ReportsOwnGame
<1>. QED BY <1>1, <1>2, <1>3, <1>4 DEF BInv

(* What a game does to its file and its result.                            *)
LEMMA PlayFiles ==
    ASSUME BInv, Play
    PROVE  \/ UNCHANGED <<file, results>> /\ Gone' = Gone
           \/ /\ ~Gone /\ Gone'
              /\ \E own \in OwnResults :
                   /\ results' = Append(results, own)
                   /\ own # Undefined => file'.lines # << >> /\ Head(file'.lines) = own
              /\ file'.seed \in {total, file.seed}
<1>1. CASE Gone = Gone'
  BY <1>1 DEF Play
<1>2. CASE Gone # Gone'
  <2>1. ~Gone /\ Gone'
    BY <1>2, HarnessInv DEF Play, BInv, Gone
  <2>2. ASSUME NEW verdicts \in SUBSET {"OK", "CRASHED"}, WriteResults(verdicts)
        PROVE  \E own \in OwnResults :
                  /\ results' = Append(results, own)
                  /\ own # Undefined => file'.lines # << >> /\ Head(file'.lines) = own
                  /\ file'.seed = total
    <3>1. PICK place \in Places, verdict \in verdicts :
            WriteFile(Result(place, verdict),
                      << Result(place, verdict),
                         Result(IF place = 1 THEN 2 ELSE 1, "OK") >>)
      BY <2>2 DEF WriteResults
    <3>2. Result(place, verdict) \in OwnResults
      BY DEF OwnResults
    <3>. QED BY <3>1, <3>2, Channels DEF WriteFile, File
  <2>3. Undefined \in OwnResults
    BY DEF OwnResults
  <2>4. CASE WriteFile(Undefined, << >>)
    <3>1. file'.seed = total /\ results' = Append(results, Undefined)
      BY <2>4 DEF WriteFile, File
    <3>. QED BY <2>1, <2>3, <3>1
  <2>5. CASE UNCHANGED file /\ results' = Append(results, Undefined)
    BY <2>1, <2>3, <2>5
  <2>6. CASE WriteResults({"OK", "CRASHED"}) \/ WriteResults({"CRASHED"})
    BY <2>1, <2>2, <2>6
  <2>. QED BY <1>2, <2>4, <2>5, <2>6 DEF Play
<1>. QED BY <1>1, <1>2

(* A step of a game.                                                       *)
LEMMA PlayInv == BInv /\ Play => BInv'
<1>. SUFFICES ASSUME BInv, Play PROVE BInv'
  OBVIOUS
<1>1. IInv' /\ HarnessOK'
  BY HarnessInv DEF BInv, Play
<1>2. UNCHANGED <<script, total, wins, pluses, crashes, reported>>
  BY DEF Play, counters
<1>3. ResultsOK /\ CountersOK
  BY DEF BInv
<1>4. /\ ResultsOK'
      /\ \A i \in 1 .. total - 1 : results'[i] = results[i]
  <2>1. CASE UNCHANGED <<file, results>> /\ Gone' = Gone
    BY <1>2, <1>3, <2>1 DEF ResultsOK
  <2>2. ASSUME ~Gone, Gone', file'.seed \in {total, file.seed},
               NEW own \in OwnResults, results' = Append(results, own),
               own # Undefined => file'.lines # << >> /\ Head(file'.lines) = own
        PROVE  <1>4!1 /\ <1>4!2
    <3>1. total \in Nat \ {0} /\ results \in Seq(OwnResults) /\ Len(results) = total - 1
      BY <1>3, <2>2 DEF ResultsOK
    <3>2. /\ results' \in Seq(OwnResults) /\ Len(results') = total
          /\ results'[total] = own
          /\ \A i \in 1 .. total - 1 : results'[i] = results[i]
      BY <2>2, <3>1, AppendProperties
    <3>. QED BY <1>2, <1>3, <2>2, <3>1, <3>2 DEF ResultsOK
  <2>. QED BY <2>1, <2>2, PlayFiles
<1>5. CountersOK'
  <2>1. DOMAIN Counted' = DOMAIN Counted /\ \A i \in DOMAIN Counted : Counted'[i] = Counted[i]
    <3>1. DOMAIN Counted = 1 .. total - 1 /\ \A i \in 1 .. total - 1 : Counted[i] = results[i]
      BY <1>3, CountedIs
    <3>2. (DOMAIN Counted = 1 .. total - 1 /\ \A i \in 1 .. total - 1 : Counted[i] = results[i])'
      BY <1>4, CountedIs, PTL
    <3>. QED BY <1>2, <1>4, <3>1, <3>2
  <2>2. UNCHANGED <<Won, FirstOrSecond, Crashed, AllHaveResults>>
    BY <2>1 DEF Won, FirstOrSecond, Crashed, AllHaveResults
  <2>. QED BY <1>2, <1>3, <2>2 DEF CountersOK, CountersAreTrue, ReportsOwnGame
<1>. QED BY <1>1, <1>4, <1>5 DEF BInv

(* A game is over and the next begins.                                     *)
LEMMA NextGame ==
    ASSUME BInv, GameDone, StartGame, UNCHANGED results
    PROVE  /\ IInv' /\ HarnessOK' /\ ~Gone' /\ Gone /\ Len(results) = total
           /\ pc = "exited" /\ loop = "ended" /\ total' = total + 1
           /\ total \in Nat \ {0} /\ results \in Seq(OwnResults)
<1>1. IInv'
  BY StartGameInv
<1>2. HarnessOK' /\ ~Gone' /\ total' = total + 1
  BY DEF StartGame, HarnessOK, Gone
<1>3. Gone /\ pc = "exited" /\ loop = "ended"
  BY DEF BInv, HarnessOK, GameDone
<1>4. Len(results) = total /\ total \in Nat \ {0} /\ results \in Seq(OwnResults)
  BY <1>3 DEF BInv, ResultsOK
<1>. QED BY <1>1, <1>2, <1>3, <1>4

(* run.pl counts the game.                                                 *)
LEMMA CountInv == BInv /\ Count => BInv'
<1>. SUFFICES ASSUME BInv, Count PROVE BInv'
  OBVIOUS
<1>1. /\ GameDone /\ StartGame /\ script = "run.pl"
      /\ wins' = wins + One(Parsed.place = 1)
      /\ pluses' = pluses + One(Parsed.place <= 2)
      /\ crashes' = crashes + One(Parsed.verdict # "OK")
      /\ UNCHANGED <<script, file, reported, results>>
  BY DEF Count
<1>2. /\ IInv' /\ HarnessOK' /\ ~Gone' /\ Gone /\ Len(results) = total
      /\ total' = total + 1 /\ total \in Nat \ {0} /\ results \in Seq(OwnResults)
  BY <1>1, NextGame
<1>3. ResultsOK'
  BY <1>1, <1>2 DEF ResultsOK
<1>4. ASSUME AllHaveResults'
      PROVE  CountersOK'
  <2>1. /\ Won' = {i \in 1 .. total : i \in Firsts}
        /\ FirstOrSecond' = {i \in 1 .. total : i \in Seconds}
        /\ Crashed' = {i \in 1 .. total : i \in Crashes}
        /\ \A i \in 1 .. total : results[i] # Undefined
    <3>1. UNCHANGED <<Firsts, Seconds, Crashes>>
      BY <1>1 DEF Firsts, Seconds, Crashes
    <3>2. ( /\ Won = {i \in 1 .. total - 1 : i \in Firsts}
            /\ FirstOrSecond = {i \in 1 .. total - 1 : i \in Seconds}
            /\ Crashed = {i \in 1 .. total - 1 : i \in Crashes}
            /\ AllHaveResults <=> \A i \in 1 .. total - 1 : results[i] # Undefined )'
      BY <1>3, CountsAre, PTL
    <3>3. total' - 1 = total
      BY <1>2
    <3>. QED BY <1>1, <1>4, <3>1, <3>2, <3>3
  <2>2. /\ Won = {i \in 1 .. total - 1 : i \in Firsts}
        /\ FirstOrSecond = {i \in 1 .. total - 1 : i \in Seconds}
        /\ Crashed = {i \in 1 .. total - 1 : i \in Crashes}
        /\ AllHaveResults
    BY <1>2, <2>1, CountsAre DEF BInv
  <2>3. /\ wins = Cardinality(Won) /\ pluses = Cardinality(FirstOrSecond)
        /\ crashes = Cardinality(Crashed)
    BY <1>1, <2>2 DEF BInv, CountersOK, CountersAreTrue
  <2>4. Parsed = results[total] /\ Parsed # Undefined
    BY <1>2, <2>1 DEF BInv, ResultsOK, Parsed
  <2>5. Parsed.place \in Nat \ {0}
    <3>1. Parsed \in OwnResults
      BY <1>2, <2>4, ElementOfSeq
    <3>. QED BY <2>4, <3>1, BatchAssumption DEF OwnResults, Result
  <2>6. /\ One(Parsed.place = 1) = One(total \in Firsts)
        /\ One(Parsed.place <= 2) = One(total \in Seconds)
        /\ One(Parsed.verdict # "OK") = One(total \in Crashes)
    BY <1>2, <2>4, <2>5 DEF Firsts, Seconds, Crashes, One
  <2>7. \A W : /\ Cardinality({i \in 1 .. total - 1 : i \in W}) \in Nat
               /\ Cardinality({i \in 1 .. total : i \in W})
                    = Cardinality({i \in 1 .. total - 1 : i \in W}) + One(total \in W)
    <3>1. total - 1 \in Nat /\ (total - 1) + 1 = total
      BY <1>2
    <3>. QED BY <3>1, OneMore
  <2>8. /\ wins' = Cardinality(Won') /\ pluses' = Cardinality(FirstOrSecond')
        /\ crashes' = Cardinality(Crashed')
    BY <1>1, <2>1, <2>2, <2>3, <2>6, <2>7
  <2>. QED BY <1>1, <2>8 DEF CountersOK, CountersAreTrue, ReportsOwnGame
<1>5. CountersOK'
  BY <1>1, <1>4 DEF CountersOK, CountersAreTrue, ReportsOwnGame
<1>. QED BY <1>2, <1>3, <1>5 DEF BInv

(* run-render.pl reports on the game.                                      *)
LEMMA RenderInv == BInv /\ Render => BInv'
<1>. SUFFICES ASSUME BInv, Render PROVE BInv'
  OBVIOUS
<1>1. /\ GameDone /\ StartGame /\ script = "run-render.pl"
      /\ reported' = file.seed /\ file' = NoFile
      /\ UNCHANGED <<script, results>>
  BY DEF Render, AfterRender
<1>2. /\ IInv' /\ HarnessOK' /\ ~Gone' /\ Gone /\ Len(results) = total
      /\ total' = total + 1 /\ total \in Nat \ {0} /\ results \in Seq(OwnResults)
  BY <1>1, NextGame
<1>3. ResultsOK'
  BY <1>1, <1>2 DEF ResultsOK, NoFile, File
<1>4. CountersOK'
  BY <1>1, <1>2 DEF BInv, ResultsOK, CountersOK, CountersAreTrue, ReportsOwnGame
<1>. QED BY <1>2, <1>3, <1>4 DEF BInv

(* Every step of a game and of the scripts around it keeps it.             *)
LEMMA BatchNextInv == BInv /\ [BatchNext]_bvars => BInv'
<1>1. ASSUME BInv, UNCHANGED bvars PROVE BInv'
  <2>1. UNCHANGED vars /\ UNCHANGED <<loop, parent, script, total, file, wins, pluses,
                                      crashes, reported, results>>
    BY <1>1 DEF bvars, hvars, harness, batch, counters
  <2>2. IInv'
    BY <1>1, <2>1, NextInv DEF BInv
  <2>3. UNCHANGED <<pc, simulator>>
    BY <2>1 DEF vars, client, server
  <2>4. HarnessOK'
    BY <1>1, <2>1, <2>3 DEF BInv, HarnessOK, Gone
  <2>5. ResultsOK'
    BY <1>1, <2>1, <2>3 DEF BInv, ResultsOK, Gone
  <2>6. CountersOK'
    BY <1>1, <2>1 DEF BInv, CountersOK, CountersAreTrue, ReportsOwnGame, Won,
       FirstOrSecond, Crashed, AllHaveResults, Counted
  <2>. QED BY <2>2, <2>4, <2>5, <2>6 DEF BInv
<1>. QED BY <1>1, PlayInv, CountInv, RenderInv DEF BatchNext, BatchScript
---------------------------------------------------------------------------------
(* The theorems *)

(* It holds in every reachable state.                                      *)
LEMMA BatchInvariant == BatchSpec => []BInv
BY BatchInitInv, BatchNextInv, PTL DEF BatchSpec

(* run.pl's counters count the games our strategy has won, come first or   *)
(* second in, and crashed in, as long as every game has come to a result.  *)
THEOREM CountersStayTrue == BatchSpec => []CountersAreTrue
<1>1. BInv => CountersAreTrue
  BY DEF BInv, CountersOK
<1>. QED BY <1>1, BatchInvariant, PTL

(* What run-render.pl reports on is the game it has just played, or none.  *)
THEOREM ReportsTheGamePlayed == BatchSpec => []ReportsOwnGame
<1>1. BInv => ReportsOwnGame
  BY DEF BInv, CountersOK
<1>. QED BY <1>1, BatchInvariant, PTL

(* run-once.pl starts a process again only if the simulator has not heard  *)
(* of the one before.                                                      *)
THEOREM NobodyHeardTwice == BatchSpec => RestartsOnlyUnheard
<1>1. BInv /\ [BatchNext]_bvars =>
        [loop = "running" /\ pc = "exited" /\ pc' # "exited" =>
           asked = << >> /\ to_simulator = << >> /\ to_client = << >>
           /\ simulator \in {"starting", "listening", "gone"}]_hvars
  <2>. SUFFICES ASSUME BInv, BatchNext, loop = "running", pc = "exited", pc' # "exited"
                PROVE  Unheard
    BY DEF bvars, Unheard, NothingAsked
  <2>1. CASE Play
    BY <2>1, HarnessInv DEF Play, BInv
  <2>2. CASE BatchScript
    <3>1. GameDone
      BY <2>2 DEF BatchScript, Count, Render
    <3>. QED BY <3>1 DEF GameDone, BInv, HarnessOK
  <2>. QED BY <2>1, <2>2 DEF BatchNext
<1>. QED BY <1>1, BatchInvariant, PTL DEF BatchSpec, RestartsOnlyUnheard

(* A game starts only when both processes of the one before have ended.    *)
THEOREM NoTwoGames == BatchSpec => OneGameAtATime
<1>1. BInv /\ [BatchNext]_bvars =>
        [total' # total => Gone /\ pc = "exited" /\ loop = "ended"]_total
  <2>. SUFFICES ASSUME BInv, BatchNext, total' # total
                PROVE  Gone /\ pc = "exited" /\ loop = "ended"
    BY DEF bvars, batch
  <2>1. Count \/ Render
    BY DEF BatchNext, Play, BatchScript
  <2>2. GameDone
    BY <2>1 DEF Count, Render
  <2>. QED BY <2>2 DEF GameDone, BInv, HarnessOK
<1>. QED BY <1>1, BatchInvariant, PTL DEF BatchSpec, OneGameAtATime
==================================================================================
