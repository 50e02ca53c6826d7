---------------------------------- MODULE Batch ----------------------------------
(***************************************************************************)
(* local-runner/run.pl and run-render.pl: games one after the other, each  *)
(* played by run-once.pl (Harness), whose result the script takes from the *)
(* file result.txt.  run.pl plays on and counts; run-render.pl plays one   *)
(* game, is started again by hand, and removes the file when it is done.   *)
(*                                                                         *)
(* The simulator, which is external, writes the file before it ends, in    *)
(* the format read.me gives: the verdict of the game, its seed, and a line *)
(* for each of the strategies, the first of which is ours; or a file that  *)
(* says FAILED, without those lines; or none, if it is killed.             *)
(***************************************************************************)
EXTENDS Harness, FiniteSets

CONSTANTS
    Places,         \* places a strategy may come in
    MaxGames        \* bound: games played

ASSUME BatchAssumption == Places \subseteq Nat \ {0} /\ MaxGames \in Nat \ {0}

VARIABLES
    script,         \* "run.pl", or "run-render.pl", over and over
    total,          \* the game being played; its seed
    file,           \* result.txt
    wins, pluses, crashes,
    reported,       \* seed of the game run-render.pl has last reported on
    results         \* what each game was for our strategy, if it came to that

counters == <<wins, pluses, crashes, reported>>
batch    == <<script, total, file, counters, results>>
bvars    == <<hvars, batch>>

Result(place, verdict) == [place |-> place, verdict |-> verdict]

(* Variables no line has set: 0 as numbers, and not the string OK.         *)
Undefined == Result(0, "")

File(seed, lines) == [seed |-> seed, lines |-> lines]
NoFile == File(0, << >>)

BatchInit ==
    /\ HarnessInit
    /\ script \in {"run.pl", "run-render.pl"}
    /\ total = 1 /\ file = NoFile
    /\ wins = 0 /\ pluses = 0 /\ crashes = 0 /\ reported = 0
    /\ results = << >>
---------------------------------------------------------------------------------
(* A game (run-once.pl and the simulator's file) *)

WriteFile(own, lines) ==
    /\ file' = File(total, lines)
    /\ results' = Append(results, own)

(* A game that ends by itself, and one that has lost our strategy, have    *)
(* results for all strategies.                                             *)
WriteResults(verdicts) ==
    \E place \in Places, verdict \in verdicts :
      LET own == Result(place, verdict)
      IN  WriteFile(own, << own, Result(IF place = 1 THEN 2 ELSE 1, "OK") >>)

Play ==
    /\ total <= MaxGames
    /\ HarnessNext
    /\ IF Gone = Gone'
       THEN UNCHANGED <<file, results>>
       ELSE \/ simulator' = "left" /\ WriteResults({"OK", "CRASHED"})
            \/ /\ simulator' = "gone"
               /\ \/ pc = "exited" /\ WriteResults({"CRASHED"})
                  \/ WriteFile(Undefined, << >>)
                  \/ UNCHANGED file /\ results' = Append(results, Undefined)
    /\ UNCHANGED <<script, total, counters>>
---------------------------------------------------------------------------------
(* The loop of run.pl *)

(* Mutant: the loop over the lines is not left at the first result.        *)
ParsedLast ==
    IF file.lines = << >> THEN Undefined ELSE file.lines[Len(file.lines)]

Parsed == IF file.lines = << >> THEN Undefined ELSE Head(file.lines)

One(condition) == IF condition THEN 1 ELSE 0

(* Mutant: run-once.pl is not waited for.                                  *)
GameDoneAtOnce == Gone

(* The backquotes wait for run-once.pl.                                    *)
GameDone == parent = "done"

StartGame ==
    /\ total' = total + 1
    /\ pc' = "connect" /\ cells' = FALSE /\ strategies' = 0
    /\ context' = NoContext /\ exit_code' = 0
    /\ simulator' = "starting" /\ asked' = << >> /\ answers' = << >>
    /\ to_client' = << >> /\ to_simulator' = << >>
    /\ loop' = "running" /\ parent' = "runner"

Count ==
    /\ script = "run.pl" /\ GameDone /\ total <= MaxGames
    /\ wins' = wins + One(Parsed.place = 1)
    /\ pluses' = pluses + One(Parsed.place <= 2)
    /\ crashes' = crashes + One(Parsed.verdict # "OK")
    /\ StartGame
    /\ UNCHANGED <<script, file, reported, results>>
---------------------------------------------------------------------------------
(* run-render.pl *)

(* Mutant: the file is left where it is.                                   *)
KeptFile == file

AfterRender == NoFile

Render ==
    /\ script = "run-render.pl" /\ GameDone /\ total <= MaxGames
    /\ reported' = file.seed
    /\ crashes' = crashes + One(Parsed.verdict # "OK")
    /\ file' = AfterRender
    /\ StartGame
    /\ UNCHANGED <<script, wins, pluses, results>>

BatchScript == Count \/ Render

BatchNext == Play \/ BatchScript

(* The scripts and the process run; the simulator may do what it likes.    *)
BatchSpec ==
    /\ BatchInit /\ [][BatchNext]_bvars
    /\ WF_bvars(Client /\ UNCHANGED <<harness, batch>>)
    /\ WF_bvars(Script /\ UNCHANGED batch)
    /\ WF_bvars(BatchScript)
---------------------------------------------------------------------------------
(* Properties *)

Counted == SubSeq(results, 1, total - 1)

Won           == {i \in DOMAIN Counted : Counted[i].place = 1}
FirstOrSecond == {i \in DOMAIN Counted : Counted[i].place \in {1, 2}}
Crashed       == {i \in DOMAIN Counted : Counted[i].verdict # "OK"}

AllHaveResults == \A i \in DOMAIN Counted : Counted[i] # Undefined

(* As long as every game has come to a result, the counters say how many   *)
(* of them our strategy has won, come first or second in, and crashed in:  *)
(* a game's file is read after it is written and before the next one's.    *)
CountersAreTrue ==
    script = "run.pl" /\ AllHaveResults =>
      /\ wins    = Cardinality(Won)
      /\ pluses  = Cardinality(FirstOrSecond)
      /\ crashes = Cardinality(Crashed)

(* run.pl counts a plus for a game only if our strategy has come first or  *)
(* second in it: read.me gives the place in the line of a strategy.        *)
PlusesAreEarned ==
    pluses <= Cardinality(FirstOrSecond)

(* run-render.pl never reports on an earlier game than the one it has      *)
(* played, also if that one has written no file.                           *)
ReportsOwnGame ==
    script = "run-render.pl" => reported \in {0, total - 1}

(* The next game starts only when no process of the last one runs, so the  *)
(* simulators of two games never want the same port, and never write the   *)
(* same file at the same time.                                             *)
OneGameAtATime ==
    [][total' # total => Gone /\ pc = "exited" /\ loop = "ended"]_total

(* A game that was entered is counted, or reported, once its simulator has *)
(* gone.                                                                   *)
EnteredGamesEnd ==
    \A n \in 1 .. MaxGames :
        (total = n /\ Gone /\ Connected) ~> total > n
=================================================================================
