--------------------------------- MODULE Harness ---------------------------------
(***************************************************************************)
(* local-runner/run-once.pl: one game on the developer's machine.  The     *)
(* script forks twice.  One child runs the simulator; the other starts     *)
(* MyStrategy, and starts it again for as long as its exit code says that  *)
(* the simulator was not listening yet; the parent waits for the one and   *)
(* then for the other.  The process and the simulator are those of         *)
(* Session, which this module extends.                                     *)
(***************************************************************************)
EXTENDS Session

VARIABLES
    loop,       \* the child that restarts MyStrategy: "running", "ended"
    parent      \* what the parent waits for: "runner", "strategy", or "done"

harness == <<loop, parent>>
hvars   == <<vars, harness>>

HarnessInit == Init /\ loop = "running" /\ parent = "runner"

(* $? >> 8: a process that is killed leaves its signal in the low bits;    *)
(* what it passes to exit() is cut to 8 bits.                              *)
ShellCode(code) == IF code = Killed THEN 0 ELSE code % 256

(* Mutant: $? is compared before it is shifted.                            *)
RefusedUnshifted == ShellCode(exit_code) * 256 = 17

(* Mutant: whatever goes wrong, the process is started again.              *)
RefusedOnError == exit_code # 0

(* $code == 17, which 10001 leaves.                                        *)
Refused == ShellCode(exit_code) = 17

Restart ==
    /\ loop = "running" /\ pc = "exited" /\ Refused
    /\ pc' = "connect" /\ cells' = FALSE /\ strategies' = 0
    /\ context' = NoContext /\ exit_code' = 0
    /\ UNCHANGED <<server, to_client, to_simulator, harness>>

Leave ==
    /\ loop = "running" /\ pc = "exited" /\ ~Refused
    /\ loop' = "ended"
    /\ UNCHANGED <<vars, parent>>

(* Mutant: only the strategy is waited for.                                *)
RunnerEndedAlways == TRUE

RunnerEnded == Gone

ReapRunner ==
    /\ parent = "runner" /\ RunnerEnded
    /\ parent' = "strategy"
    /\ UNCHANGED <<vars, loop>>

ReapStrategy ==
    /\ parent = "strategy" /\ loop = "ended"
    /\ parent' = "done"
    /\ UNCHANGED <<vars, loop>>

Script == Restart \/ Leave \/ ReapRunner \/ ReapStrategy

HarnessNext == Script \/ (Next /\ UNCHANGED harness)
----------------------------------------------------------------------------------
(* Properties *)

Connected == pc \notin {"connect", "exited"}

(* A process is started again only if the simulator never heard of the one *)
(* before: no other of the client's twenty exit codes, cut to 8 bits, is   *)
(* taken for a refused connection, so no game is entered twice.            *)
RestartsOnlyUnheard ==
    [][loop = "running" /\ pc = "exited" /\ pc' # "exited" =>
          asked = << >> /\ to_simulator = << >> /\ to_client = << >>
          /\ simulator \in {"starting", "listening", "gone"}]_hvars

(* A simulator slower to start than the strategy still gets its client.    *)
SlowSimulatorServed ==
    simulator = "listening" ~> (Connected \/ Gone)
==================================================================================
