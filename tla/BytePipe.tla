-------------------------------- MODULE BytePipe --------------------------------
(***************************************************************************)
(* What RemoteProcessClient needs of its byte transport: a script of       *)
(* writeBytes and readBytes calls is carried out one whole call after the  *)
(* other, a read returning the next bytes of the peer's stream, all of     *)
(* them, in order; or the process ends in the middle of a call.  Nothing   *)
(* is promised once a signal has interrupted the transport.                *)
(***************************************************************************)
EXTENDS Integers, Sequences

CONSTANTS
    Script,     \* the calls: [op |-> "write", bytes |-> s], [op |-> "read", count |-> n]
    Incoming    \* the bytes the peer sends

VARIABLES
    done,       \* how many calls have returned
    got,        \* the bytes the reads among them returned, in order
    failed,     \* TRUE once the process has ended inside a call
    interrupted \* TRUE once a signal has come in the middle of one

vars == <<done, got, failed, interrupted>>

Init == done = 0 /\ got = << >> /\ failed = FALSE /\ interrupted = FALSE

Pending == ~failed /\ done < Len(Script)

(* The bytes call k returns when n bytes of the stream are used up.        *)
Returned(k, n) ==
    IF Script[k].op = "read" THEN SubSeq(Incoming, n + 1, n + Script[k].count)
    ELSE << >>

Finish ==
    /\ Pending
    /\ Script[done + 1].op = "read" =>
          Len(got) + Script[done + 1].count <= Len(Incoming)
    /\ done' = done + 1
    /\ got' = got \o Returned(done + 1, Len(got))
    /\ UNCHANGED <<failed, interrupted>>

Fail == Pending /\ failed' = TRUE /\ UNCHANGED <<done, got, interrupted>>

Interrupted == interrupted' = TRUE

Spec == Init /\ [][Finish \/ Fail \/ Interrupted]_vars
=================================================================================
