------------------------------- MODULE ByteStream -------------------------------
(***************************************************************************)
(* The byte transport of the client: RemoteProcessClient::readBytes and    *)
(* writeBytes, which loop over partial transfers, on top of                *)
(* CSimpleSocket::Receive and Send, which loop over interrupted system     *)
(* calls, on top of a connected TCP socket whose kernel accepts and        *)
(* delivers as many bytes at a time as it likes.                           *)
(*                                                                         *)
(* A step is one system call and the code that runs until the next one.    *)
(* The client's use of the two functions is a fixed script of calls.  A    *)
(* byte stands for its place in the stream it belongs to.                  *)
(***************************************************************************)
EXTENDS Integers, Sequences

CONSTANTS
    Script,         \* the calls: [op |-> "write", bytes |-> s], [op |-> "read", count |-> n]
    Incoming,       \* the bytes the peer sends
    Garbage,        \* what an uninitialized byte holds
    MaxInterrupts,  \* bound: system calls that signals interrupt
    MaxSent         \* bound: bytes the kernel accepts from the client

VARIABLES
    call,               \* the call of the script being made
    pc,                 \* where its loops are
    offset,             \* bytes transferred by the current call
    bytes,              \* the vector readBytes fills
    errno,              \* the C library's: set by failures, kept by successes
    m_nBytesReceived,   \* result of the last RECV; 0 as Receive starts
    m_pBuffer,          \* Receive's buffer, << >> for NULL
    got,                \* bytes returned by the reads that are done
    sent,               \* bytes the kernel has accepted
    consumed,           \* how many of the peer's bytes RECV has returned
    limit,              \* how many the peer sends before it closes
    closed,             \* TRUE once the peer has closed the connection
    interrupts,         \* system calls interrupted so far
    exit_code,          \* of the process; 0 while it runs
    corrupted           \* TRUE once RECV has written outside the buffer

program == <<call, pc, offset, bytes, errno, m_nBytesReceived, m_pBuffer, got,
             exit_code, corrupted>>
kernel  == <<sent, consumed, limit, closed, interrupts>>
vars    == <<program, kernel>>

Calls == [op: {"write"}, bytes: Seq(Nat)] \union [op: {"read"}, count: Nat]

ASSUME ScriptAssumption ==
    /\ Script \in Seq(Calls) /\ Script # << >>
    /\ Incoming \in Seq(Nat)
    /\ Garbage \notin Nat
    /\ MaxInterrupts \in Nat /\ MaxSent \in Nat

Init ==
    /\ call = 1 /\ pc = "call"
    /\ offset = 0 /\ bytes = << >>
    /\ errno = "SUCCESS"
    /\ m_nBytesReceived = 0 /\ m_pBuffer = << >>
    /\ got = << >>
    /\ exit_code = 0 /\ corrupted = FALSE
    /\ sent = << >> /\ consumed = 0
    /\ limit = Len(Incoming) /\ closed = FALSE
    /\ interrupts = 0
---------------------------------------------------------------------------------
Current == Script[call]

(* byteCount of the current call.                                          *)
ByteCount ==
    IF Current.op = "write" THEN Len(Current.bytes) ELSE Current.count

(* The call returns what it read; the script goes on.                      *)
CallReturns(result) ==
    /\ got' = got \o result
    /\ call' = call + 1
    /\ pc' = IF call = Len(Script) THEN "done" ELSE "call"
    /\ UNCHANGED exit_code

(* exit(code), or the process ends by a signal.                            *)
Killed == -1

Exit(code) ==
    /\ pc' = "exited" /\ exit_code' = code
    /\ UNCHANGED <<call, got>>

(* Mutant: Receive keeps any buffer it has.                                *)
BufferKept(nMaxBytes) ==
    IF m_pBuffer # << >> THEN m_pBuffer
    ELSE [i \in 1 .. nMaxBytes |-> Garbage]

(* Receive keeps its buffer while it is asked for as many bytes as before; *)
(* otherwise it allocates one, uninitialized.                              *)
Buffer(nMaxBytes) ==
    IF Len(m_pBuffer) = nMaxBytes THEN m_pBuffer
    ELSE [i \in 1 .. nMaxBytes |-> Garbage]

(* A call starts: the while loop of writeBytes or readBytes is entered     *)
(* with offset 0, or not at all if there is nothing to transfer.           *)
Begin ==
    /\ pc = "call"
    /\ offset' = 0
    /\ IF ByteCount = 0
       THEN CallReturns(<< >>) /\ UNCHANGED <<bytes, m_nBytesReceived, m_pBuffer>>
       ELSE /\ UNCHANGED <<call, got, exit_code>>
            /\ IF Current.op = "write"
               THEN /\ pc' = "send"
                    /\ UNCHANGED <<bytes, m_nBytesReceived, m_pBuffer>>
               ELSE /\ pc' = "recv"
                    /\ bytes' = [i \in 1 .. ByteCount |-> Garbage]
                    /\ m_nBytesReceived' = 0
                    /\ m_pBuffer' = Buffer(ByteCount)
    /\ UNCHANGED <<errno, corrupted, kernel>>

(* What a system call can return.  Its count is -1 when it fails, and only *)
(* then does it set errno.                                                 *)
Succeeds(n) == [n |-> n, errno |-> errno]
Fails(err)  == [n |-> -1, errno |-> err]

Interrupted == {Fails("EINTR") : i \in interrupts + 1 .. MaxInterrupts}
Reset       == IF closed THEN {Fails("ECONNRESET")} ELSE {}

SendResults ==
    { Succeeds(n) : n \in { k \in 1 .. ByteCount - offset :
                               Len(sent) + k <= MaxSent } }
      \union Interrupted \union Reset

(* RECV waits while the peer is connected and has sent nothing more.       *)
RecvResults ==
    { Succeeds(n) : n \in { k \in 1 .. ByteCount - offset :
                               consumed + k <= limit } }
      \union { Succeeds(n) : n \in {k \in {0} : closed /\ consumed = limit} }
      \union Interrupted \union Reset

(* Mutant: neither loop is there.                                          *)
IsNeverInterrupted(r) == FALSE

(* TranslateSocketError, GetSocketError and the test of both do loops: the *)
(* error is read from errno, whatever the call has returned.               *)
IsInterrupted(r) == r.errno = "EINTR"

Counted(r) == interrupts' = interrupts + (IF r = Fails("EINTR") THEN 1 ELSE 0)

Positive(n) == IF n > 0 THEN n ELSE 0

(* SEND takes the first n bytes of what is left of the vector.             *)
Accepted(r) ==
    sent' = sent \o SubSeq(Current.bytes, offset + 1, offset + Positive(r.n))

(* Send goes round its loop: the same bytes are sent again.                *)
SendAgain ==
    /\ pc = "send"
    /\ \E r \in SendResults :
          IsInterrupted(r) /\ errno' = r.errno /\ Accepted(r) /\ Counted(r)
    /\ UNCHANGED <<call, pc, offset, bytes, m_nBytesReceived, m_pBuffer, got,
                   exit_code, corrupted, consumed, limit, closed>>

(* Mutants: the count is one short; it replaces what was counted before.   *)
AdvanceShort(n) == offset' = offset + n - 1

AdvanceAssigned(n) == offset' = n

(* The loops of readBytes and writeBytes count what was transferred.       *)
Advance(n) == offset' = offset + n

(* Send returns to writeBytes, which goes on until all is sent.            *)
Send ==
    /\ pc = "send"
    /\ \E r \in SendResults :
          /\ ~IsInterrupted(r)
          /\ errno' = r.errno /\ Accepted(r) /\ Counted(r)
          /\ IF r.n > 0
             THEN /\ Advance(r.n)
                  /\ IF offset' < ByteCount
                     THEN UNCHANGED <<call, pc, got, exit_code>>
                     ELSE CallReturns(<< >>)
             ELSE Exit(10013) /\ UNCHANGED offset
    /\ UNCHANGED <<bytes, m_nBytesReceived, m_pBuffer, corrupted, consumed,
                   limit, closed>>

(* Without a handler for it, SIGPIPE ends the process that sends to a      *)
(* closed connection.                                                      *)
BrokenPipe ==
    /\ pc = "send" /\ closed
    /\ Exit(Killed)
    /\ UNCHANGED <<offset, bytes, errno, m_nBytesReceived, m_pBuffer, corrupted,
                   kernel>>

(* RECV puts the bytes it returns at m_pBuffer + m_nBytesReceived: with    *)
(* what an interrupted call has left there, before the buffer (-1) or      *)
(* behind what came last, up to beyond its end.                            *)
Filled(r) ==
    [ i \in DOMAIN m_pBuffer |->
        LET k == i - m_nBytesReceived
        IN  IF k \in 1 .. Positive(r.n) THEN Incoming[consumed + k]
            ELSE m_pBuffer[i] ]

Overrun(r) ==
    corrupted' = (corrupted \/ \E k \in 1 .. Positive(r.n) :
                                  m_nBytesReceived + k \notin DOMAIN m_pBuffer)

(* What is written there belongs to the allocator or to another object:    *)
(* the behaviour is undefined.  From then on the process may end at any    *)
(* moment, or find its vector overwritten, or get away with it.            *)
HeapDamage ==
    /\ corrupted /\ pc \in {"call", "send", "recv"}
    /\ \/ Exit(Killed) /\ UNCHANGED bytes
       \/ /\ bytes' = [i \in DOMAIN bytes |-> Garbage]
          /\ UNCHANGED <<call, pc, got, exit_code>>
    /\ UNCHANGED <<offset, errno, m_nBytesReceived, m_pBuffer, corrupted, kernel>>

Delivered(r) == consumed' = consumed + Positive(r.n)

(* Receive goes round its loop.                                            *)
ReceiveAgain ==
    /\ pc = "recv"
    /\ \E r \in RecvResults :
          /\ IsInterrupted(r)
          /\ errno' = r.errno /\ Delivered(r) /\ Counted(r)
          /\ m_pBuffer' = Filled(r) /\ Overrun(r)
          /\ m_nBytesReceived' = r.n
    /\ UNCHANGED <<call, pc, offset, bytes, got, exit_code, sent, limit, closed>>

(* Mutants: readBytes copies to the start of the vector; it returns after  *)
(* the first delivery, however short.                                      *)
CopiedToStart(buffer, n) ==
    [i \in DOMAIN bytes |-> IF i \in 1 .. n THEN buffer[i] ELSE bytes[i]]

EnoughAtOnce == TRUE

(* memcpy(&bytes[offset], socket.GetData(), receivedByteCount)             *)
Copied(buffer, n) ==
    [ i \in DOMAIN bytes |->
        IF i - offset \in 1 .. n THEN buffer[i - offset] ELSE bytes[i] ]

(* The loop condition of readBytes after a delivery.                       *)
Enough == offset' >= ByteCount

(* Receive returns to readBytes, which goes on until all has come.  A      *)
(* failed or ended Receive leaves it short and ends the process.           *)
Receive ==
    /\ pc = "recv"
    /\ \E r \in RecvResults :
          /\ ~IsInterrupted(r)
          /\ errno' = r.errno /\ Delivered(r) /\ Counted(r) /\ Overrun(r)
          /\ IF r.n > 0
             THEN /\ Advance(r.n)
                  /\ bytes' = Copied(Filled(r), r.n)
                  /\ IF Enough
                     THEN /\ CallReturns(bytes')
                          /\ m_pBuffer' = Filled(r) /\ m_nBytesReceived' = r.n
                     ELSE /\ UNCHANGED <<call, pc, got, exit_code>>
                          /\ m_pBuffer' = Buffer(ByteCount - offset')
                          /\ m_nBytesReceived' = 0
             ELSE /\ Exit(10012)
                  /\ m_pBuffer' = IF r.n = -1 THEN << >> ELSE m_pBuffer
                  /\ m_nBytesReceived' = r.n
                  /\ UNCHANGED <<offset, bytes>>
    /\ UNCHANGED <<sent, limit, closed>>

(* The peer goes away; what it has sent by then still arrives.             *)
PeerCloses ==
    /\ ~closed /\ pc \notin {"done", "exited"}
    /\ closed' = TRUE
    /\ limit' \in consumed .. Len(Incoming)
    /\ UNCHANGED <<program, sent, consumed, interrupts>>

Next ==
    \/ Begin \/ Send \/ SendAgain \/ BrokenPipe
    \/ Receive \/ ReceiveAgain \/ HeapDamage \/ PeerCloses

(* The client runs on, and a peer that stays connected sends what the      *)
(* client waits for; signals need not come.                                *)
Spec == Init /\ [][Next]_vars
          /\ WF_vars(Begin)
          /\ WF_vars(Send) /\ WF_vars(SendAgain /\ UNCHANGED interrupts)
          /\ WF_vars(Receive) /\ WF_vars(ReceiveAgain /\ UNCHANGED interrupts)
---------------------------------------------------------------------------------
(* Properties *)

(* The variables keep their types, and the socket's buffer is as large as  *)
(* what readBytes still asks for.                                          *)
TypeOK ==
    /\ call \in 1 .. Len(Script) + 1
    /\ pc \in {"call", "send", "recv", "done", "exited"}
    /\ pc = "done" <=> call = Len(Script) + 1
    /\ offset \in Nat
    /\ bytes \in Seq(Nat \union {Garbage})
    /\ errno \in {"SUCCESS", "EINTR", "ECONNRESET"}
    /\ m_nBytesReceived \in Nat \union {-1}
    /\ m_pBuffer \in Seq(Nat \union {Garbage})
    /\ pc = "recv" => Len(bytes) = ByteCount /\ Len(m_pBuffer) = ByteCount - offset
    /\ got \in Seq(Nat \union {Garbage}) /\ sent \in Seq(Nat)
    /\ consumed \in 0 .. limit /\ limit \in 0 .. Len(Incoming)
    /\ closed \in BOOLEAN /\ interrupts \in 0 .. MaxInterrupts
    /\ exit_code \in {0, 10012, 10013, Killed} /\ corrupted \in BOOLEAN

(* Everything the first n calls of the script write.                       *)
Written[n \in 0 .. Len(Script)] ==
    IF n = 0 THEN << >>
    ELSE Written[n - 1] \o (IF Script[n].op = "write" THEN Script[n].bytes
                            ELSE << >>)

(* However the kernel splits the transfers, while no signal comes the peer *)
(* is sent every byte of the calls that are done and the first offset      *)
(* bytes of the current one, once each and in order.                       *)
SentOnceInOrder ==
    interrupts = 0 =>
      sent = Written[call - 1]
               \o (IF pc \in {"send", "exited"} /\ Current.op = "write"
                   THEN SubSeq(Current.bytes, 1, offset) ELSE << >>)

(* While no signal comes, no byte of the peer's stream is lost or altered  *)
(* on its way through the socket's buffer: between two system calls what   *)
(* the reads have returned and the current one has copied is all that RECV *)
(* has delivered.                                                          *)
NoneLost ==
    interrupts = 0 /\ pc # "exited" =>
      got \o (IF pc = "recv" THEN SubSeq(bytes, 1, offset) ELSE << >>)
        = SubSeq(Incoming, 1, consumed)

(* The process ends inside a call only if the peer has gone away: always   *)
(* so inside a write and while no signal comes.  It ends with the peer     *)
(* there only inside a read in which, after a signal, RECV has written     *)
(* outside its buffer.                                                     *)
ExitsOnlyIfClosed ==
    pc = "exited" =>
        closed \/ (corrupted /\ interrupts > 0 /\ Current.op = "read")

(* A resent call sends what was not sent before: the peer never gets more  *)
(* bytes than the calls made so far have asked to write.                   *)
NeverOversent ==
    Len(sent) <= Len(Written[IF pc = "done" THEN Len(Script) ELSE call])

(* Every call returns or ends the process, unless a signal comes: it may   *)
(* leave Send and Receive going round their loops on an errno of long ago. *)
Finishes == <>(pc \in {"done", "exited"} \/ interrupts > 0)

(* Whole calls, one after the other: the transport of BytePipe.            *)
Pipe ==
    INSTANCE BytePipe
      WITH done <- call - 1, failed <- (pc = "exited"),
           interrupted <- (interrupts > 0)

IsBytePipe == Pipe!Spec
=================================================================================
