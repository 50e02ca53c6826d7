------------------------------ MODULE ActiveSocket ------------------------------
(***************************************************************************)
(* A CActiveSocket and its user: Initialize, SetNonblocking, SetBlocking,  *)
(* Open with ConnectTCP and Select, Shutdown and Close.  The user is       *)
(* RemoteProcessClient, which calls Initialize and Open once, or any other *)
(* that makes these calls in whatever order, and again when they fail.     *)
(*                                                                         *)
(* The kernel's part, which is external, is the set of open descriptors    *)
(* and, of the one the handle names, its mode and its connection, which    *)
(* the kernel makes or gives up while the process waits or goes on.  What  *)
(* becomes of a descriptor without a handle is left out.                   *)
(***************************************************************************)
EXTENDS Integers, FiniteSets

CONSTANTS
    Ports,          \* what atoi() made of the port's name
    Half,           \* of the values of an int16: 2^15
    Lookups,        \* what gethostbyname may find
    HasTimeout,     \* the connect timeout is not 0: 1 s unless it is changed
    MaxSockets,     \* bound: descriptors made
    MaxSignals      \* bound: system calls interrupted

ASSUME SocketAssumption ==
    /\ Ports \subseteq Int /\ Half \in Nat \ {0}
    /\ Lookups \subseteq {"found", "HOST_NOT_FOUND", "TRY_AGAIN"}
    /\ HasTimeout \in BOOLEAN

VARIABLES
    m_socket, m_socketErrno, m_bIsBlocking,
    errno,
    call,           \* where a call waits: "connect", "select", or "none"
    requested,      \* the port the user asked for
    lookup,         \* what gethostbyname has last found, if it was asked
    last, result,   \* the last call that has returned, and its value
    descriptors,    \* the process's open sockets
    made,           \* how many it has made
    replaced,       \* TRUE once a handle of an open one has been overwritten
    close_failed,   \* TRUE if CLOSE of the handle has failed
    nonblocking,    \* the descriptor's mode
    connection,     \* "none", "connecting", "made", "refused"
    known,          \* TRUE once the kernel has reported that it is made
    port,           \* it is made with
    signals

object     == <<m_socket, m_socketErrno, m_bIsBlocking>>
caller     == <<call, requested, lookup, last, result>>
table      == <<descriptors, made, replaced, close_failed>>
descriptor == <<nonblocking, connection, known, port>>
vars == <<object, errno, caller, table, descriptor, signals>>

INVALID_SOCKET == -1

Init ==
    /\ m_socket = INVALID_SOCKET /\ m_socketErrno = "SocketInvalidSocket"
    /\ m_bIsBlocking = TRUE
    /\ errno = "0"
    /\ call = "none" /\ requested = 0 /\ lookup = "none" /\ last = "none" /\ result = TRUE
    /\ descriptors = {} /\ made = 0 /\ replaced = FALSE /\ close_failed = FALSE
    /\ nonblocking = FALSE /\ connection = "none" /\ known = FALSE /\ port = 0
    /\ signals = 0

IsSocketValid == m_socket # INVALID_SOCKET
IsNonblocking == ~m_bIsBlocking

(* The kernel knows the handle; if not, a call with it sets EBADF.         *)
IsOpen == m_socket \in descriptors

(* TranslateSocketError, of the errors that come up here.                  *)
Translation ==
    [ e \in {"0", "EBADF", "EMFILE", "ENOTCONN", "ECONNREFUSED", "EINPROGRESS",
             "EINTR", "EALREADY", "EISCONN", "EIO"} |->
        CASE e = "0"                   -> "SocketSuccess"
          [] e \in {"EBADF", "EMFILE"} -> "SocketInvalidSocket"
          [] e = "ENOTCONN"            -> "SocketNotconnected"
          [] e = "ECONNREFUSED"        -> "SocketConnectionRefused"
          [] e = "EINPROGRESS"         -> "SocketEinprogress"
          [] e = "EINTR"               -> "SocketInterrupted"
          [] OTHER                     -> "SocketEunknown" ]

Return(name, value) == last' = name /\ result' = value

(* A system call has left e in errno, which is then translated.            *)
Translate(e) == errno' = e /\ m_socketErrno' = Translation[e]
---------------------------------------------------------------------------------
(* Initialize, SetNonblocking, SetBlocking *)

NewDescriptor ==
    /\ made < MaxSockets /\ made' = made + 1
    /\ m_socket' = made + 1 /\ descriptors' = descriptors \union {made + 1}

(* The handle is overwritten by whatever socket(2) returns, also that of a *)
(* descriptor that is open.                                                *)
Initialize ==
    /\ call = "none"
    /\ \/ NewDescriptor /\ Translate("0") /\ Return("Initialize", TRUE)
       \/ /\ m_socket' = INVALID_SOCKET
          /\ Translate("EMFILE") /\ Return("Initialize", FALSE)
          /\ UNCHANGED <<descriptors, made>>
    /\ nonblocking' = FALSE /\ connection' = "none" /\ known' = FALSE /\ port' = 0
    /\ replaced' = (replaced \/ IsOpen) /\ close_failed' = FALSE
    /\ UNCHANGED <<m_bIsBlocking, call, requested, lookup, signals>>

SetMode(name, blocking) ==
    /\ call = "none"
    /\ IF IsOpen
       THEN /\ nonblocking' = ~blocking /\ m_bIsBlocking' = blocking
            /\ Return(name, TRUE)
            /\ UNCHANGED <<m_socketErrno, errno>>
       ELSE /\ Translate("EBADF") /\ Return(name, FALSE)
            /\ UNCHANGED <<nonblocking, m_bIsBlocking>>
    /\ UNCHANGED <<m_socket, call, requested, lookup, table, connection, known,
                   port, signals>>

SetNonblocking == SetMode("SetNonblocking", FALSE)
SetBlocking    == SetMode("SetBlocking", TRUE)
---------------------------------------------------------------------------------
(* Open *)

(* (int16) port                                                            *)
Int16(p) == ((p + Half) % (2 * Half)) - Half

(* Mutant: the sign of an int16 is lost.                                   *)
HtonsOfMagnitude(n) == IF n < 0 THEN -n ELSE n

(* The port in sin_port, which is unsigned.                                *)
Htons(n) == n % (2 * Half)

(* Open returns; only a connection that is made sets SocketSuccess.        *)
Opened ==
    /\ m_socketErrno' = "SocketSuccess"
    /\ call' = "none" /\ Return("Open", TRUE)

NotOpened == call' = "none" /\ Return("Open", FALSE)

Failed(e) == Translate(e) /\ NotOpened

(* gethostbyname has failed.                                               *)
NotFound ==
    /\ lookup' \in Lookups \ {"found"}
    /\ IF lookup' = "HOST_NOT_FOUND"
       THEN m_socketErrno' = "SocketInvalidAddress"
       ELSE UNCHANGED m_socketErrno

(* What Open refuses before it looks up the name, and a name not found.    *)
OpenRefused ==
    /\ \/ ~IsSocketValid /\ m_socketErrno' = "SocketInvalidSocket" /\ lookup' = "none"
       \/ /\ IsSocketValid /\ Int16(requested') = 0
          /\ m_socketErrno' = "SocketInvalidPort" /\ lookup' = "none"
       \/ IsSocketValid /\ Int16(requested') # 0 /\ NotFound
    /\ NotOpened
    /\ UNCHANGED <<errno, descriptor>>

(* connect(2) of a descriptor that is making its connection, or has made   *)
(* it, or has been refused.                                                *)
ConnectAgain ==
    /\ \/ /\ connection = "connecting" /\ ~nonblocking
          /\ call' = "connect"
          /\ UNCHANGED <<m_socketErrno, errno, last, result, connection, known>>
       \/ /\ connection = "connecting" /\ nonblocking
          /\ Translate("EALREADY") /\ NotOpened
          /\ UNCHANGED <<connection, known>>
       \/ /\ connection = "made" /\ ~known /\ known' = TRUE
          /\ Opened /\ UNCHANGED <<errno, connection>>
       \/ /\ connection = "made" /\ known
          /\ Translate("EISCONN") /\ NotOpened
          /\ UNCHANGED <<connection, known>>
       \/ /\ connection = "refused" /\ connection' = "none"
          /\ Translate("ECONNREFUSED") /\ NotOpened
          /\ UNCHANGED known
    /\ UNCHANGED <<nonblocking, port>>

(* Of a new one: a non-blocking call returns at once, and ConnectTCP waits *)
(* in Select if the object knows that it is non-blocking.                  *)
ConnectFirst ==
    /\ connection = "none"
    /\ connection' = "connecting" /\ port' = Htons(Int16(requested'))
    /\ IF nonblocking
       THEN /\ Translate("EINPROGRESS")
            /\ IF IsNonblocking
               THEN call' = "select" /\ UNCHANGED <<last, result>>
               ELSE NotOpened
       ELSE /\ call' = "connect"
            /\ UNCHANGED <<m_socketErrno, errno, last, result>>
    /\ UNCHANGED <<nonblocking, known>>

(* A user that tries again while the connection is being made asks for the *)
(* same port.                                                              *)
Open ==
    /\ call = "none"
    /\ requested' \in Ports
    /\ connection # "none" => requested' = requested
    /\ \/ OpenRefused
       \/ /\ IsSocketValid /\ Int16(requested') # 0 /\ lookup' \in Lookups \intersect {"found"}
          /\ \/ IsOpen /\ (ConnectFirst \/ ConnectAgain)
             \/ ~IsOpen /\ Failed("EBADF") /\ UNCHANGED descriptor
    /\ UNCHANGED <<m_socket, m_bIsBlocking, table, signals>>

(* A blocking connect returns with the connection made or refused.         *)
ConnectReturns ==
    /\ call = "connect"
    /\ \/ connection = "made" /\ known' = TRUE /\ Opened /\ UNCHANGED <<errno, connection>>
       \/ connection = "refused" /\ connection' = "none" /\ Failed("ECONNREFUSED") /\ UNCHANGED known
    /\ UNCHANGED <<m_socket, m_bIsBlocking, requested, lookup, table,
                   nonblocking, port, signals>>

Interrupt == signals < MaxSignals /\ signals' = signals + 1

(* Mutant: the connection that goes on being made is taken for one made.   *)
TakenForMade == errno' = "EINTR" /\ Opened

NotMadeYet == Failed("EINTR")

(* The kernel goes on making the connection if connect is interrupted.     *)
ConnectInterrupted ==
    /\ call = "connect" /\ Interrupt
    /\ NotMadeYet
    /\ UNCHANGED <<m_socket, m_bIsBlocking, requested, lookup, table,
                   descriptor>>

(* Mutant: SO_ERROR is not looked at.                                      *)
NoSocketError == TRUE

(* SO_ERROR is 0 unless the connection was refused.                        *)
NoPendingError == connection # "refused"

(* The end of Select: with the descriptor in one of its sets, SO_ERROR     *)
(* decides.  Open then asks for the peer's name, if there is one.          *)
CheckSocketError ==
    /\ IF NoPendingError
       THEN /\ errno' = (IF connection = "made" THEN "0" ELSE "ENOTCONN")
            /\ Opened
            /\ known' = (known \/ connection = "made") /\ UNCHANGED connection
       ELSE Failed("ECONNREFUSED") /\ connection' = "none" /\ UNCHANGED known

SelectReturns ==
    /\ call = "select" /\ connection \in {"made", "refused"}
    /\ CheckSocketError
    /\ UNCHANGED <<m_socket, m_bIsBlocking, requested, lookup, table,
                   nonblocking, port, signals>>

(* An interrupted select leaves the sets as they were: full.               *)
SelectInterrupted ==
    /\ call = "select" /\ Interrupt
    /\ CheckSocketError
    /\ UNCHANGED <<m_socket, m_bIsBlocking, requested, lookup, table,
                   nonblocking, port>>

Expires == HasTimeout

SelectTimedOut ==
    /\ call = "select" /\ connection = "connecting" /\ Expires
    /\ m_socketErrno' = "SocketTimedout" /\ NotOpened
    /\ UNCHANGED <<m_socket, m_bIsBlocking, errno, requested, lookup, table,
                   descriptor, signals>>
---------------------------------------------------------------------------------
(* Shutdown, Close *)

(* Of a connection that is not made there is nothing to shut down; one     *)
(* that is being made is given up.                                         *)
Shutdown ==
    /\ call = "none"
    /\ IF connection \in {"made", "connecting"}
       THEN /\ m_socketErrno' = Translation[errno] /\ UNCHANGED errno
            /\ Return("Shutdown", TRUE)
       ELSE /\ Translate(IF IsOpen THEN "ENOTCONN" ELSE "EBADF")
            /\ Return("Shutdown", FALSE)
    /\ connection' = (IF connection = "connecting" THEN "none" ELSE connection)
    /\ UNCHANGED <<m_socket, m_bIsBlocking, call, requested, lookup, table,
                   nonblocking, known, port, signals>>

(* Mutant: the handle is kept.                                             *)
KeptHandle == m_socket

ClosedHandle == INVALID_SOCKET

(* Mutant: CLOSE is called once the handle has been invalidated.           *)
ReleasedAfterwards == descriptors \ {INVALID_SOCKET}

Released == descriptors \ {m_socket}

(* CLOSE succeeds, or fails and the handle stays, or there is nothing to   *)
(* close.  The kernel, as Linux does, gives the descriptor up either way:  *)
(* the next CLOSE of a handle that has stayed fails for good.              *)
Close ==
    /\ call = "none"
    /\ \/ /\ IsOpen
          /\ m_socket' = ClosedHandle /\ Return("Close", TRUE)
          /\ m_socketErrno' = Translation[errno]
          /\ UNCHANGED <<errno, close_failed>>
       \/ /\ IsSocketValid
          /\ Translate(IF IsOpen THEN "EIO" ELSE "EBADF") /\ Return("Close", FALSE)
          /\ close_failed' = TRUE /\ UNCHANGED m_socket
       \/ /\ ~IsSocketValid
          /\ m_socketErrno' = Translation[errno] /\ Return("Close", FALSE)
          /\ UNCHANGED <<m_socket, errno, close_failed>>
    /\ descriptors' = Released
    /\ connection' = "none" /\ known' = FALSE
    /\ UNCHANGED <<m_bIsBlocking, call, requested, lookup, made, replaced,
                   nonblocking, port, signals>>
---------------------------------------------------------------------------------
(* The kernel makes the connection, or learns that it cannot be made.      *)
Answered ==
    /\ connection = "connecting"
    /\ connection' \in {"made", "refused"}
    /\ UNCHANGED <<object, errno, caller, table, nonblocking, known, port,
                   signals>>

User == Initialize \/ SetNonblocking \/ SetBlocking \/ Open \/ Shutdown \/ Close

Returns == ConnectReturns \/ SelectReturns \/ SelectTimedOut

Next ==
    User \/ Returns \/ ConnectInterrupted \/ SelectInterrupted \/ Answered

Spec == Init /\ [][Next]_vars
---------------------------------------------------------------------------------
(* Properties *)

(* ActiveSocket.h says of Open: "true if successful connection made,       *)
(* otherwise false".  It holds of a blocking socket, the client's, and of  *)
(* one that goes on making its connection after an interrupted Open; of a  *)
(* non-blocking one only while no signal comes: an interrupted select      *)
(* leaves the descriptor in the sets Select looks at.                      *)
OpenMeansConnected ==
    /\ signals = 0 \/ (~nonblocking /\ m_bIsBlocking)
    /\ last = "Open" /\ result /\ call = "none"
    => connection = "made"

(* A port that a socket can have is the one that is asked for, in spite of *)
(* the int16 it is passed in, in which half of the ports are negative.     *)
ReachesPort ==
    last = "Open" /\ call = "none" /\ requested \in 1 .. 2 * Half - 1 =>
      /\ lookup = "none" => m_socketErrno # "SocketInvalidPort"
      /\ result => port = requested

(* A handle is that of an open socket unless CLOSE has failed on it, and   *)
(* while no Initialize has overwritten the handle of an open one, the      *)
(* process has no other socket open: a user that closes, successfully or   *)
(* not, before it initializes again leaks none over any number of failed   *)
(* calls.  The client, which initializes once, is such a user.             *)
OwnsItsDescriptor ==
    /\ IsSocketValid /\ ~close_failed => IsOpen
    /\ ~replaced => descriptors \subseteq {m_socket}
=================================================================================
