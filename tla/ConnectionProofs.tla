---------------------------- MODULE ConnectionProofs ----------------------------
(***************************************************************************)
(* What holds of the client's connection and of the values that cross it:  *)
(* of a CActiveSocket for every width of an int16, every set of ports, and *)
(* any number of sockets and signals; of the wire format for bytes and     *)
(* integers of every width and messages of every length.                   *)
(*                                                                         *)
(* The wire's inductive invariant says which bytes are on their way: those *)
(* of the fields that are sent and not yet taken, and nothing else.  That  *)
(* a reader stays on the boundaries of fields follows from it, once the    *)
(* bytes of an integer are known to be those of no other.                  *)
(***************************************************************************)
EXTENDS ActiveSocket, WireFormat, FiniteSetTheorems, SequenceTheorems, TLAPS

(* The socket: its inductive invariant *)

(* Descriptors are numbered as they are made, so a new one is never the    *)
(* number of one that is open.                                             *)
Handles ==
    /\ made \in Nat /\ m_socket \in {INVALID_SOCKET} \union 1 .. made
    /\ descriptors \subseteq 1 .. made
    /\ OwnsItsDescriptor

(* Open waits only for a connection it has begun.  Only a descriptor that  *)
(* does not block makes it wait in Select, and what Select says of a       *)
(* connection can be wrong only once it has been interrupted.              *)
Waits ==
    /\ signals \in Nat
    /\ call \in {"none", "connect", "select"}
    /\ call = "select" => nonblocking
    /\ call # "none" => connection # "none" /\ lookup = "found"
    /\ last = "Open" /\ call = "none" /\ result => connection # "none"

(* The descriptor's port is the one last asked for, as an int16.           *)
Ports16 ==
    /\ connection # "none" => port = Htons(Int16(requested))
    /\ last = "Open" /\ call = "none" /\ lookup = "none"
         /\ requested \in 1 .. 2 * Half - 1
       => m_socketErrno # "SocketInvalidPort"

(* The inductive invariant.                                                *)
IInv == Handles /\ Waits /\ OpenMeansConnected /\ Ports16
---------------------------------------------------------------------------------
(* The socket: int16 *)

(* A port that fits in 16 bits survives the way through an int16, and only *)
(* port 0 becomes 0.                                                       *)
LEMMA PortSurvives ==
    ASSUME NEW p \in 1 .. 2 * Half - 1
    PROVE  Htons(Int16(p)) = p /\ Int16(p) # 0
BY SocketAssumption DEF Htons, Int16
---------------------------------------------------------------------------------
(* The socket: Init, and what each step keeps *)

(* The socket starts without a descriptor, and has promised nothing.       *)
LEMMA InitInv == Init => IInv
BY DEF Init, IInv, Handles, Waits, OpenMeansConnected, Ports16, OwnsItsDescriptor,
       IsSocketValid, IsOpen, INVALID_SOCKET

(* Initialize makes a descriptor, Close closes it or fails; nothing else   *)
(* touches the handle.                                                     *)
LEMMA HandlesKept == Handles /\ [Next]_vars => Handles'
<1>. SUFFICES ASSUME Handles, [Next]_vars PROVE Handles'
  OBVIOUS
<1>. USE DEF Handles, OwnsItsDescriptor, IsSocketValid, IsOpen, INVALID_SOCKET
<1>1. CASE Initialize
  <2>1. /\ replaced' = (replaced \/ m_socket \in descriptors)
        /\ close_failed' = FALSE
    BY <1>1 DEF Initialize
  <2>2. ~replaced' => ~replaced /\ descriptors = {}
    BY <2>1
  <2>3. CASE m_socket' = -1 /\ UNCHANGED <<descriptors, made>>
    BY <2>2, <2>3
  <2>4. CASE NewDescriptor
    <3>1. /\ m_socket' = made + 1 /\ made' = made + 1
          /\ descriptors' = descriptors \union {made + 1}
      BY <2>4 DEF NewDescriptor
    <3>2. made' \in Nat /\ m_socket' \in 1 .. made'
      BY <3>1
    <3>3. descriptors' \subseteq 1 .. made'
      BY <3>1
    <3>4. ~replaced' => descriptors' \subseteq {m_socket'}
      BY <2>2, <3>1
    <3>. QED BY <3>1, <3>2, <3>3, <3>4
  <2>. QED BY <1>1, <2>3, <2>4 DEF Initialize
<1>2. CASE Close
  <2>1. /\ descriptors' = descriptors \ {m_socket} /\ UNCHANGED <<made, replaced>>
        /\ \/ m_socket' = -1
           \/ m_socket' = m_socket /\ (close_failed' \/ m_socket = -1)
    BY <1>2 DEF Close, ClosedHandle, Released
  <2>2. ~replaced' => descriptors' = {}
    BY <2>1
  <2>. QED BY <2>1, <2>2
<1>3. CASE UNCHANGED <<m_socket, table>>
  BY <1>3 DEF table
<1>4. SetNonblocking \/ SetBlocking \/ Open \/ Shutdown \/ Returns
        \/ ConnectInterrupted \/ SelectInterrupted \/ Answered \/ UNCHANGED vars
      => UNCHANGED <<m_socket, table>>
  BY DEF SetNonblocking, SetBlocking, SetMode, Open, Shutdown, Returns,
     ConnectReturns, SelectReturns, SelectTimedOut, ConnectInterrupted,
     SelectInterrupted, Answered, object, vars
<1>. QED BY <1>1, <1>2, <1>3, <1>4 DEF Next, User

(* The calls of the user that neither connect nor wait.                    *)
LEMMA CallsKeep ==
    ASSUME IInv, Initialize \/ SetNonblocking \/ SetBlocking \/ Shutdown \/ Close
    PROVE  Waits' /\ OpenMeansConnected' /\ Ports16'
<1>1. CASE Initialize
  BY <1>1 DEF IInv, Waits, OpenMeansConnected, Ports16, Initialize, Return
<1>2. CASE SetNonblocking \/ SetBlocking
  BY <1>2 DEF IInv, Waits, OpenMeansConnected, Ports16, SetNonblocking, SetBlocking,
     SetMode, Return
<1>3. CASE Shutdown
  BY <1>3 DEF IInv, Waits, OpenMeansConnected, Ports16, Shutdown, Return
<1>4. CASE Close
  BY <1>4 DEF IInv, Waits, OpenMeansConnected, Ports16, Close, Return
<1>. QED BY <1>1, <1>2, <1>3, <1>4

(* Open: refused before it connects, or a connect that is refused, made,   *)
(* or waited for.                                                          *)
LEMMA OpenKeeps == IInv /\ Open => Waits' /\ OpenMeansConnected' /\ Ports16'
<1>. SUFFICES ASSUME IInv, Open PROVE Waits' /\ OpenMeansConnected' /\ Ports16'
  OBVIOUS
<1>1. /\ Waits /\ OpenMeansConnected /\ Ports16
      /\ requested' \in Ports /\ (connection # "none" => requested' = requested)
      /\ UNCHANGED <<m_bIsBlocking, signals>>
  BY DEF IInv, Open
<1>2. CASE OpenRefused
  <2>1. /\ call' = "none" /\ last' = "Open" /\ result' = FALSE
        /\ UNCHANGED <<nonblocking, connection, port>>
    BY <1>2 DEF OpenRefused, NotFound, NotOpened, Return, descriptor
  <2>2. lookup' = "none" /\ requested' \in 1 .. 2 * Half - 1
          => m_socketErrno' # "SocketInvalidPort"
    BY <1>2, PortSurvives, SocketAssumption DEF OpenRefused, NotFound
  <2>. QED BY <1>1, <2>1, <2>2 DEF Waits, OpenMeansConnected, Ports16
<1>3. CASE lookup' = "found" /\ ConnectFirst
  <2>1. /\ connection' = "connecting" /\ port' = Htons(Int16(requested'))
        /\ UNCHANGED nonblocking
    BY <1>3 DEF ConnectFirst
  <2>2. \/ call' = "select" /\ nonblocking
        \/ call' = "connect"
        \/ call' = "none" /\ last' = "Open" /\ result' = FALSE
    BY <1>3 DEF ConnectFirst, NotOpened, Return
  <2>. QED BY <1>1, <1>3, <2>1, <2>2 DEF Waits, OpenMeansConnected, Ports16
<1>4. CASE lookup' = "found" /\ ConnectAgain
  <2>1. /\ connection # "none" /\ UNCHANGED <<nonblocking, port>>
        /\ \/ call' = "connect" /\ UNCHANGED connection
           \/ /\ connection' = "made" /\ call' = "none"
              /\ last' = "Open" /\ result' = TRUE
           \/ call' = "none" /\ last' = "Open" /\ result' = FALSE
    BY <1>4 DEF ConnectAgain, NotOpened, Opened, Return
  <2>2. connection' # "none" => connection # "none"
    BY <2>1
  <2>. QED BY <1>1, <1>4, <2>1, <2>2 DEF Waits, OpenMeansConnected, Ports16
<1>5. CASE Failed("EBADF") /\ UNCHANGED descriptor
  <2>1. /\ call' = "none" /\ last' = "Open" /\ result' = FALSE
        /\ UNCHANGED <<nonblocking, connection, port>>
    BY <1>5 DEF Failed, NotOpened, Return, descriptor
  <2>2. m_socketErrno' = "SocketInvalidSocket"
    BY <1>5 DEF Failed, Translate, Translation
  <2>. QED BY <1>1, <2>1, <2>2 DEF Waits, OpenMeansConnected, Ports16
<1>. QED BY <1>2, <1>3, <1>4, <1>5, SocketAssumption DEF Open

(* What a waiting Open returns.                                            *)
LEMMA ReturnsKeep ==
    ASSUME IInv, Returns \/ ConnectInterrupted \/ SelectInterrupted
    PROVE  Waits' /\ OpenMeansConnected' /\ Ports16'
<1>1. /\ Waits /\ OpenMeansConnected /\ Ports16
      /\ UNCHANGED <<m_bIsBlocking, requested, lookup, nonblocking, port>>
      /\ call # "none" /\ call' = "none" /\ last' = "Open"
  BY DEF IInv, Returns, ConnectReturns, SelectReturns, SelectTimedOut,
     ConnectInterrupted, SelectInterrupted, NotMadeYet, CheckSocketError, Failed,
     Opened, NotOpened, Return, descriptor
<1>2. /\ signals' \in Nat
      /\ connection' \in {connection, "none"}
      /\ result' => connection' = connection
  BY <1>1 DEF Returns, ConnectReturns, SelectReturns, SelectTimedOut,
     ConnectInterrupted, SelectInterrupted, NotMadeYet, CheckSocketError, Failed,
     Opened, NotOpened, Return, descriptor, Interrupt, Waits
<1>3. result' => connection' = "made" \/ (nonblocking /\ signals' > 0)
  <2>1. CASE ConnectReturns
    BY <2>1 DEF ConnectReturns, Failed, NotOpened, Return
  <2>2. CASE SelectReturns
    BY <2>2 DEF SelectReturns, CheckSocketError, NoPendingError, Failed, NotOpened,
       Return
  <2>3. CASE SelectTimedOut \/ ConnectInterrupted
    BY <2>3 DEF SelectTimedOut, ConnectInterrupted, NotMadeYet, Failed, NotOpened,
       Return
  <2>4. CASE SelectInterrupted
    BY <1>1, <2>4 DEF SelectInterrupted, Interrupt, Waits
  <2>. QED BY <2>1, <2>2, <2>3, <2>4 DEF Returns
<1>. QED BY <1>1, <1>2, <1>3 DEF Waits, OpenMeansConnected, Ports16

(* The kernel's answer to a connection changes no promise: Open made none, *)
(* or it was interrupted.                                                  *)
LEMMA AnsweredKeeps == IInv /\ Answered => Waits' /\ OpenMeansConnected' /\ Ports16'
BY DEF IInv, Waits, OpenMeansConnected, Ports16, Answered, object, caller

(* No call of the user, no answer of the kernel and no signal breaks the   *)
(* invariant.                                                              *)
LEMMA NextInv == IInv /\ [Next]_vars => IInv'
<1>. SUFFICES ASSUME IInv, [Next]_vars PROVE IInv'
  OBVIOUS
<1>1. Handles'
  BY HandlesKept DEF IInv
<1>2. CASE UNCHANGED vars
  BY <1>1, <1>2 DEF IInv, Waits, OpenMeansConnected, Ports16, vars, object, caller,
     descriptor
<1>3. CASE Next
  BY <1>1, <1>3, CallsKeep, OpenKeeps, ReturnsKeep, AnsweredKeeps
     DEF IInv, Next, User
<1>. QED BY <1>2, <1>3

(* The invariant holds in every reachable state.                           *)
LEMMA Invariant == Spec => []IInv
BY InitInv, NextInv, PTL DEF Spec
---------------------------------------------------------------------------------
(* The socket: theorems *)

(* A handle is that of an open socket until CLOSE fails on it, and only    *)
(* Initialize leaves a socket open without a handle: when it is called     *)
(* with an open one, in whatever order with calls that fail.               *)
THEOREM OwnsItsDescriptorAlways == Spec => []OwnsItsDescriptor
<1>1. IInv => OwnsItsDescriptor
  BY DEF IInv, Handles
<1>. QED BY <1>1, Invariant, PTL

(* If Open returns true, the connection is made, unless a signal           *)
(* interrupted the Select of a socket that does not block.                 *)
THEOREM OpenIsConnected == Spec => []OpenMeansConnected
<1>1. IInv => OpenMeansConnected
  BY DEF IInv
<1>. QED BY <1>1, Invariant, PTL

(* A port that fits in 16 bits is the one that is reached, although Open   *)
(* passes it in an int16.                                                  *)
THEOREM PortIsReached == Spec => []ReachesPort
<1>1. IInv => ReachesPort
  BY PortSurvives DEF IInv, Waits, Ports16, ReachesPort
<1>. QED BY <1>1, Invariant, PTL
---------------------------------------------------------------------------------
(* The wire: induction *)

(* Every non-empty set of natural numbers has a least element.  The        *)
(* intervals 1 .. n of its elements are finite sets, and strict inclusion  *)
(* of finite sets is well-founded.                                         *)
LEMMA LeastNat ==
  ASSUME NEW T \in SUBSET Nat, T # {}
  PROVE  \E x \in T : \A y \in T : x <= y
<1>. DEFINE Intervals == {1 .. n : n \in T}
<1>1. Intervals # {} OBVIOUS
<1>2. \A n \in Nat : IsFiniteSet(1 .. n) BY FS_Interval
<1>3. Intervals \subseteq FiniteSubsetsOf(Nat) BY <1>2 DEF FiniteSubsetsOf
<1>4. PICK b \in Intervals :
        \A a \in Intervals : ~(<<a, b>> \in StrictSubsetOrdering(Nat))
  BY WFMin, FS_StrictSubsetOrderingWellFounded, <1>1, <1>3
<1>5. PICK x \in T : b = 1 .. x OBVIOUS
<1>6. ASSUME NEW y \in T PROVE x <= y
  <2>1. <<1 .. y, 1 .. x>> \notin StrictSubsetOrdering(Nat) BY <1>4, <1>5
  <2>2. SUFFICES ASSUME y < x PROVE FALSE OBVIOUS
  <2>3. (1 .. y) \subseteq (1 .. x) BY <2>2
  <2>4. x \in 1 .. x /\ x \notin 1 .. y BY <2>2
  <2>. QED BY <2>1, <2>3, <2>4 DEF StrictSubsetOrdering
<1>. QED BY <1>6

(* g starts with first, and each of its values follows from the one before *)
(* it.                                                                     *)
Follows(g, n, X, first, Step) ==
  /\ g \in [0 .. n -> X] /\ g[0] = first
  /\ \A i \in 1 .. n : g[i] = Step[<<i, g[i - 1]>>]

(* A recursion over 0 .. n has a solution, whatever its step computes.     *)
LEMMA Recursion ==
  ASSUME NEW n \in Nat, NEW X, NEW first \in X, NEW Step \in [Nat \X X -> X]
  PROVE  \E g : Follows(g, n, X, first, Step)
<1>. USE DEF Follows
<1>. DEFINE Upto(m) == \E g : Follows(g, m, X, first, Step)
            Bad == {m \in Nat : ~Upto(m)}
<1>1. SUFFICES ASSUME Bad # {} PROVE FALSE OBVIOUS
<1>2. PICK m \in Bad : \A k \in Bad : m <= k
  <2>. HIDE DEF Bad
  <2>1. Bad \in SUBSET Nat BY DEF Bad
  <2>. QED BY <1>1, <2>1, LeastNat
<1>3. m \in Nat /\ ~Upto(m) OBVIOUS
<1>4. CASE m = 0
  <2>1. [i \in 0 .. 0 |-> first] \in [0 .. 0 -> X] OBVIOUS
  <2>2. [i \in 0 .. 0 |-> first][0] = first OBVIOUS
  <2>3. 1 .. 0 = {} OBVIOUS
  <2>. QED BY <1>3, <1>4, <2>1, <2>2, <2>3
<1>5. CASE m # 0
  <2>1. m - 1 \in Nat /\ ~(m <= m - 1) BY <1>3, <1>5
  <2>2. m - 1 \notin Bad
    <3>. HIDE DEF Bad
    <3>. QED BY <1>2, <2>1
  <2>3. PICK g : Follows(g, m - 1, X, first, Step)
    BY <2>1, <2>2
  <2>. DEFINE h == [i \in 0 .. m |-> IF i = m THEN Step[<<m, g[m - 1]>>] ELSE g[i]]
  <2>4. h \in [0 .. m -> X]
    <3>1. Step[<<m, g[m - 1]>>] \in X BY <1>3, <2>1, <2>3
    <3>2. \A i \in 0 .. m : i # m => g[i] \in X BY <1>3, <2>3
    <3>. QED BY <3>1, <3>2
  <2>5. h[0] = first BY <1>3, <1>5, <2>3
  <2>6. ASSUME NEW i \in 1 .. m PROVE h[i] = Step[<<i, h[i - 1]>>]
    <3>1. h[i - 1] = g[i - 1] BY <1>3
    <3>2. i # m => i \in 1 .. m - 1 BY <1>3
    <3>3. h[i] = IF i = m THEN Step[<<m, g[m - 1]>>] ELSE g[i] BY <1>3
    <3>. QED BY <2>3, <3>1, <3>2, <3>3
  <2>. QED
    <3>. HIDE DEF h
    <3>. QED BY <1>3, <2>4, <2>5, <2>6
<1>. QED BY <1>4, <1>5
---------------------------------------------------------------------------------
(* The wire: integers and their bytes *)

(* The powers are positive, and each is Base times the one before it.      *)
LEMMA Powers ==
  /\ Power \in [0 .. 2 * Size -> Nat \ {0}] /\ Power[0] = 1
  /\ \A n \in 1 .. 2 * Size : Power[n] = Base * Power[n - 1]
<1>. DEFINE Pos == Nat \ {0}
            Step == [s \in Nat \X Pos |-> Base * s[2]]
            Body(g, n) == IF n = 0 THEN 1 ELSE Base * g[n - 1]
<1>1. Base \in Nat /\ Base > 1 /\ 2 * Size \in Nat BY WireAssumption
<1>2. Step \in [Nat \X Pos -> Pos] BY <1>1
<1>3. \A i \in Nat, x \in Pos : Step[<<i, x>>] = Base * x OBVIOUS
<1>4. 1 \in Pos OBVIOUS
<1>5. PICK g : Follows(g, 2 * Size, Pos, 1, Step)
  <2>. HIDE DEF Step, Pos
  <2>. QED BY <1>1, <1>2, <1>4, Recursion
<1>6. \A i \in 1 .. 2 * Size : g[i] = Base * g[i - 1]
  <2>. HIDE DEF Step, Pos
  <2>1. TAKE i \in 1 .. 2 * Size
  <2>2. i \in Nat /\ i - 1 \in 0 .. 2 * Size BY <1>1
  <2>3. g[i - 1] \in Pos BY <1>5, <2>2 DEF Follows
  <2>. QED BY <1>3, <1>5, <2>2, <2>3 DEF Follows
<1>7. \A i \in 0 .. 2 * Size : g[i] = Body(g, i)
  BY <1>1, <1>5, <1>6 DEF Follows
<1>. HIDE DEF Body
<1>8. g = [n \in 0 .. 2 * Size |-> Body(g, n)] BY <1>5, <1>7 DEF Follows
<1>9. Power = [n \in 0 .. 2 * Size |-> Body(Power, n)]
  BY <1>8 DEF Power, Body
<1>10. \A n \in 0 .. 2 * Size : Power[n] = Body(Power, n) BY <1>9
<1>11. Power[0] = 1 /\ \A n \in 1 .. 2 * Size : Power[n] = Base * Power[n - 1]
  BY <1>1, <1>10 DEF Body
<1>12. \A n \in 0 .. 2 * Size : Power[n] \in Pos
  <2>. DEFINE Bad == {n \in 0 .. 2 * Size : Power[n] \notin Pos}
  <2>1. SUFFICES ASSUME Bad # {} PROVE FALSE OBVIOUS
  <2>2. PICK m \in Bad : \A k \in Bad : m <= k
    <3>1. Bad \in SUBSET Nat OBVIOUS
    <3>. HIDE DEF Bad
    <3>. QED BY <2>1, <3>1, LeastNat
  <2>3. m \in 1 .. 2 * Size /\ m - 1 \in 0 .. 2 * Size /\ ~(m <= m - 1)
    BY <1>1, <1>4, <1>11
  <2>4. Power[m - 1] \in Pos BY <2>2, <2>3
  <2>. QED BY <1>1, <1>11, <2>3, <2>4
<1>. QED BY <1>9, <1>11, <1>12

(* Division with a remainder.                                              *)
LEMMA Division ==
  ASSUME NEW v \in Int, NEW p \in Nat \ {0}
  PROVE  /\ v \div p \in Int /\ v % p \in 0 .. p - 1
         /\ v = (v \div p) * p + (v % p)
OBVIOUS

(* A number divides with a remainder in one way only.                      *)
LEMMA DivisionUnique ==
  ASSUME NEW p \in Nat \ {0}, NEW q \in Int, NEW r \in 0 .. p - 1
  PROVE  (q * p + r) \div p = q
<1>. DEFINE v == q * p + r
            d == v \div p
            s == v % p
<1>1. v \in Int /\ d \in Int /\ s \in 0 .. p - 1 /\ v = d * p + s BY Division
<1>. HIDE DEF d, s
<1>2. (q - d) * p = s - r BY <1>1
<1>3. CASE q - d >= 1
  <2>1. (q - d) * p >= p BY <1>1, <1>3
  <2>. QED BY <1>1, <1>2, <2>1
<1>4. CASE q - d <= -1
  <2>1. (d - q) * p >= p BY <1>1, <1>4
  <2>2. (d - q) * p = r - s BY <1>1
  <2>. QED BY <1>1, <2>2, <2>1
<1>. QED BY <1>1, <1>3, <1>4 DEF d

(* To divide by p and then by b is to divide by their product.             *)
LEMMA DivideTwice ==
  ASSUME NEW v \in Int, NEW p \in Nat \ {0}, NEW b \in Nat \ {0}
  PROVE  v \div (b * p) = (v \div p) \div b
<1>. DEFINE q == v \div p
            r == v % p
            c == q \div b
            s == q % b
<1>1. q \in Int /\ r \in 0 .. p - 1 /\ v = q * p + r BY Division
<1>2. c \in Int /\ s \in 0 .. b - 1 /\ q = c * b + s BY <1>1, Division
<1>. HIDE DEF q, r, c, s
<1>3. b * p \in Nat \ {0} 
  <2>1. b * p >= p BY SMT
  <2>. QED BY <2>1
<1>4. v = c * (b * p) + (s * p + r)
  <2>1. q * p = (c * b) * p + s * p BY <1>2
  <2>2. (c * b) * p = c * (b * p) BY <1>2
  <2>. QED BY <1>1, <1>2, <2>1, <2>2
<1>5. s * p + r \in 0 .. b * p - 1
  <2>1. s * p >= 0 BY <1>2
  <2>2. (b - 1 - s) * p >= 0 BY <1>2
  <2>3. (b - 1 - s) * p = b * p - p - s * p BY <1>2
  <2>. QED BY <1>1, <1>2, <2>1, <2>2, <2>3
<1>. DEFINE m == b * p
            t == s * p + r
<1>6. (c * m + t) \div m = c 
  <2>. HIDE DEF m, t
  <2>. QED BY <1>2, <1>3, <1>5, DivisionUnique DEF m, t
<1>. QED BY <1>4, <1>6 DEF q, c

(* What the recursion in Sums computes.                                    *)
LEMMA SumsAre ==
  ASSUME NEW b \in Seq(Int), Len(b) <= 2 * Size
  PROVE  /\ Sums(b) \in [0 .. Len(b) -> Int] /\ Sums(b)[0] = 0
         /\ \A i \in 1 .. Len(b) : Sums(b)[i] = Sums(b)[i - 1] + b[i] * Power[i - 1]
<1>. DEFINE Ints == Int
            Summand == [i \in Nat |-> IF i \in 1 .. Len(b) THEN b[i] * Power[i - 1] ELSE 0]
            Step == [s \in Nat \X Ints |-> s[2] + Summand[s[1]]]
            Body(g, i) == IF i = 0 THEN 0 ELSE g[i - 1] + b[i] * Power[i - 1]
<1>1. 2 * Size \in Nat /\ Len(b) \in Nat BY WireAssumption
<1>2. \A i \in 1 .. Len(b) : b[i] \in Int /\ Power[i - 1] \in Int
  <2>1. TAKE i \in 1 .. Len(b)
  <2>2. i - 1 \in 0 .. 2 * Size BY <1>1
  <2>. QED BY <2>2, Powers
<1>3. Summand \in [Nat -> Int] BY <1>2
<1>4. Step \in [Nat \X Ints -> Ints] /\ 0 \in Ints
  <2>. HIDE DEF Summand
  <2>. QED BY <1>3
<1>5. \A i \in Nat, x \in Int : Step[<<i, x>>] = x + Summand[i] OBVIOUS
<1>6. \A i \in 1 .. Len(b) : Summand[i] = b[i] * Power[i - 1] OBVIOUS
<1>7. PICK g : Follows(g, Len(b), Ints, 0, Step)
  <2>. HIDE DEF Step, Ints
  <2>. QED BY <1>1, <1>4, Recursion
<1>8. \A i \in 1 .. Len(b) : g[i] = g[i - 1] + b[i] * Power[i - 1]
  <2>. HIDE DEF Step, Summand
  <2>1. TAKE i \in 1 .. Len(b)
  <2>2. i \in Nat /\ i - 1 \in 0 .. Len(b) BY <1>1
  <2>3. g[i - 1] \in Int BY <1>7, <2>2 DEF Follows
  <2>. QED BY <1>5, <1>6, <1>7, <2>2, <2>3 DEF Follows
<1>9. \A i \in 0 .. Len(b) : g[i] = Body(g, i)
  BY <1>1, <1>7, <1>8 DEF Follows
<1>. HIDE DEF Body
<1>10. g = [i \in 0 .. Len(b) |-> Body(g, i)] BY <1>7, <1>9 DEF Follows
<1>11. Sums(b) = [i \in 0 .. Len(b) |-> Body(Sums(b), i)]
  BY <1>10 DEF Sums, Body
<1>12. \A i \in 0 .. Len(b) : Sums(b)[i] = Body(Sums(b), i) BY <1>11
<1>13. /\ Sums(b)[0] = 0
       /\ \A i \in 1 .. Len(b) : Sums(b)[i] = Sums(b)[i - 1] + b[i] * Power[i - 1]
  BY <1>1, <1>12 DEF Body
<1>14. \A i \in 0 .. Len(b) : Sums(b)[i] \in Int
  <2>. DEFINE Bad == {i \in 0 .. Len(b) : Sums(b)[i] \notin Int}
  <2>1. SUFFICES ASSUME Bad # {} PROVE FALSE OBVIOUS
  <2>2. PICK m \in Bad : \A k \in Bad : m <= k
    <3>1. Bad \in SUBSET Nat OBVIOUS
    <3>. HIDE DEF Bad
    <3>. QED BY <2>1, <3>1, LeastNat
  <2>3. m \in 1 .. Len(b) /\ m - 1 \in 0 .. Len(b) /\ ~(m <= m - 1)
    BY <1>1, <1>13
  <2>4. Sums(b)[m - 1] \in Int BY <2>2, <2>3
  <2>5. Sums(b)[m] = Sums(b)[m - 1] + b[m] * Power[m - 1] BY <1>13, <2>3
  <2>6. b[m] * Power[m - 1] \in Int BY <1>2, <2>3
  <2>7. Sums(b)[m] \in Int BY <2>4, <2>5, <2>6
  <2>. QED BY <2>2, <2>7
<1>. QED BY <1>11, <1>13, <1>14

(* The bytes of an integer.                                                *)
LEMMA DigitsAre ==
  ASSUME NEW v \in Int, NEW n \in 0 .. 2 * Size
  PROVE  Digits(v, n) \in Seq(0 .. Base - 1) /\ Len(Digits(v, n)) = n
<1>1. 2 * Size \in Nat /\ Base \in Nat \ {0} BY WireAssumption
<1>2. \A i \in 1 .. n : i - 1 \in 0 .. 2 * Size BY <1>1
<1>3. \A i \in 1 .. n : (v \div Power[i - 1]) % Base \in 0 .. Base - 1
  <2>1. TAKE i \in 1 .. n
  <2>2. Power[i - 1] \in Nat \ {0} BY <1>2, Powers
  <2>3. v \div Power[i - 1] \in Int BY <2>2, Division
  <2>. QED BY <1>1, <2>3, Division
<1>. QED BY <1>3, WireAssumption DEF Digits

(* The lowest bytes of v stand for what is left of it when its highest     *)
(* part is taken away.                                                     *)
LEMMA SumOfDigits ==
  ASSUME NEW v \in Int, NEW n \in 0 .. 2 * Size
  PROVE  \A i \in 0 .. n :
           Sums(Digits(v, n))[i] = v - (v \div Power[i]) * Power[i]
<1>. DEFINE b == Digits(v, n)
            Bad == {i \in 0 .. n : Sums(b)[i] # v - (v \div Power[i]) * Power[i]}
<1>1. 2 * Size \in Nat /\ n \in Nat BY WireAssumption
<1>2. b \in Seq(Int) /\ Len(b) = n BY DigitsAre, WireAssumption
<1>3. /\ Sums(b) \in [0 .. n -> Int] /\ Sums(b)[0] = 0
      /\ \A i \in 1 .. n : Sums(b)[i] = Sums(b)[i - 1] + b[i] * Power[i - 1]
  <2>. HIDE DEF b
  <2>1. Len(b) <= 2 * Size BY <1>1, <1>2
  <2>2. /\ Sums(b) \in [0 .. Len(b) -> Int] /\ Sums(b)[0] = 0
        /\ \A i \in 1 .. Len(b) : Sums(b)[i] = Sums(b)[i - 1] + b[i] * Power[i - 1]
    BY <1>2, <2>1, SumsAre
  <2>. QED BY <1>2, <2>2
<1>4. \A i \in 1 .. n : b[i] = (v \div Power[i - 1]) % Base BY DEF Digits
<1>. HIDE DEF b
<1>5. SUFFICES ASSUME Bad # {} PROVE FALSE BY DEF b
<1>6. PICK m \in Bad : \A k \in Bad : m <= k
  <2>1. Bad \in SUBSET Nat BY <1>1
  <2>. HIDE DEF Bad
  <2>. QED BY <1>5, <2>1, LeastNat
<1>7. CASE m = 0
  <2>1. v \div 1 = v BY SMT
  <2>2. Power[0] = 1 BY Powers
  <2>. QED BY <1>3, <1>6, <1>7, <2>1, <2>2
<1>8. CASE m # 0
  <2>1. m \in 1 .. n /\ m \in 1 .. 2 * Size /\ m - 1 \in 0 .. n /\ ~(m <= m - 1)
    BY <1>1, <1>6, <1>8
  <2>. DEFINE p == Power[m - 1]
              q == v \div p
              c == q \div Base
              s == q % Base
  <2>2. p \in Nat \ {0} /\ Power[m] = Base * p /\ Base \in Nat \ {0}
    BY <1>1, <2>1, Powers, WireAssumption
  <2>3. q \in Int /\ c \in Int /\ s \in Int /\ q = c * Base + s
    <3>1. q \in Int BY <2>2, Division
    <3>. HIDE DEF q
    <3>2. /\ q \div Base \in Int /\ q % Base \in 0 .. Base - 1
          /\ q = (q \div Base) * Base + (q % Base)
      BY <2>2, <3>1, Division
    <3>. QED BY <3>1, <3>2
  <2>4. v \div Power[m] = c
    BY <2>2, DivideTwice
  <2>5. Sums(b)[m - 1] = v - q * p
    <3>1. m - 1 \notin Bad
      <4>. HIDE DEF Bad
      <4>. QED BY <1>6, <2>1
    <3>. QED BY <2>1, <3>1
  <2>6. Sums(b)[m] = v - q * p + s * p
    BY <1>3, <1>4, <2>1, <2>5
  <2>. HIDE DEF p, q, c, s
  <2>7. q * p = (c * Base) * p + s * p BY <2>2, <2>3
  <2>8. (c * Base) * p = c * (Base * p) BY <2>2, <2>3
  <2>9. Sums(b)[m] = v - c * (Base * p) BY <2>2, <2>3, <2>6, <2>7, <2>8
  <2>. QED BY <1>6, <2>1, <2>2, <2>4, <2>9
<1>. QED BY <1>7, <1>8

(* The bytes of an integer are those of no other of its size: reading them *)
(* back returns it, negative numbers included.                             *)
LEMMA BackFromDigits ==
  ASSUME NEW n \in 1 .. 2 * Size, NEW v \in IntegersOf(n)
  PROVE  FromDigits(Digits(v, n)) = v
<1>. DEFINE p == Power[n]
            h == p \div 2
<1>1. n \in 0 .. 2 * Size /\ p \in Nat \ {0} BY Powers, WireAssumption
<1>2. /\ h \in Nat /\ 2 * h <= p /\ p <= 2 * h + 1
      /\ v \in -h .. h - 1 /\ v \in Int
  BY <1>1 DEF IntegersOf
<1>3. Len(Digits(v, n)) = n BY <1>1, <1>2, DigitsAre
<1>4. Sums(Digits(v, n))[n] = v - (v \div p) * p
  BY <1>1, <1>2, SumOfDigits
<1>. HIDE DEF p, h
<1>5. CASE v >= 0
  <2>1. v \in 0 .. p - 1 BY <1>1, <1>2, <1>5
  <2>2. v = 0 * p + v BY <1>1, <1>2
  <2>3. v \div p = 0
    <3>1. (0 * p + v) \div p = 0 BY <1>1, <2>1, DivisionUnique
    <3>. QED BY <2>2, <3>1
  <2>4. Sums(Digits(v, n))[n] = v BY <1>1, <1>2, <1>4, <2>3
  <2>. QED BY <1>2, <1>3, <1>5, <2>4 DEF FromDigits, Signed, p, h
<1>6. CASE v < 0
  <2>1. v + p \in 0 .. p - 1 BY <1>1, <1>2, <1>6
  <2>2. v = (-1) * p + (v + p) BY <1>1, <1>2
  <2>3. v \div p = -1
    <3>1. ((-1) * p + (v + p)) \div p = -1 BY <1>1, <2>1, DivisionUnique
    <3>. QED BY <2>2, <3>1
  <2>4. Sums(Digits(v, n))[n] = v + p BY <1>1, <1>2, <1>4, <2>3
  <2>5. ~(v + p < h) BY <1>1, <1>2
  <2>6. v + p - p = v BY <1>1, <1>2
  <2>7. Signed(v + p, n) = IF v + p < h THEN v + p ELSE v + p - p
    BY <1>1, <1>2 DEF Signed, p, h
  <2>8. Signed(v + p, n) = v BY <2>5, <2>6, <2>7
  <2>. QED BY <1>3, <2>4, <2>8 DEF FromDigits
<1>. QED BY <1>2, <1>5, <1>6

(* Turning a sequence round twice changes nothing.                         *)
LEMMA ReverseTwice ==
  ASSUME NEW S, NEW b \in Seq(S)
  PROVE  Reverse(b) \in Seq(S) /\ Len(Reverse(b)) = Len(b) /\ Reverse(Reverse(b)) = b
<1>1. Len(b) \in Nat /\ b = [i \in 1 .. Len(b) |-> b[i]] OBVIOUS
<1>2. Reverse(b) = [i \in 1 .. Len(b) |-> b[Len(b) - i + 1]] BY DEF Reverse
<1>3. \A i \in 1 .. Len(b) : Len(b) - i + 1 \in 1 .. Len(b) BY <1>1
<1>4. Reverse(b) \in Seq(S) /\ Len(Reverse(b)) = Len(b) BY <1>1, <1>2, <1>3
<1>5. Reverse(Reverse(b)) = [i \in 1 .. Len(b) |-> Reverse(b)[Len(b) - i + 1]]
  BY <1>4 DEF Reverse
<1>6. \A i \in 1 .. Len(b) : Reverse(b)[Len(b) - i + 1] = b[i]
  BY <1>1, <1>2, <1>3
<1>. QED BY <1>1, <1>4, <1>5, <1>6

(* Nor does the client's reversal, which leaves the last byte in place.    *)
LEMMA ReversedTwice ==
  ASSUME NEW S, NEW b \in Seq(S)
  PROVE  Reversed(b) \in Seq(S) /\ Len(Reversed(b)) = Len(b) /\ Reversed(Reversed(b)) = b
<1>1. /\ Len(b) \in Nat /\ b = [i \in 1 .. Len(b) |-> b[i]]
      /\ DOMAIN b = 1 .. Len(b)
  OBVIOUS
<1>2. Reversed(b) = [i \in 1 .. Len(b) |-> IF i < Len(b) THEN b[Len(b) - i] ELSE b[i]]
  BY <1>1 DEF Reversed
<1>3. \A i \in 1 .. Len(b) : i < Len(b) => Len(b) - i \in 1 .. Len(b) /\ Len(b) - i < Len(b)
  BY <1>1
<1>4. /\ Reversed(b) \in Seq(S) /\ Len(Reversed(b)) = Len(b)
      /\ DOMAIN Reversed(b) = 1 .. Len(b)
  BY <1>1, <1>2, <1>3
<1>5. Reversed(Reversed(b)) = [i \in 1 .. Len(b) |->
        IF i < Len(b) THEN Reversed(b)[Len(b) - i] ELSE Reversed(b)[i]]
  BY <1>4 DEF Reversed
<1>6. \A i \in 1 .. Len(b) :
        (IF i < Len(b) THEN Reversed(b)[Len(b) - i] ELSE Reversed(b)[i]) = b[i]
  BY <1>1, <1>2, <1>3
<1>. QED BY <1>1, <1>4, <1>5, <1>6

(* What the client reads off the wire is what it has put on it, in either  *)
(* byte order.                                                             *)
LEMMA OffUndoesOn ==
  ASSUME NEW n \in 1 .. 2 * Size, NEW v \in IntegersOf(n)
  PROVE  OffWire(OnWire(v, n)) = v
<1>. DEFINE d == Digits(v, n)
            Bytes == 0 .. Base - 1
<1>1. v \in Int /\ n \in 0 .. 2 * Size BY Powers, WireAssumption DEF IntegersOf
<1>2. d \in Seq(Bytes) BY <1>1, DigitsAre
<1>3. FromDigits(d) = v BY BackFromDigits
<1>. HIDE DEF d, Bytes
<1>4. Memory(v, n) = (IF little THEN d ELSE Reverse(d)) BY DEF Memory, d
<1>5. Reverse(d) \in Seq(Bytes) /\ Reverse(Reverse(d)) = d BY <1>2, ReverseTwice
<1>6. Memory(v, n) \in Seq(Bytes) /\ FromMemory(Memory(v, n)) = v
  BY <1>2, <1>3, <1>4, <1>5 DEF FromMemory
<1>7. Ordered(Ordered(Memory(v, n))) = Memory(v, n)
  BY <1>6, ReversedTwice DEF Ordered
<1>. QED BY <1>6, <1>7 DEF OnWire, OffWire
---------------------------------------------------------------------------------
(* The wire: fields and their bytes *)

(* What the bytes are written as.                                          *)
Byte == 0 .. Base - 1

(* A beginning, a middle and an end taken out of a sequence again.         *)
LEMMA Parts ==
  ASSUME NEW S, NEW a \in Seq(S), NEW b \in Seq(S), NEW c \in Seq(S)
  PROVE  /\ (a \o b) \o c \in Seq(S)
         /\ SubSeq((a \o b) \o c, 1, Len(a)) = a
         /\ SubSeq((a \o b) \o c, Len(a) + 1, Len(a) + Len(b)) = b
         /\ SubSeq((a \o b) \o c, Len(a) + Len(b) + 1, Len((a \o b) \o c)) = c
<1>1. /\ a \o b \in Seq(S) /\ Len(a \o b) = Len(a) + Len(b)
      /\ (a \o b) \o c \in Seq(S)
      /\ Len((a \o b) \o c) = Len(a) + Len(b) + Len(c)
      /\ Len(a) \in Nat /\ Len(b) \in Nat /\ Len(c) \in Nat
  OBVIOUS
<1>2. /\ \A i \in 1 .. Len(a) : ((a \o b) \o c)[i] = a[i]
      /\ \A i \in 1 .. Len(b) : ((a \o b) \o c)[Len(a) + i] = b[i]
      /\ \A i \in 1 .. Len(c) : ((a \o b) \o c)[Len(a) + Len(b) + i] = c[i]
  BY <1>1
<1>. DEFINE w == (a \o b) \o c
            k == Len(a)
            m == Len(b)
            n == Len(c)
<1>. HIDE DEF w, k, m, n
<1>3. SubSeq(w, 1, k) = a
  BY <1>1, <1>2 DEF w, k, m, n
<1>4. SubSeq(w, k + 1, k + m) = b
  BY <1>1, <1>2 DEF w, k, m, n
<1>5. SubSeq(w, k + m + 1, k + m + n) = c
  BY <1>1, <1>2 DEF w, k, m, n
<1>. QED BY <1>1, <1>3, <1>4, <1>5 DEF w, k, m, n

(* Concatenation is associative.                                           *)
LEMMA Joined ==
  \A a, b, c \in Seq(Byte) : a \o (b \o c) = (a \o b) \o c
OBVIOUS

(* A single byte is its own number.                                        *)
LEMMA OneByte ==
  ASSUME NEW x \in Byte
  PROVE  FromDigits(<<x>>) = Signed(x, 1)
<1>1. /\ <<x>> \in Seq(Int) /\ Len(<<x>>) = 1 /\ 1 <= 2 * Size /\ x \in Int
  BY WireAssumption DEF Byte
<1>2. Sums(<<x>>)[0] = 0 /\ Sums(<<x>>)[1] = Sums(<<x>>)[0] + x * Power[0]
  <2>. DEFINE b == <<x>>
  <2>1. /\ b \in Seq(Int) /\ Len(b) <= 2 * Size /\ b[1] = x
        /\ 1 \in 1 .. Len(b) /\ 1 - 1 = 0
    BY <1>1
  <2>. HIDE DEF b
  <2>2. /\ Sums(b)[0] = 0
        /\ \A i \in 1 .. Len(b) : Sums(b)[i] = Sums(b)[i - 1] + b[i] * Power[i - 1]
    BY <2>1, SumsAre
  <2>3. Sums(b)[0] = 0 /\ Sums(b)[1] = Sums(b)[0] + x * Power[0]
    BY <2>1, <2>2
  <2>. QED BY <2>3 DEF b
<1>3. Power[0] = 1 BY Powers
<1>4. Sums(<<x>>)[1] = x BY <1>1, <1>2, <1>3
<1>. QED BY <1>1, <1>4 DEF FromDigits

(* An enum's byte is the integer of one byte that holds it.                *)
LEMMA EnumByte ==
  ASSUME NEW v \in Int
  PROVE  Digits(v, 1) = <<v % Base>>
<1>1. Power[0] = 1 /\ v \div 1 = v BY Powers, SMT
<1>2. Digits(v, 1) = [i \in 1 .. 1 |-> (v \div Power[i - 1]) % Base] BY DEF Digits
<1>3. \A i \in 1 .. 1 : i = 1 /\ i - 1 = 0 OBVIOUS
<1>4. Digits(v, 1) = [i \in 1 .. 1 |-> v % Base] BY <1>1, <1>2, <1>3
<1>. QED BY <1>4

(* What the intervals of the integers hold.                                *)
LEMMA IntegersAreInt == \A n \in 0 .. 2 * Size : IntegersOf(n) \subseteq Int
BY Powers, WireAssumption DEF IntegersOf

(* A length that is an int is not cut off by the unsigned type it is taken *)
(* for.                                                                    *)
LEMMA LengthFits ==
  ASSUME NEW n \in Nat, n \in IntegersOf(Size)
  PROVE  n % Power[Size] = n
<1>1. Size \in 0 .. 2 * Size BY WireAssumption
<1>2. Power[Size] \in Nat \ {0} BY <1>1, Powers
<1>3. n < Power[Size] BY <1>2 DEF IntegersOf
<1>. QED BY <1>2, <1>3

(* A typed field's bytes are bytes.                                        *)
LEMMA PeerBytesType ==
  ASSUME NEW f, IsTyped(f), f.kind \in Kinds \union {"null"}
  PROVE  PeerBytes(f) \in Seq(Byte)
<1>1. /\ 1 \in 0 .. 2 * Size /\ Size \in 0 .. 2 * Size /\ 2 * Size \in 0 .. 2 * Size
      /\ -1 \in Int /\ 0 \in Byte /\ 1 \in Byte
  BY WireAssumption DEF Byte
<1>2. \A v \in Int, n \in 0 .. 2 * Size : Digits(v, n) \in Seq(Byte)
  BY DigitsAre DEF Byte
<1>3. CASE f.kind = "enum" BY <1>1, <1>2, <1>3, IntegersAreInt DEF PeerBytes, IsTyped
<1>4. CASE f.kind = "boolean" BY <1>1, <1>4 DEF PeerBytes, IsTyped
<1>5. CASE f.kind = "int" BY <1>1, <1>2, <1>5, IntegersAreInt DEF PeerBytes, IsTyped
<1>6. CASE f.kind = "long" BY <1>1, <1>2, <1>6, IntegersAreInt DEF PeerBytes, IsTyped
<1>7. CASE f.kind = "string"
  <2>1. f.value \in Seq(Byte) /\ Len(f.value) \in Int
    BY <1>7 DEF IsTyped, Byte
  <2>2. Digits(Len(f.value), Size) \in Seq(Byte) BY <1>1, <1>2, <2>1
  <2>3. PeerBytes(f) = Digits(Len(f.value), Size) \o f.value BY <1>7 DEF PeerBytes
  <2>. QED BY <2>1, <2>2, <2>3
<1>8. CASE f.kind = "null" BY <1>1, <1>2, <1>8 DEF PeerBytes
<1>. QED BY <1>3, <1>4, <1>5, <1>6, <1>7, <1>8 DEF Kinds

(* What the peer finds at the head of a stream is the field whose bytes it *)
(* begins with, and it is left with the rest.                              *)
LEMMA FieldAtHead ==
  ASSUME NEW f, IsTyped(f), f.kind \in Kinds, NEW rest \in Seq(Byte)
  PROVE  LET b == PeerBytes(f) \o rest
             n == Width(b, f.kind)
         IN  /\ n \in 1 .. Len(b)
             /\ Take(b, f.kind, n) = f.value
             /\ SubSeq(b, n + 1, Len(b)) = rest
<1>. DEFINE a == PeerBytes(f)
            b == a \o rest
            n == Width(b, f.kind)
<1>1. a \in Seq(Byte) /\ b \in Seq(Byte) /\ << >> \in Seq(Byte)
  BY PeerBytesType
<1>2. /\ 1 \in 1 .. 2 * Size /\ Size \in 1 .. 2 * Size /\ 2 * Size \in 1 .. 2 * Size
      /\ 1 .. 2 * Size \subseteq 0 .. 2 * Size
  BY WireAssumption
<1>3. /\ Len(b) = Len(a) + Len(rest) /\ Len(a) \in Nat /\ Len(rest) \in Nat
      /\ SubSeq(b, 1, Len(a)) = a /\ SubSeq(b, Len(a) + 1, Len(b)) = rest
      /\ \A i \in 1 .. Len(a) : b[i] = a[i]
  <2>. HIDE DEF a
  <2>1. Len(b) = Len(a) + Len(rest) /\ \A i \in 1 .. Len(a) : b[i] = a[i]
    BY <1>1
  <2>2. a \o << >> = a /\ Len(<< >>) = 0 /\ Len(a) \in Nat /\ Len(rest) \in Nat
    BY <1>1
  <2>3. /\ SubSeq((a \o << >>) \o rest, 1, Len(a)) = a
        /\ SubSeq((a \o << >>) \o rest, Len(a) + Len(<< >>) + 1,
                  Len((a \o << >>) \o rest)) = rest
    BY <1>1, Parts
  <2>4. Len(a) + 0 + 1 = Len(a) + 1 BY <2>2
  <2>. QED BY <2>1, <2>2, <2>3, <2>4
<1>4. ASSUME NEW k \in 1 .. 2 * Size, f.value \in IntegersOf(k), a = Digits(f.value, k),
             n = k
      PROVE  n = Len(a) /\ n >= 1 /\ Little(SubSeq(b, 1, n)) = f.value
  <2>1. f.value \in Int BY <1>2, <1>4, IntegersAreInt
  <2>2. Len(a) = k BY <1>2, <1>4, <2>1, DigitsAre
  <2>3. FromDigits(a) = f.value BY <1>4, BackFromDigits
  <2>4. n = k BY <1>4
  <2>. HIDE DEF a, b, n
  <2>5. SubSeq(b, 1, n) = a BY <1>3, <2>2, <2>4
  <2>6. Little(SubSeq(b, 1, n)) = f.value BY <2>3, <2>5 DEF Little
  <2>7. k \in Int /\ k >= 1 BY WireAssumption
  <2>. QED BY <2>2, <2>4, <2>6, <2>7
<1>5. SUFFICES n = Len(a) /\ n >= 1 /\ Take(b, f.kind, n) = f.value
  <2>. HIDE DEF a, b, n
  <2>1. n \in 1 .. Len(b) /\ SubSeq(b, n + 1, Len(b)) = rest BY <1>3
  <2>. QED BY <2>1 DEF a, b, n
<1>6. CASE f.kind = "enum"
  <2>1. f.value \in IntegersOf(1) /\ a = Digits(f.value, 1) /\ n = 1
    BY <1>6 DEF IsTyped, PeerBytes, Width
  <2>2. Take(b, f.kind, n) = Little(SubSeq(b, 1, n)) BY <1>6 DEF Take
  <2>. HIDE DEF a, b, n
  <2>. QED BY <1>2, <1>4, <2>1, <2>2
<1>7. CASE f.kind = "int"
  <2>1. f.value \in IntegersOf(Size) /\ a = Digits(f.value, Size) /\ n = Size
    BY <1>7 DEF IsTyped, PeerBytes, Width
  <2>2. Take(b, f.kind, n) = Little(SubSeq(b, 1, n)) BY <1>7 DEF Take
  <2>. HIDE DEF a, b, n
  <2>. QED BY <1>2, <1>4, <2>1, <2>2
<1>8. CASE f.kind = "long"
  <2>1. f.value \in IntegersOf(2 * Size) /\ a = Digits(f.value, 2 * Size) /\ n = 2 * Size
    BY <1>8 DEF IsTyped, PeerBytes, Width
  <2>2. Take(b, f.kind, n) = Little(SubSeq(b, 1, n)) BY <1>8 DEF Take
  <2>. HIDE DEF a, b, n
  <2>. QED BY <1>2, <1>4, <2>1, <2>2
<1>9. CASE f.kind = "boolean"
  <2>1. f.value \in BOOLEAN /\ a = << IF f.value THEN 1 ELSE 0 >> /\ n = 1
    BY <1>9 DEF IsTyped, PeerBytes, Width
  <2>2. Take(b, f.kind, n) = (b[1] # 0) BY <1>9 DEF Take
  <2>3. Len(a) = 1 /\ a[1] = IF f.value THEN 1 ELSE 0 BY <2>1
  <2>. HIDE DEF a, b, n
  <2>4. b[1] = a[1] BY <1>3, <2>3
  <2>. QED BY <2>1, <2>2, <2>3, <2>4
<1>10. CASE f.kind = "string"
  <2>. DEFINE s == f.value
              d == Digits(Len(s), Size)
  <2>1. s \in Seq(Byte) /\ Len(s) \in Nat /\ Len(s) \in IntegersOf(Size)
    BY <1>10 DEF IsTyped, Byte
  <2>2. a = d \o s BY <1>10 DEF PeerBytes
  <2>3. n = Size + (Little(SubSeq(b, 1, Size)) % Power[Size]) BY <1>10 DEF Width
  <2>4. Take(b, f.kind, n) = SubSeq(b, Size + 1, n) BY <1>10 DEF Take
  <2>5. Len(d) = Size /\ d \in Seq(Byte) /\ FromDigits(d) = Len(s)
    <3>1. Len(s) \in Int /\ Size \in 0 .. 2 * Size BY <1>2, <2>1
    <3>. HIDE DEF s
    <3>2. Len(d) = Size /\ d \in Seq(Byte) BY <3>1, DigitsAre DEF Byte
    <3>3. FromDigits(d) = Len(s) BY <1>2, <2>1, BackFromDigits
    <3>. QED BY <3>2, <3>3
  <2>. HIDE DEF a, n, s, d
  <2>6. b = (d \o s) \o rest BY <2>2
  <2>. HIDE DEF b
  <2>7. SubSeq(b, 1, Size) = d /\ SubSeq(b, Size + 1, Size + Len(s)) = s
    <3>1. /\ SubSeq((d \o s) \o rest, 1, Len(d)) = d
          /\ SubSeq((d \o s) \o rest, Len(d) + 1, Len(d) + Len(s)) = s
      <4>1. d \in Seq(Byte) /\ s \in Seq(Byte) BY <2>1, <2>5
      <4>. QED BY ONLY <4>1, rest \in Seq(Byte), Parts
    <3>. QED BY <2>5, <2>6, <3>1
  <2>8. n = Size + Len(s) BY <2>1, <2>3, <2>5, <2>7, LengthFits DEF Little
  <2>9. Len(a) = Size + Len(s)
    <3>1. Len(d \o s) = Len(d) + Len(s) BY <2>1, <2>5
    <3>. QED BY <2>2, <2>5, <3>1
  <2>10. n >= 1 BY <1>2, <2>1, <2>8, WireAssumption
  <2>. QED BY <2>4, <2>7, <2>8, <2>9, <2>10 DEF s
<1>. QED BY <1>6, <1>7, <1>8, <1>9, <1>10 DEF Kinds

(* The bytes of the k fields that follow the first h.                      *)
Run(fields, h) ==
  LET bytes[k \in 0 .. Len(fields) - h] ==
        IF k = 0 THEN << >> ELSE bytes[k - 1] \o PeerBytes(fields[h + k])
  IN  bytes

(* What either side may send.                                              *)
AnyFields(fields) ==
  /\ Len(fields) \in Nat /\ DOMAIN fields = 1 .. Len(fields)
  /\ \A i \in 1 .. Len(fields) :
       IsTyped(fields[i]) /\ fields[i].kind \in Kinds \union {"null"}

(* What the recursion in Run computes.                                     *)
LEMMA RunIs ==
  ASSUME NEW fields, AnyFields(fields), NEW h \in 0 .. Len(fields)
  PROVE  /\ Run(fields, h)[0] = << >>
         /\ \A k \in 0 .. Len(fields) - h : Run(fields, h)[k] \in Seq(Byte)
         /\ \A k \in 1 .. Len(fields) - h :
              Run(fields, h)[k] = Run(fields, h)[k - 1] \o PeerBytes(fields[h + k])
<1>. DEFINE n == Len(fields) - h
            X == Seq(Byte)
            Next1(k) == PeerBytes(fields[h + k])
            Part == [k \in Nat |-> IF k \in 1 .. n THEN Next1(k) ELSE << >>]
            Step == [s \in Nat \X X |-> s[2] \o Part[s[1]]]
            Body(g, k) == IF k = 0 THEN << >> ELSE g[k - 1] \o Next1(k)
<1>1. n \in Nat /\ << >> \in X BY DEF AnyFields
<1>2. \A k \in 1 .. n : Next1(k) \in X
  <2>1. TAKE k \in 1 .. n
  <2>2. h + k \in 1 .. Len(fields) BY DEF AnyFields
  <2>. QED BY <2>2, PeerBytesType DEF AnyFields
<1>. HIDE DEF Next1
<1>3. Part \in [Nat -> X] /\ \A k \in 1 .. n : Part[k] = Next1(k)
  <2>. HIDE DEF n, X
  <2>. QED BY <1>1, <1>2
<1>4. Step \in [Nat \X X -> X]
  <2>1. \A k \in Nat, x \in X : x \o Part[k] \in X
    <3>. HIDE DEF n, Part
    <3>. QED BY <1>3
  <2>. HIDE DEF n, Part, X
  <2>. QED BY <2>1
<1>5. \A k \in Nat, x \in X : Step[<<k, x>>] = x \o Part[k] OBVIOUS
<1>6. PICK g : Follows(g, n, X, << >>, Step)
  <2>. HIDE DEF n, X, Step
  <2>. QED BY <1>1, <1>4, Recursion
<1>7. \A k \in 1 .. n : g[k] = g[k - 1] \o Next1(k)
  <2>. HIDE DEF Step, Part, X, n
  <2>1. TAKE k \in 1 .. n
  <2>2. k \in Nat /\ k - 1 \in 0 .. n BY <1>1
  <2>3. g[k - 1] \in X BY <1>6, <2>2 DEF Follows
  <2>. QED BY <1>3, <1>5, <1>6, <2>2, <2>3 DEF Follows
<1>8. \A k \in 0 .. n : g[k] = Body(g, k)
  <2>. HIDE DEF n, Step, X
  <2>. QED BY <1>1, <1>6, <1>7 DEF Follows
<1>. HIDE DEF Body
<1>9. g = [k \in 0 .. n |-> Body(g, k)] BY <1>6, <1>8 DEF Follows
<1>10. Run(fields, h) = [k \in 0 .. n |-> Body(Run(fields, h), k)]
  BY <1>9 DEF Run, Body, Next1
<1>. DEFINE r == Run(fields, h)
<1>11. \A k \in 0 .. n : r[k] = Body(r, k) BY <1>10
<1>. HIDE DEF r, n, X
<1>12. r[0] = << >> /\ \A k \in 1 .. n : r[k] = r[k - 1] \o Next1(k)
  <2>1. 0 \in 0 .. n /\ \A k \in 1 .. n : k \in 0 .. n /\ k # 0 BY <1>1
  <2>2. r[0] = Body(r, 0) /\ \A k \in 1 .. n : r[k] = Body(r, k) BY <1>11, <2>1
  <2>. QED BY <2>1, <2>2 DEF Body
<1>13. \A k \in 0 .. n : r[k] \in X
  <2>. DEFINE Bad == {k \in 0 .. n : r[k] \notin X}
  <2>1. SUFFICES ASSUME Bad # {} PROVE FALSE OBVIOUS
  <2>2. PICK m \in Bad : \A k \in Bad : m <= k
    <3>1. Bad \in SUBSET Nat OBVIOUS
    <3>. HIDE DEF Bad
    <3>. QED BY <2>1, <3>1, LeastNat
  <2>3. m \in 1 .. n /\ m - 1 \in 0 .. n /\ ~(m <= m - 1)
    BY <1>1, <1>12
  <2>4. r[m - 1] \in X BY <2>2, <2>3
  <2>5. r[m - 1] \o Next1(m) \in X BY <1>2, <2>3, <2>4 DEF X
  <2>. QED BY <1>12, <2>2, <2>3, <2>5
<1>. QED BY <1>12, <1>13 DEF r, n, X, Next1

(* The first of the fields that follow can be taken off.                   *)
LEMMA RunHead ==
  ASSUME NEW fields, AnyFields(fields), NEW h \in 0 .. Len(fields) - 1
  PROVE  \A k \in 1 .. Len(fields) - h :
           Run(fields, h)[k] = PeerBytes(fields[h + 1]) \o Run(fields, h + 1)[k - 1]
<1>. DEFINE n == Len(fields) - h
            r == Run(fields, h)
            s == Run(fields, h + 1)
            Next1(k) == PeerBytes(fields[h + k])
            head == Next1(1)
            Bad == {k \in 1 .. n : r[k] # head \o s[k - 1]}
<1>1. /\ n \in Nat \ {0} /\ h \in 0 .. Len(fields) /\ h + 1 \in 0 .. Len(fields)
      /\ Len(fields) - (h + 1) = n - 1 /\ h + 1 \in 1 .. Len(fields)
  <2>1. Len(fields) \in Nat BY DEF AnyFields
  <2>. QED BY <2>1
<1>2. /\ r[0] = << >> /\ \A k \in 0 .. n : r[k] \in Seq(Byte)
      /\ \A k \in 1 .. n : r[k] = r[k - 1] \o Next1(k)
  BY <1>1, RunIs
<1>3. /\ s[0] = << >> /\ \A k \in 0 .. n - 1 : s[k] \in Seq(Byte)
      /\ \A k \in 1 .. n - 1 : s[k] = s[k - 1] \o Next1(k + 1)
  <2>1. \A k \in 1 .. n - 1 : h + 1 + k = h + (k + 1) BY DEF AnyFields
  <2>2. /\ s[0] = << >> /\ \A k \in 0 .. n - 1 : s[k] \in Seq(Byte)
        /\ \A k \in 1 .. n - 1 : s[k] = s[k - 1] \o PeerBytes(fields[h + 1 + k])
    BY <1>1, RunIs
  <2>. QED BY <2>1, <2>2
<1>4. \A k \in 1 .. n : Next1(k) \in Seq(Byte)
  <2>1. TAKE k \in 1 .. n
  <2>2. h + k \in 1 .. Len(fields) BY DEF AnyFields
  <2>. QED BY <2>2, PeerBytesType DEF AnyFields
<1>5. SUFFICES ASSUME Bad # {} PROVE FALSE OBVIOUS
<1>. HIDE DEF r, s, n, Next1
<1>6. PICK m \in Bad : \A k \in Bad : m <= k
  <2>1. Bad \in SUBSET Nat BY <1>1
  <2>. HIDE DEF Bad
  <2>. QED BY <1>5, <2>1, LeastNat
<1>7. m \in 1 .. n /\ r[m] # head \o s[m - 1] OBVIOUS
<1>8. CASE m = 1
  <2>1. r[1] = << >> \o head
    <3>1. 1 \in 1 .. n /\ 1 - 1 = 0 BY <1>1
    <3>. QED BY <1>2, <3>1
  <2>2. << >> \o head = head /\ head \o << >> = head BY <1>1, <1>4
  <2>3. s[m - 1] = << >> BY <1>3, <1>8
  <2>. QED BY <1>7, <1>8, <2>1, <2>2, <2>3
<1>9. CASE m # 1
  <2>1. /\ m - 1 \in 1 .. n /\ ~(m <= m - 1) /\ m - 1 \in 1 .. n - 1
        /\ m - 2 \in 0 .. n - 1 /\ m - 1 - 1 = m - 2 /\ m - 1 + 1 = m
    BY <1>1, <1>7, <1>9
  <2>2. r[m - 1] = head \o s[m - 2]
    <3>1. m - 1 \notin Bad
      <4>. HIDE DEF Bad
      <4>. QED BY <1>6, <2>1
    <3>. QED BY <2>1, <3>1
  <2>3. r[m] = (head \o s[m - 2]) \o Next1(m) BY <1>2, <1>7, <2>2
  <2>4. s[m - 1] = s[m - 2] \o Next1(m) BY <1>3, <2>1
  <2>5. head \in Seq(Byte) /\ s[m - 2] \in Seq(Byte) /\ Next1(m) \in Seq(Byte)
    BY <1>1, <1>3, <1>4, <1>7, <2>1
  <2>6. head \o (s[m - 2] \o Next1(m)) = (head \o s[m - 2]) \o Next1(m)
    <3>. DEFINE x == head
                y == s[m - 2]
                z == Next1(m)
    <3>. HIDE DEF x, y, z
    <3>1. x \in Seq(Byte) /\ y \in Seq(Byte) /\ z \in Seq(Byte) BY <2>5 DEF x, y, z
    <3>2. x \o (y \o z) = (x \o y) \o z BY <3>1, Joined
    <3>. QED BY <3>2 DEF x, y, z
  <2>. QED BY <1>7, <2>3, <2>4, <2>6
<1>. QED BY <1>8, <1>9 DEF Next1
---------------------------------------------------------------------------------
(* The wire: init, and what each step keeps *)

(* Of these fields some are sent, the values of some of those are taken,   *)
(* and the bytes on their way are those of the fields in between.          *)
InOrder(fields, sent, bytes, taken) ==
  /\ sent \in 0 .. Len(fields) /\ Len(taken) \in 0 .. sent
  /\ taken = [i \in 1 .. Len(taken) |-> fields[i].value]
  /\ bytes = Run(fields, Len(taken))[sent - Len(taken)]

(* The inductive invariant.                                                *)
WInv ==
  /\ message \in Messages /\ reply \in Replies
  /\ little => /\ InOrder(message, written, to_peer, heard)
               /\ InOrder(reply, replied, to_client, read)

(* Messages and replies are of typed fields.                               *)
LEMMA AreAnyFields ==
  /\ \A m \in Messages : AnyFields(m) /\ \A i \in 1 .. Len(m) : m[i].kind \in Kinds
  /\ \A m \in Replies : AnyFields(m)
<1>1. ASSUME NEW kinds, NEW m, AreFields(m, kinds)
      PROVE  /\ Len(m) \in Nat /\ DOMAIN m = 1 .. Len(m)
             /\ \A i \in 1 .. Len(m) : IsTyped(m[i]) /\ m[i].kind \in kinds
  <2>1. Len(m) \in Nat /\ DOMAIN m = 1 .. Len(m) BY <1>1 DEF AreFields
  <2>2. \A i \in 1 .. Len(m) : m[i] \in Range(m) BY <2>1 DEF Range
  <2>. QED BY <1>1, <2>1, <2>2 DEF AreFields
<1>2. ASSUME NEW m \in Messages
      PROVE  AnyFields(m) /\ \A i \in 1 .. Len(m) : m[i].kind \in Kinds
  <2>1. AreFields(m, Kinds) BY FieldsAssumption
  <2>. QED BY <1>1, <2>1 DEF AnyFields
<1>3. ASSUME NEW m \in Replies PROVE AnyFields(m)
  <2>1. AreFields(m, Kinds \union {"null"}) BY FieldsAssumption
  <2>. QED BY <1>1, <2>1 DEF AnyFields
<1>. QED BY <1>2, <1>3

(* Nothing is on its way before anything is sent.                          *)
LEMMA NothingSent ==
  ASSUME NEW fields, AnyFields(fields)
  PROVE  InOrder(fields, 0, << >>, << >>)
<1>1. /\ Len(<< >>) = 0 /\ 0 - 0 = 0 /\ 0 \in 0 .. 0
      /\ 0 \in 0 .. Len(fields) /\ 1 .. 0 = {}
  BY DEF AnyFields
<1>2. Run(fields, 0)[0] = << >> BY <1>1, RunIs
<1>3. << >> = [i \in 1 .. 0 |-> fields[i].value] BY <1>1
<1>. QED BY <1>1, <1>2, <1>3 DEF InOrder

(* The next field's bytes go behind those on their way.                    *)
LEMMA SentInOrder ==
  ASSUME NEW fields, AnyFields(fields), NEW sent, NEW bytes, NEW taken,
         InOrder(fields, sent, bytes, taken), sent < Len(fields)
  PROVE  InOrder(fields, sent + 1, bytes \o PeerBytes(fields[sent + 1]), taken)
<1>. DEFINE h == Len(taken)
            k == sent - h
            j == k + 1
<1>1. /\ sent \in 0 .. Len(fields) /\ h \in 0 .. sent /\ Len(fields) \in Nat
      /\ taken = [i \in 1 .. h |-> fields[i].value]
      /\ bytes = Run(fields, h)[k]
  BY DEF InOrder, AnyFields
<1>. HIDE DEF h
<1>2. /\ sent + 1 \in 0 .. Len(fields) /\ h \in 0 .. sent + 1 /\ h \in 0 .. Len(fields)
      /\ j \in 1 .. Len(fields) - h /\ sent + 1 - h = j
      /\ j - 1 = k /\ h + j = sent + 1
  BY <1>1
<1>. HIDE DEF j, k
<1>3. Run(fields, h)[j] = Run(fields, h)[j - 1] \o PeerBytes(fields[h + j])
  BY <1>2, RunIs
<1>4. Run(fields, h)[sent + 1 - h] = bytes \o PeerBytes(fields[sent + 1])
  BY <1>1, <1>2, <1>3
<1>. DEFINE more == bytes \o PeerBytes(fields[sent + 1])
<1>5. more = Run(fields, h)[sent + 1 - h] BY <1>4
<1>. HIDE DEF more
<1>6. InOrder(fields, sent + 1, more, taken)
  BY <1>1, <1>2, <1>5 DEF InOrder, h
<1>. QED BY <1>6 DEF more

(* If a field is on its way, its bytes are at the head.                    *)
LEMMA HeadInOrder ==
  ASSUME NEW fields, AnyFields(fields), NEW sent, NEW bytes, NEW taken,
         InOrder(fields, sent, bytes, taken), Len(taken) < sent
  PROVE  /\ Len(taken) + 1 \in 1 .. Len(fields)
         /\ \E rest \in Seq(Byte) :
              /\ bytes = PeerBytes(fields[Len(taken) + 1]) \o rest
              /\ rest = Run(fields, Len(taken) + 1)[sent - (Len(taken) + 1)]
<1>. DEFINE h == Len(taken)
            k == sent - h
<1>1. /\ sent \in 0 .. Len(fields) /\ h \in 0 .. sent /\ Len(fields) \in Nat
      /\ bytes = Run(fields, h)[k] /\ h < sent
  BY DEF InOrder, AnyFields
<1>. HIDE DEF h
<1>2. /\ h \in 0 .. Len(fields) - 1 /\ h + 1 \in 1 .. Len(fields)
      /\ k \in 1 .. Len(fields) - h
      /\ k - 1 \in 0 .. Len(fields) - (h + 1) /\ sent - (h + 1) = k - 1
  BY <1>1
<1>. HIDE DEF k
<1>3. bytes = PeerBytes(fields[h + 1]) \o Run(fields, h + 1)[k - 1]
  BY <1>1, <1>2, RunHead
<1>4. Run(fields, h + 1)[k - 1] \in Seq(Byte)
  <2>1. h + 1 \in 0 .. Len(fields) BY <1>2
  <2>. QED BY <1>2, <2>1, RunIs
<1>. QED BY <1>2, <1>3, <1>4 DEF h

(* Taking the field at the head leaves the ones behind it.                 *)
LEMMA TakenInOrder ==
  ASSUME NEW fields, AnyFields(fields), NEW sent, NEW bytes, NEW taken,
         InOrder(fields, sent, bytes, taken), Len(taken) < sent,
         fields[Len(taken) + 1].kind \in Kinds
  PROVE  LET kind == fields[Len(taken) + 1].kind
             n    == Width(bytes, kind)
         IN  /\ n \in 1 .. Len(bytes)
             /\ InOrder(fields, sent, SubSeq(bytes, n + 1, Len(bytes)),
                        Append(taken, Take(bytes, kind, n)))
<1>. DEFINE h == Len(taken)
            f == fields[h + 1]
            n == Width(bytes, f.kind)
            rest == SubSeq(bytes, n + 1, Len(bytes))
            more == Append(taken, Take(bytes, f.kind, n))
<1>1. /\ sent \in 0 .. Len(fields) /\ h \in 0 .. sent /\ h < sent /\ Len(fields) \in Nat
      /\ taken = [i \in 1 .. h |-> fields[i].value]
  BY DEF InOrder, AnyFields
<1>2. h + 1 \in 1 .. Len(fields) /\ IsTyped(f)
  BY <1>1 DEF AnyFields
<1>3. PICK tail \in Seq(Byte) :
        /\ bytes = PeerBytes(f) \o tail
        /\ tail = Run(fields, h + 1)[sent - (h + 1)]
  BY HeadInOrder
<1>4. n \in 1 .. Len(bytes) /\ Take(bytes, f.kind, n) = f.value /\ rest = tail
  <2>. HIDE DEF f
  <2>. QED BY <1>2, <1>3, FieldAtHead DEF f
<1>. HIDE DEF n, rest
<1>5. more = Append(taken, f.value) BY <1>4
<1>. HIDE DEF more
<1>6. more = [i \in 1 .. h + 1 |-> fields[i].value] /\ Len(more) = h + 1
  <2>1. more = [i \in 1 .. h + 1 |-> IF i = h + 1 THEN f.value ELSE taken[i]]
    BY <1>1, <1>5 DEF h
  <2>. HIDE DEF h
  <2>2. \A i \in 1 .. h + 1 : (IF i = h + 1 THEN f.value ELSE taken[i]) = fields[i].value
    BY <1>1
  <2>3. more = [i \in 1 .. h + 1 |-> fields[i].value] BY <2>1, <2>2
  <2>4. h + 1 \in Nat BY <1>1
  <2>. QED BY <2>3, <2>4
<1>7. h + 1 \in 0 .. sent BY <1>1
<1>8. InOrder(fields, sent, rest, more)
  BY <1>1, <1>3, <1>4, <1>6, <1>7 DEF InOrder
<1>. QED BY <1>4, <1>8 DEF n, rest, more

(* Both ends of the wire start with nothing.                               *)
LEMMA WireInitInv == WireInit => WInv
<1>. SUFFICES ASSUME WireInit PROVE WInv
  OBVIOUS
<1>1. AnyFields(message) /\ AnyFields(reply)
  BY AreAnyFields DEF WireInit
<1>2. InOrder(message, 0, << >>, << >>) /\ InOrder(reply, 0, << >>, << >>)
  BY <1>1, NothingSent
<1>. QED BY <1>2 DEF WireInit, WInv

(* A little-endian machine has nothing to turn round.                      *)
LEMMA NothingReversed ==
  ASSUME little
  PROVE  /\ \A v, n : OnWire(v, n) = Digits(v, n)
         /\ \A b : OffWire(b) = FromDigits(b)
BY DEF OnWire, OffWire, Ordered, LITTLE_ENDIAN_BYTE_ORDER, Memory, FromMemory

(* The client's bytes of a field are the peer's.                           *)
LEMMA WriteInv ==
  ASSUME WInv, WriteEnum \/ WriteBoolean \/ WriteInt \/ WriteLong \/ WriteString
  PROVE  WInv'
<1>. DEFINE f == message[written + 1]
            bytes == PeerBytes(f)
<1>1. /\ UNCHANGED <<choice, peer, to_client, read>> /\ written < Len(message)
      /\ written' = written + 1
  BY DEF WriteEnum, WriteBoolean, WriteInt, WriteLong, WriteString, WriteBytes
<1>2. SUFFICES ASSUME little
               PROVE  InOrder(message, written + 1, to_peer', heard)
  BY <1>1 DEF WInv, choice, peer
<1>3. AnyFields(message) /\ InOrder(message, written, to_peer, heard)
  BY <1>2, AreAnyFields DEF WInv
<1>4. IsTyped(f)
  <2>1. written + 1 \in 1 .. Len(message) BY <1>1, <1>3 DEF InOrder, AnyFields
  <2>. QED BY <1>3, <2>1 DEF AnyFields
<1>5. to_peer' = to_peer \o bytes
  <2>1. CASE WriteEnum
    <3>1. f.kind = "enum" /\ to_peer' = to_peer \o <<f.value % Base>>
      BY <2>1 DEF WriteEnum, WriteBytes, Value
    <3>2. f.value \in Int
      <4>1. 1 \in 0 .. 2 * Size BY WireAssumption
      <4>. QED BY <1>4, <3>1, <4>1, IntegersAreInt DEF IsTyped
    <3>3. bytes = Digits(f.value, 1) BY <3>1 DEF PeerBytes
    <3>. QED BY <3>1, <3>2, <3>3, EnumByte
  <2>2. CASE WriteBoolean
    BY <2>2 DEF WriteBoolean, WriteBytes, Value, PeerBytes
  <2>3. CASE WriteInt
    BY <1>2, <2>3, NothingReversed DEF WriteInt, WriteBytes, Value, PeerBytes
  <2>4. CASE WriteLong
    BY <1>2, <2>4, NothingReversed DEF WriteLong, WriteBytes, Value, PeerBytes
  <2>5. CASE WriteString
    BY <1>2, <2>5, NothingReversed DEF WriteString, WriteBytes, Value, PeerBytes
  <2>. QED BY <2>1, <2>2, <2>3, <2>4, <2>5
<1>6. InOrder(message, written + 1, to_peer \o bytes, heard)
  BY <1>1, <1>3, SentInOrder
<1>. QED BY <1>5, <1>6

(* The peer takes a whole field.                                           *)
LEMMA PeerReadsInv == ASSUME WInv, PeerReads PROVE WInv'
<1>. DEFINE kind == message[Len(heard) + 1].kind
            n == Width(to_peer, kind)
<1>1. /\ UNCHANGED <<choice, client, replied, to_client>> /\ Len(heard) < written
      /\ heard' = Append(heard, Take(to_peer, kind, n))
      /\ to_peer' = SubSeq(to_peer, n + 1, Len(to_peer))
  BY DEF PeerReads
<1>2. SUFFICES ASSUME little
               PROVE  InOrder(message, written, to_peer', heard')
  BY <1>1 DEF WInv, choice, client
<1>3. AnyFields(message) /\ InOrder(message, written, to_peer, heard)
  BY <1>2, AreAnyFields DEF WInv
<1>4. kind \in Kinds
  <2>1. Len(heard) + 1 \in 1 .. Len(message) BY <1>1, <1>3 DEF InOrder, AnyFields
  <2>. QED BY <2>1, AreAnyFields DEF WInv
<1>. QED BY <1>1, <1>3, <1>4, TakenInOrder

(* The peer sends a whole field.                                           *)
LEMMA PeerRepliesInv == ASSUME WInv, PeerReplies PROVE WInv'
<1>1. /\ UNCHANGED <<choice, client, heard, to_peer>> /\ replied < Len(reply)
      /\ replied' = replied + 1
      /\ to_client' = to_client \o PeerBytes(reply[replied + 1])
  BY DEF PeerReplies
<1>2. SUFFICES ASSUME little
               PROVE  InOrder(reply, replied + 1, to_client', read)
  BY <1>1 DEF WInv, choice, client
<1>3. AnyFields(reply) /\ InOrder(reply, replied, to_client, read)
  BY <1>2, AreAnyFields DEF WInv
<1>. QED BY <1>1, <1>3, SentInOrder

(* A reader that finds its bytes here finds a field: nothing is there      *)
(* otherwise.                                                              *)
LEMMA FieldIsHere ==
  ASSUME NEW fields, AnyFields(fields), NEW sent, NEW bytes, NEW taken,
         InOrder(fields, sent, bytes, taken), Len(bytes) >= 1
  PROVE  Len(taken) < sent
<1>1. /\ sent \in 0 .. Len(fields) /\ Len(taken) \in 0 .. sent /\ Len(fields) \in Nat
      /\ bytes = Run(fields, Len(taken))[sent - Len(taken)]
  BY DEF InOrder, AnyFields
<1>2. CASE Len(taken) = sent
  <2>1. Len(taken) \in 0 .. Len(fields) /\ sent - Len(taken) = 0 BY <1>1, <1>2
  <2>2. bytes = << >> BY <1>1, <2>1, RunIs
  <2>. QED BY <2>2
<1>. QED BY <1>1, <1>2

(* The client takes a whole field.                                         *)
LEMMA ClientReadsInv ==
  ASSUME WInv, ReadEnum \/ ReadBoolean \/ ReadInt \/ ReadLong \/ ReadString
  PROVE  WInv'
<1>. DEFINE kind == reply[Len(read) + 1].kind
            n == Width(to_client, kind)
<1>1. UNCHANGED <<choice, peer, written, to_peer>>
  BY DEF ReadEnum, ReadBoolean, ReadInt, ReadLong, ReadString, ReadBytes
<1>2. SUFFICES ASSUME little
               PROVE  InOrder(reply, replied, to_client', read')
  BY <1>1 DEF WInv, choice, peer
<1>3. AnyFields(reply) /\ InOrder(reply, replied, to_client, read)
  BY <1>2, AreAnyFields DEF WInv
<1>4. 1 <= Size /\ 1 <= 2 * Size /\ Size \in Nat /\ Size \in 1 .. 2 * Size BY WireAssumption
<1>5. Len(read) < replied
  <2>1. Len(to_client) >= 1 \/ Len(to_client) \notin Int
    BY <1>4 DEF ReadEnum, ReadBoolean, ReadInt, ReadLong, ReadString, Awaits
  <2>2. to_client \in Seq(Byte)
    <3>1. /\ Len(read) \in 0 .. Len(reply)
          /\ replied - Len(read) \in 0 .. Len(reply) - Len(read)
          /\ to_client = Run(reply, Len(read))[replied - Len(read)]
      BY <1>3 DEF InOrder, AnyFields
    <3>. QED BY <1>3, <3>1, RunIs
  <2>. QED BY <1>3, <2>1, <2>2, FieldIsHere
<1>6. CASE UNCHANGED <<read, to_client>> BY <1>3, <1>6
<1>7. CASE /\ kind \in Kinds
           /\ read' = Append(read, Take(to_client, kind, n))
           /\ to_client' = SubSeq(to_client, n + 1, Len(to_client))
  BY <1>3, <1>5, <1>7, TakenInOrder
<1>. DEFINE f == reply[Len(read) + 1]
<1>8. PICK rest \in Seq(Byte) : to_client = PeerBytes(f) \o rest
  <2>1. PICK rest \in Seq(Byte) :
          /\ to_client = PeerBytes(reply[Len(read) + 1]) \o rest
          /\ rest = Run(reply, Len(read) + 1)[replied - (Len(read) + 1)]
    BY <1>3, <1>5, HeadInOrder
  <2>. QED BY <2>1
<1>9. IsTyped(f)
  <2>1. Len(read) + 1 \in 1 .. Len(reply) BY <1>3, <1>5, HeadInOrder
  <2>. QED BY <1>3, <2>1 DEF AnyFields
<1>. HIDE DEF f
<1>10. CASE ReadEnum
  <2>1. /\ kind = "enum" /\ 1 <= Len(to_client)
        /\ read' = Append(read, Signed(to_client[1], 1))
        /\ to_client' = SubSeq(to_client, 1 + 1, Len(to_client))
    BY <1>10 DEF ReadEnum, Awaits, ReadBytes
  <2>2. to_client \in Seq(Byte)
    <3>1. PeerBytes(f) \in Seq(Byte) BY <1>9, <2>1, PeerBytesType DEF f, Kinds
    <3>. QED BY <1>8, <3>1
  <2>3. to_client[1] \in Byte /\ SubSeq(to_client, 1, 1) = <<to_client[1]>>
    <3>1. 1 \in 1 .. Len(to_client) BY <2>1, <2>2
    <3>2. to_client[1] \in Byte BY <2>2, <3>1
    <3>3. SubSeq(to_client, 1, 1) = [i \in 1 .. 1 |-> to_client[i]] BY <2>2, <3>1
    <3>4. [i \in 1 .. 1 |-> to_client[i]] = <<to_client[1]>> OBVIOUS
    <3>. QED BY <3>2, <3>3, <3>4
  <2>4. Little(SubSeq(to_client, 1, 1)) = Signed(to_client[1], 1)
    BY <2>3, OneByte DEF Little
  <2>5. n = 1 /\ Take(to_client, kind, 1) = Little(SubSeq(to_client, 1, 1))
    BY <2>1 DEF Width, Take
  <2>. QED BY <1>7, <2>1, <2>4, <2>5 DEF Kinds
<1>11. CASE ReadBoolean
  <2>1. /\ kind = "boolean" /\ read' = Append(read, to_client[1] # 0)
        /\ to_client' = SubSeq(to_client, 1 + 1, Len(to_client))
    BY <1>11 DEF ReadBoolean, Awaits, ReadBytes
  <2>2. n = 1 /\ Take(to_client, kind, 1) = (to_client[1] # 0)
    BY <2>1 DEF Width, Take
  <2>. QED BY <1>7, <2>1, <2>2 DEF Kinds
<1>12. CASE ReadInt
  <2>1. /\ kind = "int" /\ read' = Append(read, FromDigits(First(Size)))
        /\ to_client' = SubSeq(to_client, Size + 1, Len(to_client))
    BY <1>2, <1>12, NothingReversed DEF ReadInt, Awaits, ReadBytes
  <2>2. n = Size /\ Take(to_client, kind, Size) = FromDigits(First(Size))
    BY <2>1 DEF Width, Take, Little, First
  <2>. QED BY <1>7, <2>1, <2>2 DEF Kinds
<1>13. CASE ReadLong
  <2>1. /\ kind = "long" /\ read' = Append(read, FromDigits(First(2 * Size)))
        /\ to_client' = SubSeq(to_client, 2 * Size + 1, Len(to_client))
    BY <1>2, <1>13, NothingReversed DEF ReadLong, Awaits, ReadBytes
  <2>2. n = 2 * Size /\ Take(to_client, kind, 2 * Size) = FromDigits(First(2 * Size))
    BY <2>1 DEF Width, Take, Little, First
  <2>. QED BY <1>7, <2>1, <2>2 DEF Kinds
<1>14. CASE ReadString
  <2>1. CASE Length = -1
    BY <1>6, <1>14, <2>1 DEF ReadString
  <2>. DEFINE k == Size + (Length % Power[Size])
  <2>2. CASE Length # -1 /\ kind = "string"
    <3>1. /\ read' = Append(read, SubSeq(to_client, Size + 1, k))
          /\ to_client' = SubSeq(to_client, k + 1, Len(to_client))
      BY <1>14, <2>2 DEF ReadString, ReadBytes
    <3>2. Length = Little(SubSeq(to_client, 1, Size))
      BY <1>2, NothingReversed DEF Length, First, Little
    <3>3. n = k /\ Take(to_client, kind, n) = SubSeq(to_client, Size + 1, n)
      BY <2>2, <3>2 DEF Width, Take
    <3>. QED BY <1>7, <2>2, <3>1, <3>3 DEF Kinds
  <2>3. CASE kind = "null"
    <3>1. Length = -1
      <4>1. PeerBytes(f) = Digits(-1, Size) BY <2>3 DEF PeerBytes, f
      <4>2. -1 \in IntegersOf(Size)
        <5>1. Power[Size] \in Nat \ {0} /\ Power[Size] >= 2
          <6>1. Size - 1 \in 0 .. 2 * Size /\ Size \in 1 .. 2 * Size BY <1>4
          <6>2. Power[Size - 1] \in Nat \ {0} /\ Power[Size] = Base * Power[Size - 1]
            BY <6>1, Powers
          <6>3. Base * Power[Size - 1] >= Base BY <6>2, WireAssumption
          <6>. QED BY <6>2, <6>3, WireAssumption
        <5>. QED BY <5>1 DEF IntegersOf
      <4>3. FromDigits(Digits(-1, Size)) = -1 BY <1>4, <4>2, BackFromDigits
      <4>4. Digits(-1, Size) \in Seq(Byte) /\ Len(Digits(-1, Size)) = Size
        BY <1>4, DigitsAre DEF Byte
      <4>. DEFINE d == Digits(-1, Size)
      <4>. HIDE DEF d
      <4>5. SubSeq((d \o << >>) \o rest, 1, Len(d)) = d /\ d \o << >> = d
        BY <4>4, Parts DEF d
      <4>6. First(Size) = d BY <1>8, <4>1, <4>4, <4>5 DEF First, d
      <4>. QED BY <1>2, <4>3, <4>6, NothingReversed DEF Length, d
    <3>. QED BY <2>1, <3>1
  <2>4. kind \in {"string", "null"} BY <1>14 DEF ReadString, Awaits
  <2>. QED BY <2>1, <2>2, <2>3, <2>4
<1>. QED BY <1>10, <1>11, <1>12, <1>13, <1>14

(* No step of either end breaks the invariant.                             *)
LEMMA WireNextInv == WInv /\ [WireNext]_wire_vars => WInv'
<1>. SUFFICES ASSUME WInv, [WireNext]_wire_vars PROVE WInv'
  OBVIOUS
<1>1. CASE UNCHANGED wire_vars
  BY <1>1 DEF WInv, wire_vars, choice, client, peer
<1>2. CASE WireNext
  BY <1>2, WriteInv, PeerReadsInv, PeerRepliesInv, ClientReadsInv DEF WireNext
<1>. QED BY <1>1, <1>2

(* The invariant holds in every reachable state.                           *)
LEMMA WireInvariant == WireSpec => []WInv
BY WireInitInv, WireNextInv, PTL DEF WireSpec
---------------------------------------------------------------------------------
(* The wire: theorems *)

(* What has been taken of fields in order is the beginning of their        *)
(* values, and with the last one taken nothing is on its way.              *)
LEMMA OrderMeans ==
  ASSUME NEW fields, AnyFields(fields), NEW sent, NEW bytes, NEW taken,
         InOrder(fields, sent, bytes, taken)
  PROVE  /\ IsPrefix(taken, Values(fields))
         /\ Len(taken) = Len(fields) => bytes = << >>
<1>. DEFINE h == Len(taken)
            v == Values(fields)
<1>1. /\ sent \in 0 .. Len(fields) /\ h \in 0 .. sent /\ Len(fields) \in Nat
      /\ taken = [i \in 1 .. h |-> fields[i].value]
      /\ bytes = Run(fields, h)[sent - h]
  BY DEF InOrder, AnyFields
<1>. HIDE DEF h
<1>2. h = Len(fields) => sent - h = 0 /\ h \in 0 .. Len(fields) BY <1>1
<1>3. h = Len(fields) => bytes = << >> BY <1>1, <1>2, RunIs
<1>4. /\ v = [i \in 1 .. Len(fields) |-> fields[i].value] /\ Len(v) = Len(fields)
      /\ h <= Len(fields) /\ h \in Nat
  BY <1>1 DEF Values, AnyFields
<1>. HIDE DEF v
<1>5. SubSeq(taken, 1, h) = [i \in 1 .. h |-> taken[i]]
  BY <1>1
<1>6. SubSeq(v, 1, h) = [i \in 1 .. h |-> v[i]]
  BY <1>1, <1>4
<1>7. \A i \in 1 .. h : taken[i] = v[i] BY <1>1, <1>4
<1>8. SubSeq(taken, 1, h) = SubSeq(v, 1, h) BY <1>5, <1>6, <1>7
<1>. QED BY <1>3, <1>4, <1>8 DEF IsPrefix, h, v

(* The peer hears, in order and completely, the values the client writes,  *)
(* for every width of bytes and integers and every message of the client.  *)
THEOREM PeerHears == WireSpec => []PeerHearsLittleEndian
<1>1. WInv => PeerHearsLittleEndian
  BY OrderMeans, AreAnyFields DEF WInv, PeerHearsLittleEndian, PeerHearsClient
<1>. QED BY <1>1, WireInvariant, PTL

(* So does the client the peer's, on the boundaries of fields.             *)
THEOREM ClientHears == WireSpec => []ClientHearsLittleEndian
<1>1. WInv => ClientHearsLittleEndian
  BY OrderMeans, AreAnyFields DEF WInv, ClientHearsLittleEndian
<1>. QED BY <1>1, WireInvariant, PTL

(* In either byte order the client reads what it would have written: its   *)
(* two reversals undo each other, although reverse leaves a byte out.      *)
THEOREM ReadingUndoesWriting == WireSpec => []Loopback
<1>1. WInv => Loopback
  <2>. SUFFICES ASSUME WInv, NEW f \in Range(message), f.kind \in {"int", "long"}
                PROVE  LET n == IF f.kind = "int" THEN Size ELSE 2 * Size
                       IN  OffWire(OnWire(f.value, n)) = f.value
    BY DEF Loopback
  <2>1. IsTyped(f) BY FieldsAssumption DEF WInv, AreFields
  <2>2. Size \in 1 .. 2 * Size /\ 2 * Size \in 1 .. 2 * Size BY WireAssumption
  <2>3. CASE f.kind = "int"
    <3>1. f.value \in IntegersOf(Size) BY <2>1, <2>3 DEF IsTyped
    <3>. QED BY <2>2, <2>3, <3>1, OffUndoesOn
  <2>4. CASE f.kind = "long"
    <3>1. f.value \in IntegersOf(2 * Size) BY <2>1, <2>4 DEF IsTyped
    <3>. QED BY <2>2, <2>4, <3>1, OffUndoesOn
  <2>. QED BY <2>3, <2>4
<1>. QED BY <1>1, WireInvariant, PTL
=================================================================================
