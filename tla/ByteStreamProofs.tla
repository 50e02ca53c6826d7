--------------------------- MODULE ByteStreamProofs ---------------------------
(***************************************************************************)
(* Proofs about readBytes and writeBytes on top of Receive and Send        *)
(* (ByteStream): for every script of calls, every stream of the peer and   *)
(* every way the kernel splits the transfers, what is sent and received    *)
(* while no signal comes is whole and in order, and the calls implement    *)
(* the pipe of BytePipe.  The inductive invariant is IInv.                 *)
(***************************************************************************)
EXTENDS ByteStream, FiniteSetTheorems, SequenceTheorems, TLAPS

(* What a place in a buffer can hold.                                      *)
Bytes == Nat \union {Garbage}

(* The loops run while something is left to transfer.                      *)
Looping ==
    /\ pc = "send" => Current.op = "write" /\ offset < ByteCount
    /\ pc = "recv" => Current.op = "read" /\ offset < ByteCount

(* errno says EINTR only if a signal has come.                             *)
ErrnoTruthful == errno = "EINTR" => interrupts > 0

(* While no signal comes, Receive starts to fill its buffer at its first   *)
(* byte, and what the reads have returned and the current one has copied   *)
(* is, byte by byte, what the peer has sent.                               *)
Received ==
    interrupts = 0 /\ pc # "exited" =>
        /\ consumed = Len(got) + (IF pc = "recv" THEN offset ELSE 0)
        /\ \A i \in 1 .. Len(got) : got[i] = Incoming[i]
        /\ pc = "recv" =>
             /\ m_nBytesReceived = 0
             /\ \A i \in 1 .. offset : bytes[i] = Incoming[Len(got) + i]

(* RECV writes outside the buffer only in a call of Receive that was       *)
(* interrupted, and errno keeps Receive going round its loop from then on  *)
(* until the process ends.                                                 *)
Damage ==
    /\ corrupted =>
         /\ interrupts > 0
         /\ \/ pc = "recv" /\ errno = "EINTR"
            \/ pc = "exited" /\ Current.op = "read"
    /\ pc = "recv" /\ errno # "EINTR" => m_nBytesReceived = 0

(* The inductive invariant.                                                *)
IInv ==
    /\ TypeOK /\ Looping /\ ErrnoTruthful /\ Received /\ Damage
    /\ SentOnceInOrder /\ ExitsOnlyIfClosed
---------------------------------------------------------------------------
(* The script *)

(* What a call of the script says.                                         *)
LEMMA CallFields ==
  ASSUME NEW k \in 1 .. Len(Script)
  PROVE  /\ Script[k].op \in {"write", "read"}
         /\ Script[k].op = "write" => Script[k].bytes \in Seq(Nat)
         /\ Script[k].op = "read" => Script[k].count \in Nat
<1>1. Script[k] \in Calls BY ScriptAssumption
<1>. QED BY <1>1 DEF Calls

(* The number of calls and of the peer's bytes.                            *)
LEMMA Lengths ==
  /\ Len(Script) \in Nat \ {0} /\ Len(Incoming) \in Nat
  /\ \A i \in 1 .. Len(Incoming) : Incoming[i] \in Nat
BY ScriptAssumption

(* The current call, while there is one.                                   *)
LEMMA CurrentFields ==
  ASSUME TypeOK, pc # "done"
  PROVE  /\ call \in 1 .. Len(Script)
         /\ Current.op \in {"write", "read"}
         /\ Current.op = "write" =>
              Current.bytes \in Seq(Nat) /\ ByteCount = Len(Current.bytes)
         /\ Current.op = "read" =>
              Current.count \in Nat /\ ByteCount = Current.count
         /\ ByteCount \in Nat
<1>1. call \in 1 .. Len(Script) BY Lengths DEF TypeOK
<1>. QED BY <1>1, CallFields DEF Current, ByteCount

(* Every non-empty set of natural numbers has a least element.  The        *)
(* intervals 1 .. n of its elements are finite sets, and strict inclusion  *)
(* of finite sets is well-founded.                                         *)
LEMMA LeastNat ==
  ASSUME NEW T \in SUBSET Nat, T # {}
  PROVE  \E x \in T : \A y \in T : x <= y
<1>. DEFINE Intervals == {1 .. n : n \in T}
<1>1. Intervals # {} OBVIOUS
<1>2. \A n \in Nat : IsFiniteSet(1 .. n) BY FS_Interval
<1>3. Intervals \subseteq FiniteSubsetsOf(Nat) BY <1>2 DEF FiniteSubsetsOf
<1>4. PICK b \in Intervals :
        \A a \in Intervals : ~(<<a, b>> \in StrictSubsetOrdering(Nat))
  BY WFMin, FS_StrictSubsetOrderingWellFounded, <1>1, <1>3
<1>5. PICK x \in T : b = 1 .. x OBVIOUS
<1>6. ASSUME NEW y \in T PROVE x <= y
  <2>1. <<1 .. y, 1 .. x>> \notin StrictSubsetOrdering(Nat) BY <1>4, <1>5
  <2>2. SUFFICES ASSUME y < x PROVE FALSE OBVIOUS
  <2>3. (1 .. y) \subseteq (1 .. x) BY <2>2
  <2>4. x \in 1 .. x /\ x \notin 1 .. y BY <2>2
  <2>. QED BY <2>1, <2>3, <2>4 DEF StrictSubsetOrdering
<1>. QED BY <1>6

(* What call k writes.                                                     *)
WrittenBy(k) == IF Script[k].op = "write" THEN Script[k].bytes ELSE << >>

(* What the recursion in Written computes: there is a function that        *)
(* satisfies its equation on every beginning of the script.                *)
LEMMA WrittenDef ==
  Written = [ n \in 0 .. Len(Script) |->
                IF n = 0 THEN << >> ELSE Written[n - 1] \o WrittenBy(n) ]
<1>. DEFINE Body(g, n) == IF n = 0 THEN << >> ELSE g[n - 1] \o WrittenBy(n)
            Upto(m) == \E g : g = [n \in 0 .. m |-> Body(g, n)]
            Bad == {m \in Nat : ~Upto(m)}
<1>1. Upto(Len(Script))
  <2>1. SUFFICES ASSUME Bad # {} PROVE FALSE BY Lengths
  <2>2. PICK m \in Bad : \A k \in Bad : m <= k
    <3>. HIDE DEF Bad
    <3>1. Bad \in SUBSET Nat BY DEF Bad
    <3>. QED BY <2>1, <3>1, LeastNat
  <2>3. CASE m = 0
    <3>. DEFINE g == [n \in 0 .. 0 |-> << >>]
    <3>1. \A n \in 0 .. 0 : Body(g, n) = << >> OBVIOUS
    <3>2. g = [n \in 0 .. 0 |-> Body(g, n)] BY <3>1
    <3>. QED BY <2>2, <2>3, <3>2
  <2>4. CASE m # 0
    <3>1. m - 1 \in Nat /\ m - 1 \notin Bad
      <4>1. m \in Nat BY DEF Bad
      <4>2. m - 1 \in Nat /\ ~(m <= m - 1) BY <2>4, <4>1
      <4>. HIDE DEF Bad
      <4>. QED BY <2>2, <4>2
    <3>2. PICK g : g = [n \in 0 .. m - 1 |-> Body(g, n)] BY <3>1
    <3>. DEFINE h == [n \in 0 .. m |-> Body(g, n)]
    <3>3. ASSUME NEW n \in 0 .. m, n # 0 PROVE h[n - 1] = g[n - 1]
      <4>1. n - 1 \in 0 .. m - 1 /\ n - 1 \in 0 .. m BY <2>2, <3>3
      <4>. QED BY <3>2, <4>1
    <3>4. ASSUME NEW n \in 0 .. m PROVE Body(g, n) = Body(h, n)
      BY <3>3, <3>4
    <3>. HIDE DEF Body
    <3>5. h = [n \in 0 .. m |-> Body(h, n)] BY <3>4
    <3>. QED BY <2>2, <3>5
  <2>. QED BY <2>3, <2>4
<1>2. PICK g : g = [n \in 0 .. Len(Script) |-> Body(g, n)] BY <1>1
<1>. QED BY <1>2 DEF Written, WrittenBy

(* Each call adds what it writes to what the calls before it have written. *)
LEMMA WrittenNext ==
  /\ Written[0] = << >>
  /\ \A k \in 1 .. Len(Script) : Written[k] = Written[k - 1] \o WrittenBy(k)
<1>. DEFINE Body(n) == IF n = 0 THEN << >> ELSE Written[n - 1] \o WrittenBy(n)
<1>1. Written = [n \in 0 .. Len(Script) |-> Body(n)] BY WrittenDef
<1>. HIDE DEF Body
<1>2. \A n \in 0 .. Len(Script) : Written[n] = Body(n) BY <1>1
<1>3. 0 \in 0 .. Len(Script)
      /\ \A k \in 1 .. Len(Script) : k \in 0 .. Len(Script) /\ k # 0
  BY Lengths
<1>. QED BY <1>2, <1>3 DEF Body

(* What is written is a sequence of bytes, after any number of calls.      *)
LEMMA WrittenType == \A k \in 0 .. Len(Script) : Written[k] \in Seq(Nat)
<1>. DEFINE Bad == {k \in 0 .. Len(Script) : Written[k] \notin Seq(Nat)}
<1>1. SUFFICES ASSUME Bad # {} PROVE FALSE OBVIOUS
<1>2. PICK m \in Bad : \A k \in Bad : m <= k
  <2>1. Bad \in SUBSET Nat OBVIOUS
  <2>. HIDE DEF Bad
  <2>. QED BY <1>1, <2>1, LeastNat
<1>3. m \in 0 .. Len(Script) /\ Written[m] \notin Seq(Nat) OBVIOUS
<1>4. m # 0
  <2>1. Written[0] \in Seq(Nat) BY WrittenNext
  <2>. QED BY <1>3, <2>1
<1>5. /\ m \in 1 .. Len(Script) /\ m - 1 \in 0 .. Len(Script)
      /\ ~(m <= m - 1)
  BY <1>3, <1>4, Lengths
<1>6. Written[m - 1] \in Seq(Nat) BY <1>2, <1>5
<1>7. WrittenBy(m) \in Seq(Nat) BY <1>5, CallFields DEF WrittenBy
<1>8. Written[m - 1] \o WrittenBy(m) \in Seq(Nat) BY <1>6, <1>7
<1>. QED BY <1>3, <1>5, <1>8, WrittenNext
---------------------------------------------------------------------------
(* System calls *)

(* What SEND can return while writeBytes has something left to send.       *)
LEMMA SendResult ==
  ASSUME IInv, NEW r \in SendResults
  PROVE  \/ \E n \in 1 .. ByteCount - offset : r = Succeeds(n)
         \/ r = Fails("EINTR") /\ interrupts < MaxInterrupts
         \/ r = Fails("ECONNRESET") /\ closed
<1>1. interrupts \in Nat /\ MaxInterrupts \in Nat
  BY ScriptAssumption DEF IInv, TypeOK
<1>2. CASE r \in Interrupted
  <2>1. PICK i \in interrupts + 1 .. MaxInterrupts : r = Fails("EINTR")
    BY <1>2 DEF Interrupted
  <2>. QED BY <1>1, <2>1
<1>3. CASE r \in Reset BY <1>3 DEF Reset
<1>4. CASE r \notin Interrupted /\ r \notin Reset BY <1>4 DEF SendResults
<1>. QED BY <1>2, <1>3, <1>4

(* What RECV can return while readBytes has something left to read.        *)
LEMMA RecvResult ==
  ASSUME IInv, NEW r \in RecvResults
  PROVE  \/ \E n \in 1 .. ByteCount - offset :
               consumed + n <= limit /\ r = Succeeds(n)
         \/ r = Succeeds(0) /\ closed
         \/ r = Fails("EINTR") /\ interrupts < MaxInterrupts
         \/ r = Fails("ECONNRESET") /\ closed
<1>1. interrupts \in Nat /\ MaxInterrupts \in Nat
  BY ScriptAssumption DEF IInv, TypeOK
<1>2. CASE r \in Interrupted
  <2>1. PICK i \in interrupts + 1 .. MaxInterrupts : r = Fails("EINTR")
    BY <1>2 DEF Interrupted
  <2>. QED BY <1>1, <2>1
<1>3. CASE r \in Reset BY <1>3 DEF Reset
<1>4. CASE r \notin Interrupted /\ r \notin Reset BY <1>4 DEF RecvResults
<1>. QED BY <1>2, <1>3, <1>4

(* What the results say, and what they do to the count of signals.         *)
LEMMA Results ==
  ASSUME IInv
  PROVE  /\ \A n \in Nat :
              /\ Succeeds(n).n = n /\ Succeeds(n).errno = errno
              /\ Counted(Succeeds(n)) => interrupts' = interrupts
         /\ \A err : Fails(err).n = -1 /\ Fails(err).errno = err
         /\ Counted(Fails("EINTR")) => interrupts' = interrupts + 1
         /\ Counted(Fails("ECONNRESET")) => interrupts' = interrupts
         /\ interrupts \in 0 .. MaxInterrupts /\ MaxInterrupts \in Nat
<1>1. interrupts \in 0 .. MaxInterrupts /\ MaxInterrupts \in Nat
  BY ScriptAssumption DEF IInv, TypeOK
<1>2. ASSUME NEW n \in Nat
      PROVE  /\ Succeeds(n).n = n /\ Succeeds(n).errno = errno
             /\ Counted(Succeeds(n)) => interrupts' = interrupts
  <2>1. Succeeds(n).n = n /\ Succeeds(n).errno = errno BY DEF Succeeds
  <2>2. Fails("EINTR").n = -1 BY DEF Fails
  <2>3. Succeeds(n) # Fails("EINTR") BY <2>1, <2>2
  <2>. QED BY <1>1, <2>1, <2>3 DEF Counted
<1>3. ASSUME NEW err PROVE Fails(err).n = -1 /\ Fails(err).errno = err
  BY DEF Fails
<1>4. Fails("ECONNRESET") # Fails("EINTR") BY <1>3
<1>. QED BY <1>1, <1>2, <1>3, <1>4 DEF Counted

(* A call that returns leads to the next one or to the end of the script.  *)
LEMMA NextCall ==
  ASSUME IInv, pc # "done", NEW x, CallReturns(x)
  PROVE  /\ call' = call + 1 /\ call' \in 1 .. Len(Script) + 1
         /\ pc' \in {"call", "done"}
         /\ pc' = "done" <=> call' = Len(Script) + 1
         /\ got' = got \o x /\ exit_code' = exit_code
<1>1. call \in 1 .. Len(Script) BY CurrentFields DEF IInv
<1>. QED BY <1>1, Lengths DEF CallReturns

(* What SEND takes of the vector, added to what has been sent of it.       *)
LEMMA Taken ==
  ASSUME IInv, pc = "send", NEW n \in 0 .. ByteCount - offset
  PROVE  /\ SubSeq(Current.bytes, offset + 1, offset + n) \in Seq(Nat)
         /\ SubSeq(Current.bytes, 1, offset)
              \o SubSeq(Current.bytes, offset + 1, offset + n)
               = SubSeq(Current.bytes, 1, offset + n)
         /\ SubSeq(Current.bytes, 1, offset) \in Seq(Nat)
<1>. DEFINE b == Current.bytes
<1>1. /\ b \in Seq(Nat) /\ ByteCount = Len(b) /\ offset \in Nat
      /\ offset < ByteCount
  BY CurrentFields DEF IInv, Looping, TypeOK
<1>. HIDE DEF b
<1>2. /\ offset + n \in 0 .. Len(b) /\ offset \in 0 .. Len(b)
      /\ Len(b) \in Nat
      /\ \A i \in offset + 1 .. offset + n : b[i] \in Nat
      /\ \A i \in 1 .. offset : b[i] \in Nat
  BY <1>1
<1>3. SubSeq(b, offset + 1, offset + n) \in Seq(Nat)
      /\ SubSeq(b, 1, offset) \in Seq(Nat)
  BY <1>1, <1>2, SubSeqProperties
<1>4. SubSeq(b, 1, offset) \o SubSeq(b, offset + 1, offset + n)
        = SubSeq(b, 1, offset + n)
  <2>1. /\ 1 \in 1 .. Len(b) + 1 /\ offset \in 1 - 1 .. Len(b)
        /\ offset + n \in offset .. Len(b)
    BY <1>1, <1>2
  <2>. QED BY <1>1, <2>1, ConcatAdjacentSubSeq
<1>. QED BY <1>3, <1>4 DEF b
---------------------------------------------------------------------------
(* Writing *)

(* The script begins with nothing transferred.                             *)
LEMMA InitInv == Init => IInv
<1>. SUFFICES ASSUME Init PROVE IInv OBVIOUS
<1>1. TypeOK
  <2>1. /\ 1 \in 1 .. Len(Script) + 1 /\ 1 # Len(Script) + 1
        /\ 0 \in 0 .. Len(Incoming) /\ Len(Incoming) \in 0 .. Len(Incoming)
        /\ 0 \in 0 .. MaxInterrupts
    BY Lengths, ScriptAssumption
  <2>2. << >> \in Seq(Nat \union {Garbage}) /\ << >> \in Seq(Nat) OBVIOUS
  <2>3. /\ bytes = << >> /\ m_pBuffer = << >> /\ got = << >> /\ sent = << >>
        /\ call = 1 /\ pc = "call" /\ offset = 0 /\ errno = "SUCCESS"
        /\ m_nBytesReceived = 0 /\ consumed = 0 /\ limit = Len(Incoming)
        /\ closed = FALSE /\ interrupts = 0 /\ exit_code = 0
        /\ corrupted = FALSE
    BY DEF Init
  <2>4. /\ bytes \in Seq(Nat \union {Garbage})
        /\ m_pBuffer \in Seq(Nat \union {Garbage})
        /\ got \in Seq(Nat \union {Garbage}) /\ sent \in Seq(Nat)
    BY <2>2, <2>3
  <2>5. /\ call \in 1 .. Len(Script) + 1
        /\ pc = "done" <=> call = Len(Script) + 1
        /\ consumed \in 0 .. limit /\ limit \in 0 .. Len(Incoming)
        /\ interrupts \in 0 .. MaxInterrupts
    BY <2>1, <2>3
  <2>6. /\ pc \in {"call", "send", "recv", "done", "exited"} /\ pc # "recv"
        /\ errno \in {"SUCCESS", "EINTR", "ECONNRESET"}
        /\ closed \in BOOLEAN
    BY <2>3
  <2>7. /\ offset \in Nat /\ m_nBytesReceived \in Nat \union {-1}
        /\ exit_code \in {0, 10012, 10013, Killed}
    BY <2>3
  <2>8. corrupted \in BOOLEAN BY <2>3, Zenon
  <2>. QED BY <2>4, <2>5, <2>6, <2>7, <2>8 DEF TypeOK
<1>2. SentOnceInOrder
  <2>1. Written[0] \o << >> = << >> BY WrittenNext
  <2>. QED BY <2>1 DEF Init, SentOnceInOrder
<1>. QED
  BY <1>1, <1>2
     DEF Init, IInv, Looping, ErrnoTruthful, Received, Damage,
         ExitsOnlyIfClosed

(* Concatenation of bytes is associative.                                  *)
LEMMA BytesAssociative ==
  \A w, t, u \in Seq(Nat) : (w \o t) \o u = w \o (t \o u)
OBVIOUS

(* What has been sent before the current call and what of it, once there   *)
(* is nothing in between.                                                  *)
LEMMA NothingPartial ==
  ASSUME IInv, interrupts = 0, pc = "call"
  PROVE  sent = Written[call - 1]
<1>1. call - 1 \in 0 .. Len(Script)
  BY CurrentFields, Lengths DEF IInv
<1>2. Written[call - 1] \o << >> = Written[call - 1]
  BY <1>1, WrittenType, ConcatEmptySeq
<1>. QED BY <1>2 DEF IInv, SentOnceInOrder

(* Send goes round its loop only once a signal has come.                   *)
LEMMA SendAgainInv == ASSUME IInv, SendAgain PROVE IInv'
<1>. USE DEF IInv
<1>1. PICK r \in SendResults :
        IsInterrupted(r) /\ errno' = r.errno /\ Accepted(r) /\ Counted(r)
  BY DEF SendAgain
<1>2. /\ pc = "send" /\ pc' = pc /\ call' = call /\ offset' = offset
      /\ bytes' = bytes /\ m_nBytesReceived' = m_nBytesReceived
      /\ m_pBuffer' = m_pBuffer /\ got' = got /\ exit_code' = exit_code
      /\ consumed' = consumed /\ limit' = limit /\ closed' = closed
      /\ corrupted' = corrupted
  BY DEF SendAgain
<1>3. r.errno = "EINTR" BY <1>1 DEF IsInterrupted
<1>4. interrupts' \in 1 .. MaxInterrupts /\ r.n \in -1 .. ByteCount - offset
  <2>0. ByteCount \in Nat /\ offset \in Nat /\ offset < ByteCount
    BY <1>2, CurrentFields DEF Looping, TypeOK
  <2>1. CASE \E n \in 1 .. ByteCount - offset : r = Succeeds(n)
    <3>1. PICK n \in 1 .. ByteCount - offset : r = Succeeds(n) BY <2>1
    <3>2. n \in Nat BY <2>0
    <3>. QED BY <1>1, <1>3, <2>0, <3>1, <3>2, Results DEF ErrnoTruthful
  <2>2. CASE r = Fails("EINTR") /\ interrupts < MaxInterrupts
    BY <1>1, <2>0, <2>2, Results
  <2>3. CASE r = Fails("ECONNRESET")
    BY <1>3, <2>3, Results
  <2>. QED BY <2>1, <2>2, <2>3, SendResult
<1>5. sent' \in Seq(Nat)
  <2>1. Positive(r.n) \in 0 .. ByteCount - offset
    <3>1. ByteCount \in Nat /\ offset \in Nat /\ offset < ByteCount
      BY <1>2, CurrentFields DEF Looping, TypeOK
    <3>. QED BY <1>4, <3>1 DEF Positive
  <2>2. SubSeq(Current.bytes, offset + 1, offset + Positive(r.n)) \in Seq(Nat)
    BY <1>2, <2>1, Taken
  <2>. QED BY <1>1, <2>2 DEF Accepted, TypeOK
<1>6. TypeOK' BY <1>1, <1>2, <1>3, <1>4, <1>5, Results DEF TypeOK
<1>. QED
  BY <1>1, <1>2, <1>3, <1>4, <1>6
     DEF Looping, ErrnoTruthful, Received, Damage, SentOnceInOrder,
         ExitsOnlyIfClosed, Current, ByteCount

(* Send hands on to the kernel what comes next, and the call returns when  *)
(* that was the last of it.                                                *)
LEMMA SendInv == ASSUME IInv, Send PROVE IInv'
<1>. USE DEF IInv
<1>1. PICK r \in SendResults :
        /\ ~IsInterrupted(r)
        /\ errno' = r.errno /\ Accepted(r) /\ Counted(r)
        /\ IF r.n > 0
           THEN /\ Advance(r.n)
                /\ IF offset' < ByteCount
                   THEN UNCHANGED <<call, pc, got, exit_code>>
                   ELSE CallReturns(<< >>)
           ELSE Exit(10013) /\ UNCHANGED offset
  BY DEF Send
<1>2. /\ pc = "send"
      /\ bytes' = bytes /\ m_nBytesReceived' = m_nBytesReceived
      /\ m_pBuffer' = m_pBuffer
      /\ consumed' = consumed /\ limit' = limit /\ closed' = closed
      /\ corrupted' = corrupted
  BY DEF Send
<1>. DEFINE b == Current.bytes
<1>3. /\ ByteCount \in Nat /\ offset \in Nat /\ offset < ByteCount
      /\ Current.op = "write" /\ b \in Seq(Nat) /\ ByteCount = Len(b)
      /\ call \in 1 .. Len(Script) /\ call - 1 \in 0 .. Len(Script)
  BY <1>2, CurrentFields, Lengths DEF Looping, TypeOK
<1>4. sent \in Seq(Nat) /\ Written[call - 1] \in Seq(Nat)
  BY <1>3, WrittenType DEF TypeOK
<1>5. interrupts = 0 => sent = Written[call - 1] \o SubSeq(b, 1, offset)
  BY <1>2, <1>3 DEF SentOnceInOrder
<1>6. CASE \E n \in 1 .. ByteCount - offset : r = Succeeds(n)
  <2>1. PICK n \in 1 .. ByteCount - offset : r = Succeeds(n) BY <1>6
  <2>2. n \in Nat /\ n > 0 /\ n \in 0 .. ByteCount - offset BY <1>3
  <2>3. /\ offset' = offset + n /\ errno' = errno /\ interrupts' = interrupts
        /\ sent' = sent \o SubSeq(b, offset + 1, offset + n)
        /\ IF offset + n < ByteCount
           THEN UNCHANGED <<call, pc, got, exit_code>>
           ELSE CallReturns(<< >>)
    <3>1. r.n = n /\ r.errno = errno BY <2>1, <2>2, Results
    <3>2. Positive(n) = n BY <2>2 DEF Positive
    <3>. QED BY <1>1, <2>1, <2>2, <3>1, <3>2, Results DEF Accepted, Advance
  <2>4. sent' \in Seq(Nat)
    <3>1. SubSeq(b, offset + 1, offset + n) \in Seq(Nat)
      BY <1>2, <2>2, Taken
    <3>. HIDE DEF b
    <3>. QED BY <1>4, <2>3, <3>1
  <2>5. interrupts' = 0 => sent' = Written[call - 1] \o SubSeq(b, 1, offset + n)
    <3>1. SUFFICES ASSUME interrupts' = 0
                   PROVE  sent' = Written[call - 1] \o SubSeq(b, 1, offset + n)
      OBVIOUS
    <3>. DEFINE w == Written[call - 1]
                t == SubSeq(b, 1, offset)
                u == SubSeq(b, offset + 1, offset + n)
    <3>2. /\ w \in Seq(Nat) /\ t \in Seq(Nat) /\ u \in Seq(Nat)
          /\ t \o u = SubSeq(b, 1, offset + n)
          /\ sent' = (w \o t) \o u
      BY <1>2, <1>4, <1>5, <2>2, <2>3, <3>1, Taken
    <3>. HIDE DEF w, t, u
    <3>3. (w \o t) \o u = w \o (t \o u) BY <3>2, BytesAssociative
    <3>. QED BY <3>2, <3>3 DEF w
  <2>6. CASE offset + n < ByteCount
    <3>1. /\ pc' = pc /\ call' = call /\ got' = got /\ exit_code' = exit_code
      BY <2>3, <2>6
    <3>2. Current' = Current /\ ByteCount' = ByteCount
      BY <3>1 DEF Current, ByteCount
    <3>3. TypeOK' BY <1>2, <1>3, <2>2, <2>3, <2>4, <3>1 DEF TypeOK
    <3>4. SentOnceInOrder' BY <1>2, <1>3, <2>3, <2>5, <3>1, <3>2 DEF SentOnceInOrder
    <3>. QED
      BY <1>2, <1>3, <2>3, <2>6, <3>1, <3>2, <3>3, <3>4
         DEF Looping, ErrnoTruthful, Received, Damage, ExitsOnlyIfClosed
  <2>7. CASE ~(offset + n < ByteCount)
    <3>1. CallReturns(<< >>) BY <2>3, <2>7
    <3>0. offset + n = Len(b)
      <4>. HIDE DEF b
      <4>. QED BY <1>3, <2>2, <2>7
    <3>2. /\ call' = call + 1 /\ call' \in 1 .. Len(Script) + 1
          /\ pc' \in {"call", "done"}
          /\ pc' = "done" <=> call' = Len(Script) + 1
          /\ got' = got \o << >> /\ exit_code' = exit_code
      BY <1>2, <3>1, NextCall
    <3>3. got' = got BY <3>2, ConcatEmptySeq DEF TypeOK
    <3>4. TypeOK'
      <4>1. offset' \in Nat /\ pc' # "recv" BY <1>3, <2>2, <2>3, <3>2
      <4>. QED
        BY <1>2, <2>3, <2>4, <3>2, <3>3, <4>1 DEF TypeOK
    <3>5. SentOnceInOrder'
      <4>1. SubSeq(b, 1, Len(b)) = b BY <1>3, SubSeqFull
      <4>2. Written[call] = Written[call - 1] \o b
        BY <1>3, WrittenNext DEF WrittenBy, Current
      <4>3. call' - 1 = call /\ call \in 0 .. Len(Script) BY <1>3, <3>2
      <4>4. Written[call] \o << >> = Written[call]
        BY <4>3, WrittenType, ConcatEmptySeq
      <4>5. interrupts' = 0 => sent' = Written[call' - 1] \o << >>
        BY <2>5, <3>0, <4>1, <4>2, <4>3, <4>4
      <4>. QED BY <3>2, <4>5 DEF SentOnceInOrder
    <3>. QED
      BY <1>2, <2>3, <3>2, <3>3, <3>4, <3>5
         DEF Looping, ErrnoTruthful, Received, Damage, ExitsOnlyIfClosed
  <2>. QED BY <2>6, <2>7
<1>7. CASE r = Fails("ECONNRESET") /\ closed
  <2>1. r.n = -1 /\ r.errno = "ECONNRESET" BY <1>7, Results
  <2>2. /\ pc' = "exited" /\ exit_code' = 10013 /\ call' = call /\ got' = got
        /\ offset' = offset /\ errno' = "ECONNRESET"
        /\ interrupts' = interrupts
    BY <1>1, <1>7, <2>1, Results DEF Exit
  <2>3. sent' = sent
    <3>1. SubSeq(b, offset + 1, offset + 0) = << >> BY <1>3, SubSeqEmpty
    <3>2. Positive(r.n) = 0 BY <2>1 DEF Positive
    <3>3. sent' = sent \o << >>
      <4>1. Accepted(r) BY <1>1
      <4>. QED BY <3>1, <3>2, <4>1 DEF Accepted
    <3>. QED BY <1>4, <3>3, ConcatEmptySeq
  <2>4. Current' = Current BY <2>2 DEF Current
  <2>5. TypeOK' BY <1>2, <1>3, <2>2, <2>3 DEF TypeOK
  <2>6. SentOnceInOrder'
    <3>1. interrupts' = 0 => sent' = Written[call' - 1] \o SubSeq(b, 1, offset')
      <4>1. call' = call /\ offset' = offset /\ interrupts' = interrupts
        BY <2>2
      <4>. HIDE DEF b
      <4>. QED BY <1>5, <2>3, <4>1
    <3>2. pc' = "exited" /\ Current'.op = "write" /\ Current'.bytes = b
      BY <1>3, <2>2, <2>4
    <3>3. pc' \in {"send", "exited"} BY <3>2
    <3>. HIDE DEF b
    <3>. QED BY <3>1, <3>2, <3>3, Zenon DEF SentOnceInOrder
  <2>. QED
    BY <1>2, <1>7, <2>2, <2>5, <2>6
       DEF Looping, ErrnoTruthful, Received, Damage, ExitsOnlyIfClosed
<1>8. CASE r = Fails("EINTR") BY <1>1, <1>8, Results DEF IsInterrupted
<1>. QED BY <1>6, <1>7, <1>8, SendResult

(* SIGPIPE ends the process in a send to a peer that has gone.             *)
LEMMA BrokenPipeInv == ASSUME IInv, BrokenPipe PROVE IInv'
<1>. USE DEF IInv
<1>1. /\ pc = "send" /\ closed /\ pc' = "exited" /\ exit_code' = Killed
      /\ call' = call /\ got' = got /\ offset' = offset /\ bytes' = bytes
      /\ errno' = errno /\ m_nBytesReceived' = m_nBytesReceived
      /\ m_pBuffer' = m_pBuffer /\ sent' = sent /\ consumed' = consumed
      /\ limit' = limit /\ closed' = closed /\ interrupts' = interrupts
      /\ corrupted' = corrupted
  BY DEF BrokenPipe, Exit, kernel
<1>2. call # Len(Script) + 1 BY <1>1 DEF TypeOK
<1>3. Current' = Current BY <1>1 DEF Current
<1>4. TypeOK' BY <1>1, <1>2 DEF TypeOK
<1>. QED
  BY <1>1, <1>3, <1>4
     DEF Looping, ErrnoTruthful, Received, Damage, SentOnceInOrder,
         ExitsOnlyIfClosed

(* The peer's going away changes nothing of what has been transferred.     *)
LEMMA PeerClosesInv == ASSUME IInv, PeerCloses PROVE IInv'
<1>. USE DEF IInv
<1>1. /\ pc \notin {"done", "exited"} /\ closed' = TRUE
      /\ limit' \in consumed .. Len(Incoming)
      /\ pc' = pc /\ exit_code' = exit_code
      /\ call' = call /\ got' = got /\ offset' = offset /\ bytes' = bytes
      /\ errno' = errno /\ m_nBytesReceived' = m_nBytesReceived
      /\ m_pBuffer' = m_pBuffer /\ sent' = sent /\ consumed' = consumed
      /\ interrupts' = interrupts /\ corrupted' = corrupted
  BY DEF PeerCloses, program
<1>2. Current' = Current /\ ByteCount' = ByteCount
  BY <1>1 DEF Current, ByteCount
<1>3. consumed' \in 0 .. limit' /\ limit' \in 0 .. Len(Incoming)
  BY <1>1, Lengths DEF TypeOK
<1>4. TypeOK' BY <1>1, <1>2, <1>3 DEF TypeOK
<1>. QED
  BY <1>1, <1>2, <1>4
     DEF Looping, ErrnoTruthful, Received, Damage, SentOnceInOrder,
         ExitsOnlyIfClosed
---------------------------------------------------------------------------
(* Reading *)

(* A sequence given by its elements.                                       *)
LEMMA BuiltSeq ==
  ASSUME NEW n \in Nat, NEW T, NEW f \in [1 .. n -> T]
  PROVE  f \in Seq(T) /\ Len(f) = n /\ DOMAIN f = 1 .. n
OBVIOUS

(* What the reads have returned, once another one has.                     *)
LEMMA ReadReturned ==
  ASSUME TypeOK, bytes' \in Seq(Bytes), got' = got \o bytes'
  PROVE  /\ got' \in Seq(Bytes) /\ Len(got') = Len(got) + Len(bytes')
         /\ \A i \in 1 .. Len(got) : got'[i] = got[i]
         /\ \A i \in 1 .. Len(bytes') : got'[Len(got) + i] = bytes'[i]
         /\ Len(got) \in Nat
<1>1. got \in Seq(Bytes) BY DEF TypeOK, Bytes
<1>. QED BY <1>1

(* A vector of uninitialized bytes.                                        *)
LEMMA Fresh ==
  ASSUME NEW n \in Nat
  PROVE  /\ [i \in 1 .. n |-> Garbage] \in Seq(Bytes)
         /\ Len([i \in 1 .. n |-> Garbage]) = n
<1>1. [i \in 1 .. n |-> Garbage] \in [1 .. n -> Bytes] BY DEF Bytes
<1>. QED BY <1>1, BuiltSeq

(* Receive's buffer is as large as what it is asked for.                   *)
LEMMA BufferType ==
  ASSUME IInv, NEW n \in Nat
  PROVE  Buffer(n) \in Seq(Bytes) /\ Len(Buffer(n)) = n
BY Fresh DEF Buffer, IInv, TypeOK, Bytes

(* RECV fills the buffer and leaves its size alone.                        *)
LEMMA FilledType ==
  ASSUME IInv, NEW r, consumed + Positive(r.n) <= limit, Positive(r.n) \in Nat
  PROVE  /\ Filled(r) \in Seq(Bytes) /\ Len(Filled(r)) = Len(m_pBuffer)
         /\ m_nBytesReceived = 0 =>
              \A i \in 1 .. Len(m_pBuffer) : i <= Positive(r.n) =>
                 Filled(r)[i] = Incoming[consumed + i]
<1>. DEFINE len == Len(m_pBuffer)
            p == Positive(r.n)
<1>1. /\ len \in Nat /\ DOMAIN m_pBuffer = 1 .. len
      /\ \A i \in 1 .. len : m_pBuffer[i] \in Bytes
      /\ consumed \in Nat /\ limit \in 0 .. Len(Incoming)
      /\ m_nBytesReceived \in Int
  <2>1. m_pBuffer \in Seq(Bytes) BY DEF IInv, TypeOK, Bytes
  <2>2. m_nBytesReceived \in Nat \union {-1} /\ limit \in 0 .. Len(Incoming)
        /\ consumed \in 0 .. limit
    BY DEF IInv, TypeOK
  <2>. QED BY <2>1, <2>2
<1>2. \A k \in 1 .. p : Incoming[consumed + k] \in Bytes
  <2>1. \A k \in 1 .. p : consumed + k \in 1 .. Len(Incoming)
    BY <1>1, Lengths
  <2>. QED BY <2>1, Lengths DEF Bytes
<1>3. Filled(r) = [ i \in 1 .. len |->
                      IF i - m_nBytesReceived \in 1 .. p
                      THEN Incoming[consumed + (i - m_nBytesReceived)]
                      ELSE m_pBuffer[i] ]
  BY <1>1 DEF Filled
<1>. HIDE DEF len, p
<1>4. Filled(r) \in [1 .. len -> Bytes] BY <1>1, <1>2, <1>3
<1>5. m_nBytesReceived = 0 =>
        \A i \in 1 .. len : i <= p => Filled(r)[i] = Incoming[consumed + i]
  <2>1. ASSUME m_nBytesReceived = 0, NEW i \in 1 .. len, i <= p
        PROVE  Filled(r)[i] = Incoming[consumed + i]
    <3>1. i - 0 = i /\ i \in 1 .. p BY <1>1, <2>1 DEF p
    <3>. QED BY <1>3, <2>1, <3>1
  <2>. QED BY <2>1
<1>. QED BY <1>1, <1>4, <1>5, BuiltSeq DEF len, p

(* readBytes copies what came behind what it has.                          *)
LEMMA CopiedType ==
  ASSUME IInv, pc = "recv", NEW buffer \in Seq(Bytes),
         NEW n \in 1 .. ByteCount - offset, n <= Len(buffer)
  PROVE  /\ Copied(buffer, n) \in Seq(Bytes)
         /\ Len(Copied(buffer, n)) = ByteCount
         /\ \A i \in 1 .. offset : Copied(buffer, n)[i] = bytes[i]
         /\ \A i \in 1 .. n : Copied(buffer, n)[offset + i] = buffer[i]
<1>1. /\ bytes \in Seq(Bytes) /\ Len(bytes) = ByteCount /\ ByteCount \in Nat
      /\ offset \in Nat /\ offset < ByteCount
  BY CurrentFields DEF IInv, TypeOK, Looping, Bytes
<1>. DEFINE b == ByteCount
<1>. HIDE DEF b
<1>2. DOMAIN bytes = 1 .. b /\ b \in Nat /\ \A i \in 1 .. b : bytes[i] \in Bytes
  BY <1>1 DEF b
<1>3. Copied(buffer, n) =
        [ i \in 1 .. b |->
            IF i - offset \in 1 .. n THEN buffer[i - offset] ELSE bytes[i] ]
  BY <1>2 DEF Copied
<1>4. \A k \in 1 .. n : buffer[k] \in Bytes BY <1>1
<1>5. n \in Nat /\ offset + n <= b /\ offset \in Nat BY <1>1 DEF b
<1>6. Copied(buffer, n) \in [1 .. b -> Bytes] BY <1>2, <1>3, <1>4
<1>7. ASSUME NEW i \in 1 .. offset
      PROVE  Copied(buffer, n)[i] = bytes[i]
  <2>1. i \in 1 .. b /\ i - offset \notin 1 .. n BY <1>2, <1>5
  <2>. QED BY <1>3, <2>1
<1>8. ASSUME NEW i \in 1 .. n
      PROVE  Copied(buffer, n)[offset + i] = buffer[i]
  <2>1. offset + i \in 1 .. b /\ (offset + i) - offset = i BY <1>1, <1>2, <1>5
  <2>. QED BY <1>3, <2>1
<1>. QED BY <1>2, <1>6, <1>7, <1>8, BuiltSeq DEF b

(* A call starts with nothing transferred, or returns at once.             *)
LEMMA BeginInv == ASSUME IInv, Begin PROVE IInv'
<1>. USE DEF IInv
<1>1. /\ pc = "call" /\ offset' = 0 /\ errno' = errno
      /\ sent' = sent /\ consumed' = consumed /\ limit' = limit
      /\ closed' = closed /\ interrupts' = interrupts
      /\ corrupted' = corrupted
      /\ IF ByteCount = 0
         THEN /\ CallReturns(<< >>)
              /\ UNCHANGED <<bytes, m_nBytesReceived, m_pBuffer>>
         ELSE /\ UNCHANGED <<call, got, exit_code>>
              /\ IF Current.op = "write"
                 THEN /\ pc' = "send"
                      /\ UNCHANGED <<bytes, m_nBytesReceived, m_pBuffer>>
                 ELSE /\ pc' = "recv"
                      /\ bytes' = [i \in 1 .. ByteCount |-> Garbage]
                      /\ m_nBytesReceived' = 0
                      /\ m_pBuffer' = Buffer(ByteCount)
  BY DEF Begin, kernel
<1>2. /\ call \in 1 .. Len(Script) /\ ByteCount \in Nat
      /\ call - 1 \in 0 .. Len(Script) /\ call # Len(Script) + 1
      /\ Current.op \in {"write", "read"}
      /\ Current.op = "write" =>
           Current.bytes \in Seq(Nat) /\ ByteCount = Len(Current.bytes)
  BY <1>1, CurrentFields, Lengths
<1>3. interrupts = 0 => sent = Written[call - 1] BY <1>1, NothingPartial
<1>4. Written[call - 1] \o << >> = Written[call - 1]
  BY <1>2, WrittenType, ConcatEmptySeq
<1>5. CASE ByteCount = 0
  <2>1. CallReturns(<< >>) /\ bytes' = bytes
        /\ m_nBytesReceived' = m_nBytesReceived /\ m_pBuffer' = m_pBuffer
    BY <1>1, <1>5
  <2>2. /\ call' = call + 1 /\ call' \in 1 .. Len(Script) + 1
        /\ pc' \in {"call", "done"}
        /\ pc' = "done" <=> call' = Len(Script) + 1
        /\ got' = got \o << >> /\ exit_code' = exit_code
    BY <1>1, <2>1, NextCall
  <2>3. got' = got BY <2>2, ConcatEmptySeq DEF TypeOK
  <2>4. TypeOK' BY <1>1, <2>1, <2>2, <2>3 DEF TypeOK
  <2>5. WrittenBy(call) = << >>
    <3>1. CASE Current.op = "write"
      <4>1. Current.bytes = << >> BY <1>2, <1>5, <3>1, EmptySeq
      <4>. QED BY <3>1, <4>1 DEF WrittenBy, Current
    <3>2. CASE Current.op = "read" BY <3>2 DEF WrittenBy, Current
    <3>. QED BY <1>2, <3>1, <3>2
  <2>6. Written[call] = Written[call - 1]
    BY <1>2, <1>4, <2>5, WrittenNext
  <2>7. SentOnceInOrder'
    <3>1. call' - 1 = call BY <1>2, <2>2
    <3>2. interrupts' = 0 => sent' = Written[call' - 1] \o << >>
      BY <1>1, <1>3, <1>4, <2>6, <3>1
    <3>. QED BY <2>2, <3>2 DEF SentOnceInOrder
  <2>. QED
    BY <1>1, <2>1, <2>2, <2>3, <2>4, <2>7
       DEF Looping, ErrnoTruthful, Received, Damage, ExitsOnlyIfClosed
<1>6. CASE ByteCount # 0
  <2>1. call' = call /\ got' = got /\ exit_code' = exit_code BY <1>1, <1>6
  <2>2. Current' = Current /\ ByteCount' = ByteCount
    BY <2>1 DEF Current, ByteCount
  <2>3. 0 < ByteCount BY <1>2, <1>6
  <2>4. CASE Current.op = "write"
    <3>1. /\ pc' = "send" /\ bytes' = bytes
          /\ m_nBytesReceived' = m_nBytesReceived /\ m_pBuffer' = m_pBuffer
      BY <1>1, <1>6, <2>4
    <3>2. TypeOK' BY <1>1, <1>2, <2>1, <3>1 DEF TypeOK
    <3>3. SubSeq(Current.bytes, 1, 0) = << >> BY SubSeqEmpty
    <3>4. SentOnceInOrder'
      BY <1>1, <1>3, <1>4, <2>1, <2>2, <2>4, <3>1, <3>3 DEF SentOnceInOrder
    <3>. QED
      BY <1>1, <2>1, <2>2, <2>3, <2>4, <3>1, <3>2, <3>4
         DEF Looping, ErrnoTruthful, Received, Damage, ExitsOnlyIfClosed
  <2>5. CASE Current.op = "read"
    <3>1. /\ pc' = "recv" /\ bytes' = [i \in 1 .. ByteCount |-> Garbage]
          /\ m_nBytesReceived' = 0 /\ m_pBuffer' = Buffer(ByteCount)
      BY <1>1, <1>6, <2>5
    <3>2. /\ bytes' \in Seq(Bytes) /\ Len(bytes') = ByteCount
          /\ m_pBuffer' \in Seq(Bytes) /\ Len(m_pBuffer') = ByteCount
      BY <1>2, <3>1, Fresh, BufferType
    <3>3. ByteCount - 0 = ByteCount BY <1>2
    <3>4. TypeOK'
      BY <1>1, <1>2, <2>1, <2>2, <3>1, <3>2, <3>3 DEF TypeOK, Bytes
    <3>5. SentOnceInOrder'
      BY <1>1, <1>3, <1>4, <2>1, <2>2, <2>5, <3>1 DEF SentOnceInOrder
    <3>6. Received'
      <4>1. interrupts = 0 => /\ consumed = Len(got) + 0
                              /\ \A i \in 1 .. Len(got) : got[i] = Incoming[i]
        BY <1>1 DEF Received
      <4>. QED BY <1>1, <2>1, <3>1, <4>1 DEF Received
    <3>. QED
      BY <1>1, <2>1, <2>2, <2>3, <2>5, <3>1, <3>4, <3>5, <3>6
         DEF Looping, ErrnoTruthful, Damage, ExitsOnlyIfClosed
  <2>. QED BY <1>2, <2>4, <2>5
<1>. QED BY <1>5, <1>6

(* Receive goes round its loop only once a signal has come.                *)
LEMMA ReceiveAgainInv == ASSUME IInv, ReceiveAgain PROVE IInv'
<1>. USE DEF IInv
<1>1. PICK r \in RecvResults :
        /\ IsInterrupted(r)
        /\ errno' = r.errno /\ Delivered(r) /\ Counted(r)
        /\ m_pBuffer' = Filled(r) /\ Overrun(r)
        /\ m_nBytesReceived' = r.n
  BY DEF ReceiveAgain
<1>2. /\ pc = "recv" /\ pc' = pc /\ call' = call /\ offset' = offset
      /\ bytes' = bytes /\ got' = got /\ exit_code' = exit_code
      /\ sent' = sent /\ limit' = limit /\ closed' = closed
  BY DEF ReceiveAgain
<1>3. r.errno = "EINTR" BY <1>1 DEF IsInterrupted
<1>4. /\ ByteCount \in Nat /\ offset \in Nat /\ offset < ByteCount
      /\ consumed \in 0 .. limit /\ limit \in Nat
  BY <1>2, CurrentFields, Lengths DEF Looping, TypeOK
<1>5. /\ interrupts' \in 1 .. MaxInterrupts /\ r.n \in Nat \union {-1}
      /\ Positive(r.n) \in Nat /\ consumed + Positive(r.n) <= limit
  <2>1. CASE \E n \in 1 .. ByteCount - offset :
               consumed + n <= limit /\ r = Succeeds(n)
    <3>1. PICK n \in 1 .. ByteCount - offset :
            consumed + n <= limit /\ r = Succeeds(n)
      BY <2>1
    <3>2. n \in Nat /\ r.n = n /\ Positive(n) = n
      BY <1>4, <3>1, Results DEF Positive
    <3>. QED BY <1>1, <1>3, <1>4, <3>1, <3>2, Results DEF ErrnoTruthful
  <2>2. CASE r = Succeeds(0)
    <3>1. r.n = 0 /\ Positive(0) = 0 BY <2>2, Results DEF Positive
    <3>. QED BY <1>1, <1>3, <1>4, <2>2, <3>1, Results DEF ErrnoTruthful
  <2>3. CASE r = Fails("EINTR") /\ interrupts < MaxInterrupts
    <3>1. r.n = -1 /\ Positive(-1) = 0 BY <2>3, Results DEF Positive
    <3>. QED BY <1>1, <1>4, <2>3, <3>1, Results
  <2>4. CASE r = Fails("ECONNRESET") BY <1>3, <2>4, Results
  <2>. QED BY <2>1, <2>2, <2>3, <2>4, RecvResult
<1>6. Filled(r) \in Seq(Bytes) /\ Len(Filled(r)) = Len(m_pBuffer)
  BY <1>5, FilledType
<1>7. consumed' \in 0 .. limit' BY <1>1, <1>2, <1>4, <1>5 DEF Delivered
<1>8. Current' = Current /\ ByteCount' = ByteCount
  BY <1>2 DEF Current, ByteCount
<1>9. TypeOK'
  <2>1. corrupted' \in BOOLEAN BY <1>1 DEF Overrun, TypeOK
  <2>. QED
    BY <1>1, <1>2, <1>3, <1>5, <1>6, <1>7, <1>8, <2>1 DEF TypeOK, Bytes
<1>. QED
  BY <1>1, <1>2, <1>3, <1>5, <1>8, <1>9
     DEF Looping, ErrnoTruthful, Received, Damage, SentOnceInOrder,
         ExitsOnlyIfClosed

(* A delivery goes where the last one ended, and the call returns when     *)
(* that was the last of it.                                                *)
LEMMA ReceiveInv == ASSUME IInv, Receive PROVE IInv'
<1>. USE DEF IInv
<1>1. PICK r \in RecvResults :
        /\ ~IsInterrupted(r)
        /\ errno' = r.errno /\ Delivered(r) /\ Counted(r) /\ Overrun(r)
        /\ IF r.n > 0
           THEN /\ Advance(r.n)
                /\ bytes' = Copied(Filled(r), r.n)
                /\ IF Enough
                   THEN /\ CallReturns(bytes')
                        /\ m_pBuffer' = Filled(r) /\ m_nBytesReceived' = r.n
                   ELSE /\ UNCHANGED <<call, pc, got, exit_code>>
                        /\ m_pBuffer' = Buffer(ByteCount - offset')
                        /\ m_nBytesReceived' = 0
           ELSE /\ Exit(10012)
                /\ m_pBuffer' = IF r.n = -1 THEN << >> ELSE m_pBuffer
                /\ m_nBytesReceived' = r.n
                /\ UNCHANGED <<offset, bytes>>
  BY DEF Receive
<1>2. pc = "recv" /\ sent' = sent /\ limit' = limit /\ closed' = closed
  BY DEF Receive
<1>3. /\ ByteCount \in Nat /\ offset \in Nat /\ offset < ByteCount
      /\ Current.op = "read" /\ consumed \in 0 .. limit /\ limit \in Nat
      /\ call \in 1 .. Len(Script) /\ call # Len(Script) + 1
      /\ call - 1 \in 0 .. Len(Script)
      /\ Len(m_pBuffer) = ByteCount - offset
      /\ got \in Seq(Bytes)
  BY <1>2, CurrentFields, Lengths DEF Looping, TypeOK, Bytes
<1>4. interrupts = 0 => sent = Written[call - 1] \o << >>
  BY <1>2, <1>3 DEF SentOnceInOrder
<1>5. CASE \E n \in 1 .. ByteCount - offset :
             consumed + n <= limit /\ r = Succeeds(n)
  <2>1. PICK n \in 1 .. ByteCount - offset :
          consumed + n <= limit /\ r = Succeeds(n)
    BY <1>5
  <2>2. /\ n \in Nat /\ n > 0 /\ r.n = n /\ Positive(r.n) = n
        /\ errno' = errno /\ interrupts' = interrupts
        /\ consumed' = consumed + n
    <3>1. n \in Nat /\ n > 0 BY <1>3
    <3>2. r.n = n /\ r.errno = errno BY <2>1, <3>1, Results
    <3>3. Positive(r.n) = n BY <3>1, <3>2 DEF Positive
    <3>. QED BY <1>1, <2>1, <3>1, <3>2, <3>3, Results DEF Delivered
  <2>. DEFINE f == Filled(r)
  <2>3. /\ f \in Seq(Bytes) /\ Len(f) = ByteCount - offset
        /\ m_nBytesReceived = 0 =>
             \A i \in 1 .. Len(f) : i <= n => f[i] = Incoming[consumed + i]
    BY <1>3, <2>1, <2>2, FilledType
  <2>4. /\ offset' = offset + n /\ bytes' = Copied(f, n)
        /\ IF offset + n >= ByteCount
           THEN /\ CallReturns(bytes')
                /\ m_pBuffer' = f /\ m_nBytesReceived' = n
           ELSE /\ UNCHANGED <<call, pc, got, exit_code>>
                /\ m_pBuffer' = Buffer(ByteCount - (offset + n))
                /\ m_nBytesReceived' = 0
    BY <1>1, <2>2 DEF Advance, Enough
  <2>. HIDE DEF f
  <2>5. /\ bytes' \in Seq(Bytes) /\ Len(bytes') = ByteCount
        /\ \A i \in 1 .. offset : bytes'[i] = bytes[i]
        /\ \A i \in 1 .. n : bytes'[offset + i] = f[i]
    <3>1. n <= Len(f) BY <1>3, <2>3
    <3>. QED BY <1>2, <2>3, <2>4, <3>1, CopiedType
  <2>6. interrupts = 0 =>
          /\ consumed' = Len(got) + (offset + n)
          /\ \A i \in 1 .. Len(got) : got[i] = Incoming[i]
          /\ \A i \in 1 .. offset + n : bytes'[i] = Incoming[Len(got) + i]
    <3>1. SUFFICES ASSUME interrupts = 0
                   PROVE  /\ consumed' = Len(got) + (offset + n)
                          /\ \A i \in 1 .. Len(got) : got[i] = Incoming[i]
                          /\ \A i \in 1 .. offset + n :
                               bytes'[i] = Incoming[Len(got) + i]
      OBVIOUS
    <3>2. /\ consumed = Len(got) + offset /\ m_nBytesReceived = 0
          /\ \A i \in 1 .. Len(got) : got[i] = Incoming[i]
          /\ \A i \in 1 .. offset : bytes[i] = Incoming[Len(got) + i]
      BY <1>2, <3>1 DEF Received
    <3>3. Len(got) \in Nat BY <1>3
    <3>4. ASSUME NEW i \in 1 .. offset + n
          PROVE  bytes'[i] = Incoming[Len(got) + i]
      <4>1. CASE i <= offset
        <5>1. i \in 1 .. offset BY <1>3, <4>1
        <5>. QED BY <2>5, <3>2, <5>1
      <4>2. CASE ~(i <= offset)
        <5>. DEFINE k == i - offset
        <5>1. k \in 1 .. n /\ offset + k = i BY <1>3, <2>2, <4>2
        <5>2. k \in 1 .. Len(f) /\ k <= n BY <1>3, <2>1, <2>3, <5>1
        <5>3. consumed + k = Len(got) + i BY <1>3, <3>2, <3>3, <5>1
        <5>. HIDE DEF k
        <5>4. bytes'[i] = f[k] BY <2>5, <5>1
        <5>. QED BY <2>3, <3>2, <5>2, <5>3, <5>4
      <4>. QED BY <4>1, <4>2
    <3>5. consumed' = Len(got) + (offset + n) BY <1>3, <2>2, <3>2, <3>3
    <3>. QED BY <3>2, <3>4, <3>5
  <2>7. consumed' \in 0 .. limit' BY <1>2, <1>3, <2>1, <2>2
  <2>10. ~corrupted' /\ corrupted' \in BOOLEAN /\ errno # "EINTR"
    <3>1. errno # "EINTR" BY <1>1, <2>2 DEF IsInterrupted
    <3>2. ~corrupted /\ m_nBytesReceived = 0
      BY <1>2, <3>1 DEF Damage
    <3>3. DOMAIN m_pBuffer = 1 .. ByteCount - offset
      BY <1>3 DEF TypeOK
    <3>4. \A k \in 1 .. n : m_nBytesReceived + k \in DOMAIN m_pBuffer
      BY <1>3, <2>1, <3>2, <3>3
    <3>5. Overrun(r) /\ Positive(r.n) = n BY <1>1, <2>2
    <3>. QED BY <3>1, <3>2, <3>4, <3>5, Zenon DEF Overrun
  <2>8. CASE offset + n >= ByteCount
    <3>1. /\ CallReturns(bytes') /\ offset + n = ByteCount
          /\ m_pBuffer' = f /\ m_nBytesReceived' = n
      BY <1>3, <2>2, <2>4, <2>8
    <3>2. /\ call' = call + 1 /\ call' \in 1 .. Len(Script) + 1
          /\ pc' \in {"call", "done"}
          /\ pc' = "done" <=> call' = Len(Script) + 1
          /\ got' = got \o bytes' /\ exit_code' = exit_code
      BY <1>2, <3>1, NextCall
    <3>3. /\ got' \in Seq(Bytes) /\ Len(got') = Len(got) + ByteCount
          /\ \A i \in 1 .. Len(got) : got'[i] = got[i]
          /\ \A i \in 1 .. ByteCount : got'[Len(got) + i] = bytes'[i]
          /\ Len(got) \in Nat
      <4>1. got' = got \o bytes' /\ Len(bytes') = ByteCount BY <2>5, <3>2
      <4>. QED BY <2>5, <4>1, ReadReturned
    <3>4. TypeOK'
      <4>1. /\ bytes' \in Seq(Nat \union {Garbage})
            /\ m_pBuffer' \in Seq(Nat \union {Garbage})
            /\ got' \in Seq(Nat \union {Garbage})
        BY <2>3, <2>5, <3>1, <3>3 DEF Bytes
      <4>2. offset' \in Nat /\ m_nBytesReceived' \in Nat /\ limit' = limit
        BY <1>2, <1>3, <2>2, <2>4, <3>1
      <4>3. exit_code' \in {0, 10012, 10013, Killed} /\ closed' \in BOOLEAN
            /\ errno' \in {"SUCCESS", "EINTR", "ECONNRESET"}
            /\ interrupts' \in 0 .. MaxInterrupts /\ sent' \in Seq(Nat)
            /\ limit' \in 0 .. Len(Incoming)
        BY <1>2, <2>2, <3>2 DEF TypeOK
      <4>4. /\ call' \in 1 .. Len(Script) + 1
            /\ pc' \in {"call", "send", "recv", "done", "exited"}
            /\ pc' = "done" <=> call' = Len(Script) + 1
            /\ pc' # "recv"
            /\ m_nBytesReceived' \in Nat \union {-1}
            /\ consumed' \in 0 .. limit'
        BY <2>7, <3>2, <4>2
      <4>. QED BY <2>10, <4>1, <4>2, <4>3, <4>4 DEF TypeOK
    <3>5. SentOnceInOrder'
      <4>1. WrittenBy(call) = << >> BY <1>3 DEF WrittenBy, Current
      <4>2. Written[call - 1] \o << >> = Written[call - 1]
        BY <1>3, WrittenType, ConcatEmptySeq
      <4>3. Written[call] = Written[call - 1]
        BY <1>3, <4>1, <4>2, WrittenNext
      <4>4. call' - 1 = call BY <1>3, <3>2
      <4>5. interrupts' = 0 => sent' = Written[call' - 1] \o << >>
        BY <1>2, <1>4, <2>2, <4>2, <4>3, <4>4
      <4>. QED BY <3>2, <4>5 DEF SentOnceInOrder
    <3>6. Received'
      <4>1. ASSUME interrupts = 0, NEW i \in 1 .. Len(got) + ByteCount
            PROVE  got'[i] = Incoming[i]
        <5>1. CASE i <= Len(got)
          <6>1. i \in 1 .. Len(got) BY <3>3, <5>1
          <6>. QED BY <2>6, <3>3, <4>1, <6>1
        <5>2. CASE ~(i <= Len(got))
          <6>. DEFINE k == i - Len(got)
          <6>1. k \in 1 .. ByteCount /\ Len(got) + k = i BY <1>3, <3>3, <5>2
          <6>. HIDE DEF k
          <6>. QED BY <2>6, <3>1, <3>3, <4>1, <6>1
        <5>. QED BY <5>1, <5>2
      <4>2. interrupts = 0 => consumed' = Len(got') + 0
        <5>1. Len(got') \in Nat BY <3>3
        <5>. QED BY <2>6, <3>1, <3>3, <5>1
      <4>. QED BY <2>2, <3>2, <3>3, <4>1, <4>2 DEF Received
    <3>. QED
      BY <1>2, <2>2, <2>10, <3>2, <3>4, <3>5, <3>6
         DEF Looping, ErrnoTruthful, Damage, ExitsOnlyIfClosed
  <2>9. CASE ~(offset + n >= ByteCount)
    <3>1. /\ call' = call /\ pc' = pc /\ got' = got /\ exit_code' = exit_code
          /\ m_pBuffer' = Buffer(ByteCount - (offset + n))
          /\ m_nBytesReceived' = 0
          /\ ByteCount - (offset + n) \in Nat /\ offset + n < ByteCount
      BY <1>3, <2>2, <2>4, <2>9
    <3>2. /\ m_pBuffer' \in Seq(Bytes)
          /\ Len(m_pBuffer') = ByteCount - (offset + n)
      BY <3>1, BufferType
    <3>3. Current' = Current /\ ByteCount' = ByteCount
      BY <3>1 DEF Current, ByteCount
    <3>4. TypeOK'
      <4>1. /\ bytes' \in Seq(Nat \union {Garbage})
            /\ m_pBuffer' \in Seq(Nat \union {Garbage})
        BY <2>5, <3>2 DEF Bytes
      <4>2. offset' \in Nat /\ Len(m_pBuffer') = ByteCount' - offset'
        BY <1>3, <2>2, <2>4, <3>2, <3>3
      <4>3. Len(bytes') = ByteCount' BY <2>5, <3>3
      <4>4. consumed' \in 0 .. limit' BY <2>7, <4>2
      <4>5. m_nBytesReceived' \in Nat \union {-1} BY <3>1
      <4>6. /\ call' \in 1 .. Len(Script) + 1
            /\ pc' \in {"call", "send", "recv", "done", "exited"}
            /\ pc' = "done" <=> call' = Len(Script) + 1
            /\ errno' \in {"SUCCESS", "EINTR", "ECONNRESET"}
            /\ got' \in Seq(Nat \union {Garbage}) /\ sent' \in Seq(Nat)
            /\ limit' \in 0 .. Len(Incoming) /\ closed' \in BOOLEAN
            /\ interrupts' \in 0 .. MaxInterrupts
            /\ exit_code' \in {0, 10012, 10013, Killed}
        BY <1>2, <2>2, <3>1 DEF TypeOK
      <4>. QED BY <2>10, <4>1, <4>2, <4>3, <4>4, <4>5, <4>6 DEF TypeOK
    <3>5. SentOnceInOrder'
      BY <1>2, <1>3, <1>4, <2>2, <3>1, <3>3 DEF SentOnceInOrder
    <3>6. Received' BY <1>2, <2>2, <2>4, <2>6, <3>1 DEF Received
    <3>. QED
      BY <1>2, <1>3, <2>2, <2>4, <2>10, <3>1, <3>3, <3>4, <3>5, <3>6
         DEF Looping, ErrnoTruthful, Damage, ExitsOnlyIfClosed
  <2>. QED BY <2>8, <2>9
<1>6. CASE closed /\ (r = Succeeds(0) \/ r = Fails("ECONNRESET"))
  <2>1. /\ r.n \in {0, -1} /\ Positive(r.n) = 0 /\ ~(r.n > 0)
        /\ r.errno \in {errno, "ECONNRESET"} /\ interrupts' = interrupts
    BY <1>1, <1>6, Results DEF Positive
  <2>2. /\ pc' = "exited" /\ exit_code' = 10012 /\ call' = call /\ got' = got
        /\ offset' = offset /\ bytes' = bytes /\ m_nBytesReceived' \in {0, -1}
        /\ errno' \in {errno, "ECONNRESET"}
        /\ m_pBuffer' \in {<< >>, m_pBuffer} /\ consumed' = consumed
        /\ corrupted' = corrupted
    <3>1. consumed + 0 = consumed /\ 1 .. 0 = {} BY <1>3
    <3>2. corrupted' = corrupted BY <1>1, <2>1, <3>1 DEF Overrun, TypeOK
    <3>. QED BY <1>1, <2>1, <3>1, <3>2 DEF Exit, Delivered
  <2>3. Current' = Current BY <2>2 DEF Current
  <2>4. m_pBuffer' \in Seq(Nat \union {Garbage})
    <3>1. << >> \in Seq(Nat \union {Garbage}) OBVIOUS
    <3>2. m_pBuffer \in Seq(Nat \union {Garbage}) BY DEF TypeOK
    <3>3. m_pBuffer' = << >> \/ m_pBuffer' = m_pBuffer BY <2>2
    <3>. QED BY <3>1, <3>2, <3>3
  <2>5. TypeOK' BY <1>2, <1>3, <2>1, <2>2, <2>4 DEF TypeOK
  <2>6. SentOnceInOrder'
    <3>1. interrupts' = 0 => sent' = Written[call' - 1] \o << >>
      BY <1>2, <1>4, <2>1, <2>2
    <3>2. pc' = "exited" /\ Current'.op # "write"
      BY <1>3, <2>2, <2>3
    <3>. QED BY <3>1, <3>2 DEF SentOnceInOrder
  <2>. QED
    BY <1>2, <1>3, <1>6, <2>1, <2>2, <2>3, <2>5, <2>6
       DEF Looping, ErrnoTruthful, Received, Damage, ExitsOnlyIfClosed
<1>7. CASE r = Fails("EINTR") BY <1>1, <1>7, Results DEF IsInterrupted
<1>. QED BY <1>5, <1>6, <1>7, RecvResult

(* What damaged memory does, it does inside a read.                        *)
LEMMA HeapDamageInv == ASSUME IInv, HeapDamage PROVE IInv'
<1>. USE DEF IInv
<1>1. /\ corrupted /\ pc \in {"call", "send", "recv"}
      /\ offset' = offset /\ errno' = errno
      /\ m_nBytesReceived' = m_nBytesReceived /\ m_pBuffer' = m_pBuffer
      /\ corrupted' = corrupted /\ sent' = sent /\ consumed' = consumed
      /\ limit' = limit /\ closed' = closed /\ interrupts' = interrupts
      /\ call' = call /\ got' = got
      /\ \/ pc' = "exited" /\ exit_code' = Killed /\ bytes' = bytes
         \/ /\ bytes' = [i \in DOMAIN bytes |-> Garbage]
            /\ pc' = pc /\ exit_code' = exit_code
  BY DEF HeapDamage, Exit, kernel
<1>2. /\ pc = "recv" /\ errno = "EINTR" /\ interrupts > 0
      /\ Current.op = "read" /\ offset < ByteCount
      /\ call # Len(Script) + 1
  BY <1>1 DEF Damage, Looping, TypeOK
<1>3. interrupts # 0 BY <1>2 DEF TypeOK
<1>4. Current' = Current /\ ByteCount' = ByteCount
  BY <1>1 DEF Current, ByteCount
<1>5. bytes' \in Seq(Bytes) /\ Len(bytes') = Len(bytes)
  <2>1. bytes \in Seq(Bytes) BY DEF TypeOK, Bytes
  <2>2. DOMAIN bytes = 1 .. Len(bytes) /\ Len(bytes) \in Nat BY <2>1
  <2>. QED BY <1>1, <2>1, <2>2, Fresh
<1>6. TypeOK' BY <1>1, <1>2, <1>4, <1>5 DEF TypeOK, Bytes
<1>. QED
  BY <1>1, <1>2, <1>3, <1>4, <1>6
     DEF Looping, ErrnoTruthful, Received, Damage, SentOnceInOrder,
         ExitsOnlyIfClosed
---------------------------------------------------------------------------
(* The invariants *)

(* Every step preserves the inductive invariant.                           *)
LEMMA NextInv == IInv /\ [Next]_vars => IInv'
<1>. SUFFICES ASSUME IInv, [Next]_vars PROVE IInv' OBVIOUS
<1>1. CASE UNCHANGED vars
  <2>1. /\ call' = call /\ pc' = pc /\ offset' = offset /\ bytes' = bytes
        /\ errno' = errno /\ m_nBytesReceived' = m_nBytesReceived
        /\ m_pBuffer' = m_pBuffer /\ got' = got /\ exit_code' = exit_code
        /\ sent' = sent /\ consumed' = consumed /\ limit' = limit
        /\ closed' = closed /\ interrupts' = interrupts
        /\ corrupted' = corrupted
    BY <1>1 DEF vars, program, kernel
  <2>2. Current' = Current /\ ByteCount' = ByteCount
    BY <2>1 DEF Current, ByteCount
  <2>3. TypeOK' BY <2>1, <2>2 DEF IInv, TypeOK
  <2>. QED
    BY <2>1, <2>2, <2>3
       DEF IInv, Looping, ErrnoTruthful, Received, Damage, SentOnceInOrder,
           ExitsOnlyIfClosed
<1>2. CASE Next
  BY <1>2, BeginInv, SendInv, SendAgainInv, BrokenPipeInv, ReceiveInv,
     ReceiveAgainInv, HeapDamageInv, PeerClosesInv
  DEF Next
<1>. QED BY <1>1, <1>2

(* The inductive invariant holds in every reachable state.                 *)
LEMMA Invariant == Spec => []IInv
BY InitInv, NextInv, PTL DEF Spec

(* What the reads have returned and the current one has copied is, as a    *)
(* sequence, what RECV has delivered.                                      *)
LEMMA ReceivedWhole ==
  ASSUME IInv, interrupts = 0, pc # "exited"
  PROVE  got \o (IF pc = "recv" THEN SubSeq(bytes, 1, offset) ELSE << >>)
           = SubSeq(Incoming, 1, consumed)
<1>. DEFINE part == IF pc = "recv" THEN SubSeq(bytes, 1, offset) ELSE << >>
            length == IF pc = "recv" THEN offset ELSE 0
            stream == SubSeq(Incoming, 1, consumed)
<1>1. /\ got \in Seq(Bytes) /\ bytes \in Seq(Bytes)
      /\ offset \in Nat /\ consumed \in 0 .. Len(Incoming)
      /\ pc = "recv" => offset <= Len(bytes)
  <2>1. got \in Seq(Bytes) /\ bytes \in Seq(Bytes) /\ offset \in Nat
    BY DEF IInv, TypeOK, Bytes
  <2>2. consumed \in 0 .. Len(Incoming)
    BY Lengths DEF IInv, TypeOK
  <2>3. pc = "recv" => offset <= Len(bytes)
    BY <2>1, CurrentFields DEF IInv, TypeOK, Looping
  <2>. QED BY <2>1, <2>2, <2>3
<1>2. /\ consumed = Len(got) + length
      /\ \A i \in 1 .. Len(got) : got[i] = Incoming[i]
      /\ pc = "recv" =>
           \A i \in 1 .. offset : bytes[i] = Incoming[Len(got) + i]
  BY DEF IInv, Received
<1>3. /\ part \in Seq(Bytes) /\ Len(part) = length /\ length \in Nat
      /\ \A i \in 1 .. length : part[i] = Incoming[Len(got) + i]
  <2>1. CASE pc # "recv" BY <2>1
  <2>2. CASE pc = "recv"
    <3>1. \A i \in 1 .. offset : bytes[i] \in Bytes BY <1>1, <2>2
    <3>2. /\ SubSeq(bytes, 1, offset) \in Seq(Bytes)
          /\ Len(SubSeq(bytes, 1, offset)) = offset
          /\ \A i \in 1 .. offset : SubSeq(bytes, 1, offset)[i] = bytes[i]
      BY <1>1, <3>1, SubSeqProperties
    <3>. QED BY <1>1, <1>2, <2>2, <3>2
  <2>. QED BY <2>1, <2>2
<1>4. /\ stream \in Seq(Bytes) /\ Len(stream) = consumed
      /\ \A i \in 1 .. consumed : stream[i] = Incoming[i]
  <2>1. \A i \in 1 .. consumed : Incoming[i] \in Bytes
    BY <1>1, Lengths DEF Bytes
  <2>. QED BY <1>1, <2>1, SubSeqProperties
<1>. HIDE DEF part, length, stream
<1>5. /\ got \o part \in Seq(Bytes) /\ Len(got \o part) = consumed
      /\ \A i \in 1 .. consumed : (got \o part)[i] = stream[i]
  <2>1. /\ got \o part \in Seq(Bytes)
        /\ Len(got \o part) = Len(got) + Len(part)
        /\ \A i \in 1 .. Len(got) + Len(part) :
             (got \o part)[i] =
               IF i <= Len(got) THEN got[i] ELSE part[i - Len(got)]
    BY <1>1, <1>3, ConcatProperties
  <2>2. Len(got) \in Nat BY <1>1
  <2>3. ASSUME NEW i \in 1 .. consumed PROVE (got \o part)[i] = stream[i]
    <3>1. i \in 1 .. Len(got) + Len(part) BY <1>2, <1>3
    <3>2. CASE i <= Len(got)
      <4>1. i \in 1 .. Len(got) BY <2>2, <3>2
      <4>. QED BY <1>2, <1>4, <2>1, <3>1, <3>2, <4>1
    <3>3. CASE ~(i <= Len(got))
      <4>. DEFINE k == i - Len(got)
      <4>1. k \in 1 .. length /\ Len(got) + k = i
        BY <1>2, <1>3, <2>2, <3>3
      <4>2. (got \o part)[i] = part[k] BY <2>1, <3>1, <3>3
      <4>. HIDE DEF k
      <4>. QED BY <1>3, <1>4, <4>1, <4>2
    <3>. QED BY <3>2, <3>3
  <2>. QED BY <1>2, <1>3, <2>1, <2>3
<1>6. got \o part = stream BY <1>4, <1>5, SeqEqual
<1>. QED BY <1>6 DEF part, stream

(* The variables keep their types, and Receive's buffer is as large as     *)
(* what readBytes still asks for.                                          *)
THEOREM TypeCorrect == Spec => []TypeOK
<1>1. IInv => TypeOK BY DEF IInv
<1>. QED BY <1>1, Invariant, PTL

(* While no signal comes, the peer is sent each byte of the calls made so  *)
(* far once and in order, however SEND splits them.                        *)
THEOREM SentOnceAndInOrder == Spec => []SentOnceInOrder
<1>1. IInv => SentOnceInOrder BY DEF IInv
<1>. QED BY <1>1, Invariant, PTL

(* While no signal comes, no byte of the peer's is lost or altered between *)
(* RECV and the vector readBytes returns.                                  *)
THEOREM NothingLost == Spec => []NoneLost
<1>1. IInv => NoneLost BY ReceivedWhole DEF NoneLost
<1>. QED BY <1>1, Invariant, PTL

(* However the kernel splits the transfers and whatever signals come, a    *)
(* writeBytes ends the process only if the peer has closed, and so does a  *)
(* readBytes, unless a signal has made RECV write outside Receive's        *)
(* buffer.                                                                 *)
THEOREM ExitsOnlyIfPeerGone == Spec => []ExitsOnlyIfClosed
<1>1. IInv => ExitsOnlyIfClosed BY DEF IInv
<1>. QED BY <1>1, Invariant, PTL
---------------------------------------------------------------------------
(* The calls are those of BytePipe *)

(* The call returns result: all it was asked to read, nothing if it is a   *)
(* write.                                                                  *)
ReturnsWhole(result) ==
    /\ CallReturns(result)
    /\ Current.op = "write" => result = << >>
    /\ Current.op = "read" =>
          result \in Seq(Bytes) /\ Len(result) = Current.count

(* What a step can be for who watches the calls: nothing, the end of the   *)
(* process inside a call, or the return of one.                            *)
StepKinds ==
    \/ call' = call /\ got' = got /\ (pc' = "exited" <=> pc = "exited")
    \/ /\ pc \notin {"exited", "done"}
       /\ call' = call /\ got' = got /\ pc' = "exited"
    \/ /\ pc \notin {"exited", "done"}
       /\ \E result : ReturnsWhole(result)

(* SEND and RECV only add to the signals that have come.                   *)
LEMMA SignalsAdd ==
  ASSUME IInv, NEW r \in SendResults \union RecvResults, Counted(r)
  PROVE  interrupts' \in {interrupts, interrupts + 1}
<1>1. interrupts \in Nat BY DEF IInv, TypeOK
<1>. QED BY <1>1 DEF Counted

(* Receive returns from its last round with the whole vector.              *)
LEMMA ReceiveKinds ==
  ASSUME IInv, IInv', Receive PROVE StepKinds
<1>1. PICK r \in RecvResults :
        IF r.n > 0
        THEN /\ bytes' = Copied(Filled(r), r.n)
             /\ IF Enough THEN CallReturns(bytes')
                ELSE UNCHANGED <<call, pc, got, exit_code>>
        ELSE Exit(10012)
  BY DEF Receive
<1>2. pc = "recv" /\ Current.op = "read" /\ Len(bytes) = Current.count
      /\ bytes \in Seq(Bytes) /\ bytes' \in Seq(Bytes)
  <2>1. pc = "recv" /\ Current.op = "read"
    BY DEF Receive, IInv, Looping
  <2>2. Len(bytes) = ByteCount /\ bytes \in Seq(Bytes)
    BY <2>1 DEF IInv, TypeOK, Bytes
  <2>3. bytes' \in Seq(Bytes) BY DEF IInv, TypeOK, Bytes
  <2>4. ByteCount = Current.count BY <2>1 DEF ByteCount
  <2>. QED BY <2>1, <2>2, <2>3, <2>4
<1>3. CASE r.n > 0
  <2>1. DOMAIN bytes' = DOMAIN bytes BY <1>1, <1>3 DEF Copied
  <2>2. Len(bytes') = Len(bytes) BY <1>2, <2>1
  <2>3. CASE Enough
    <3>1. ReturnsWhole(bytes')
      BY <1>1, <1>2, <1>3, <2>2, <2>3 DEF ReturnsWhole
    <3>. QED BY <1>2, <3>1 DEF StepKinds
  <2>4. CASE ~Enough BY <1>1, <1>3, <2>4 DEF StepKinds
  <2>. QED BY <2>3, <2>4
<1>4. CASE ~(r.n > 0) BY <1>1, <1>2, <1>4 DEF Exit, StepKinds
<1>. QED BY <1>3, <1>4

(* Send returns from its last round with nothing.                          *)
LEMMA SendKinds ==
  ASSUME IInv, Send PROVE StepKinds
<1>1. PICK r \in SendResults :
        IF r.n > 0
        THEN IF offset' < ByteCount THEN UNCHANGED <<call, pc, got, exit_code>>
             ELSE CallReturns(<< >>)
        ELSE Exit(10013)
  BY DEF Send
<1>2. pc = "send" /\ Current.op = "write" BY DEF Send, IInv, Looping
<1>3. CASE CallReturns(<< >>)
  <2>1. ReturnsWhole(<< >>) BY <1>2, <1>3 DEF ReturnsWhole
  <2>. QED BY <1>2, <2>1 DEF StepKinds
<1>4. CASE UNCHANGED <<call, pc, got, exit_code>> BY <1>4 DEF StepKinds
<1>5. CASE Exit(10013) BY <1>2, <1>5 DEF Exit, StepKinds
<1>. QED BY <1>1, <1>3, <1>4, <1>5

(* A call with nothing to transfer returns at once; others only start.     *)
LEMMA BeginKinds ==
  ASSUME IInv, Begin PROVE StepKinds
<1>1. pc = "call" /\ pc # "done" BY DEF Begin
<1>2. CASE ByteCount = 0
  <2>1. CallReturns(<< >>) BY <1>2 DEF Begin
  <2>2. Current.op = "read" => Current.count = 0
    BY <1>1, <1>2, CurrentFields DEF IInv
  <2>3. << >> \in Seq(Bytes) /\ Len(<< >>) = 0 OBVIOUS
  <2>4. ReturnsWhole(<< >>) BY <2>1, <2>2, <2>3 DEF ReturnsWhole
  <2>. QED BY <1>1, <2>4 DEF StepKinds
<1>3. CASE ByteCount # 0 BY <1>1, <1>3 DEF Begin, StepKinds
<1>. QED BY <1>2, <1>3

(* Every step is of one of the three kinds, and no signal is taken back.   *)
LEMMA EveryStep ==
  ASSUME IInv, IInv', [Next]_vars
  PROVE  StepKinds /\ (interrupts' = 0 => interrupts = 0)
<1>1. interrupts \in Nat BY DEF IInv, TypeOK
<1>2. CASE Begin BY <1>2, BeginKinds DEF Begin, kernel
<1>3. CASE Send
  <2>1. interrupts' \in {interrupts, interrupts + 1}
    BY <1>3, SignalsAdd DEF Send
  <2>. QED BY <1>1, <1>3, <2>1, SendKinds
<1>4. CASE Receive
  <2>1. interrupts' \in {interrupts, interrupts + 1}
    BY <1>4, SignalsAdd DEF Receive
  <2>. QED BY <1>1, <1>4, <2>1, ReceiveKinds
<1>5. CASE SendAgain
  <2>1. interrupts' \in {interrupts, interrupts + 1}
    BY <1>5, SignalsAdd DEF SendAgain
  <2>2. StepKinds BY <1>5 DEF SendAgain, StepKinds
  <2>. QED BY <1>1, <2>1, <2>2
<1>6. CASE ReceiveAgain
  <2>1. interrupts' \in {interrupts, interrupts + 1}
    BY <1>6, SignalsAdd DEF ReceiveAgain
  <2>2. StepKinds BY <1>6 DEF ReceiveAgain, StepKinds
  <2>. QED BY <1>1, <2>1, <2>2
<1>7. CASE BrokenPipe BY <1>7 DEF BrokenPipe, Exit, kernel, StepKinds
<1>8. CASE PeerCloses BY <1>8 DEF PeerCloses, program, StepKinds
<1>10. CASE HeapDamage
  BY <1>10 DEF HeapDamage, Exit, kernel, StepKinds
<1>9. CASE UNCHANGED vars BY <1>9 DEF vars, program, kernel, StepKinds
<1>. QED
  BY <1>2, <1>3, <1>4, <1>5, <1>6, <1>7, <1>8, <1>9, <1>10 DEF Next

(* A call that returns is the next call of the pipe: a read returns the    *)
(* next bytes of the peer's stream.                                        *)
LEMMA ReturnFinishes ==
  ASSUME IInv, IInv', interrupts = 0, interrupts' = 0,
         pc \notin {"exited", "done"}, NEW result, ReturnsWhole(result)
  PROVE  Pipe!Finish
<1>1. /\ call' = call + 1 /\ pc' \in {"call", "done"}
      /\ got' = got \o result
  BY NextCall DEF ReturnsWhole
<1>2. /\ call \in 1 .. Len(Script) /\ Current.op \in {"write", "read"}
      /\ Current.op = "read" => Current.count \in Nat
  BY CurrentFields DEF IInv
<1>3. /\ call - 1 < Len(Script) /\ (call - 1) + 1 = call
      /\ call' - 1 = (call - 1) + 1
  BY <1>1, <1>2, Lengths
<1>4. got \in Seq(Bytes) /\ Len(got) \in Nat /\ Incoming \in Seq(Nat)
  BY ScriptAssumption DEF IInv, TypeOK, Bytes
<1>5. ASSUME Current.op = "read"
      PROVE  /\ Len(got) + Current.count <= Len(Incoming)
             /\ result = SubSeq(Incoming, Len(got) + 1,
                                Len(got) + Current.count)
  <2>1. result \in Seq(Bytes) /\ Len(result) = Current.count
        /\ Current.count \in Nat
    BY <1>2, <1>5 DEF ReturnsWhole
  <2>2. /\ Len(got') = Len(got) + Current.count
        /\ \A i \in 1 .. Current.count : got'[Len(got) + i] = result[i]
    <3>1. /\ Len(got \o result) = Len(got) + Len(result)
          /\ \A i \in 1 .. Len(got) + Len(result) :
               (got \o result)[i] =
                 IF i <= Len(got) THEN got[i] ELSE result[i - Len(got)]
      BY <1>4, <2>1, ConcatProperties
    <3>2. ASSUME NEW i \in 1 .. Current.count
          PROVE  (got \o result)[Len(got) + i] = result[i]
      <4>. DEFINE k == Len(got) + i
      <4>1. k \in 1 .. Len(got) + Len(result) /\ ~(k <= Len(got))
            /\ k - Len(got) = i
        BY <1>4, <2>1
      <4>. HIDE DEF k
      <4>2. (got \o result)[k] = result[i] BY <3>1, <4>1
      <4>. QED BY <4>2 DEF k
    <3>. QED BY <1>1, <2>1, <3>1, <3>2
  <2>3. /\ consumed' = Len(got')
        /\ \A i \in 1 .. Len(got') : got'[i] = Incoming[i]
    <3>1. consumed' = Len(got') + 0 BY <1>1 DEF IInv, Received
    <3>. QED BY <1>1, <1>4, <2>1, <2>2, <3>1 DEF IInv, Received
  <2>4. consumed' <= Len(Incoming) BY Lengths DEF IInv, TypeOK
  <2>5. Len(got) + Current.count <= Len(Incoming) BY <2>2, <2>3, <2>4
  <2>. DEFINE stream == SubSeq(Incoming, Len(got) + 1,
                               Len(got) + Current.count)
  <2>6. /\ stream \in Seq(Bytes) /\ Len(stream) = Current.count
        /\ \A i \in 1 .. Current.count : stream[i] = Incoming[Len(got) + i]
    <3>1. \A i \in Len(got) + 1 .. Len(got) + Current.count :
            Incoming[i] \in Bytes
      BY <1>4, <2>1, <2>5, Lengths DEF Bytes
    <3>2. /\ stream \in Seq(Bytes)
          /\ Len(stream) =
               IF Len(got) + 1 <= Len(got) + Current.count
               THEN Len(got) + Current.count - (Len(got) + 1) + 1 ELSE 0
          /\ \A i \in 1 .. Len(got) + Current.count - (Len(got) + 1) + 1 :
               stream[i] = Incoming[Len(got) + 1 + i - 1]
      BY <1>4, <2>1, <3>1, SubSeqProperties
    <3>. HIDE DEF stream
    <3>3. Len(stream) = Current.count BY <1>4, <2>1, <3>2
    <3>4. ASSUME NEW i \in 1 .. Current.count
          PROVE  stream[i] = Incoming[Len(got) + i]
      <4>1. /\ i \in 1 .. Len(got) + Current.count - (Len(got) + 1) + 1
            /\ Len(got) + 1 + i - 1 = Len(got) + i
        BY <1>4, <2>1
      <4>. QED BY <3>2, <4>1
    <3>. QED BY <3>2, <3>3, <3>4
  <2>. HIDE DEF stream
  <2>7. ASSUME NEW i \in 1 .. Current.count PROVE result[i] = stream[i]
    <3>1. Len(got) + i \in 1 .. Len(got') BY <1>4, <2>1, <2>2
    <3>. QED BY <2>2, <2>3, <2>6, <3>1
  <2>8. result = stream BY <2>1, <2>6, <2>7, SeqEqual
  <2>. QED BY <2>5, <2>8 DEF stream
<1>6. got' = got \o Pipe!Returned(call, Len(got))
  <2>1. CASE Current.op = "read"
    BY <1>1, <1>5, <2>1 DEF Pipe!Returned, Current
  <2>2. CASE Current.op # "read"
    BY <1>1, <1>2, <2>2 DEF Pipe!Returned, Current, ReturnsWhole
  <2>. QED BY <2>1, <2>2
<1>7. Script[call].op = "read" =>
        Len(got) + Script[call].count <= Len(Incoming)
  BY <1>5 DEF Current
<1>8. pc # "exited" /\ pc' # "exited" BY <1>1
<1>. QED
  BY <1>3, <1>6, <1>7, <1>8 DEF Pipe!Finish, Pipe!Pending

(* Every step is a step of the pipe or leaves it as it was.                *)
LEMMA PipeStep ==
  ASSUME IInv, IInv', [Next]_vars
  PROVE  [Pipe!Finish \/ Pipe!Fail \/ Pipe!Interrupted]_(Pipe!vars)
<1>1. interrupts' \in Nat /\ interrupts \in Nat BY DEF IInv, TypeOK
<1>2. CASE interrupts' > 0 BY <1>2 DEF Pipe!Interrupted
<1>3. CASE interrupts' = 0
  <2>1. interrupts = 0 BY <1>3, EveryStep
  <2>2. CASE call' = call /\ got' = got
             /\ (pc' = "exited" <=> pc = "exited")
    BY <1>3, <2>1, <2>2 DEF Pipe!vars
  <2>3. CASE /\ pc \notin {"exited", "done"}
             /\ call' = call /\ got' = got /\ pc' = "exited"
    <3>1. call - 1 < Len(Script)
      BY <2>3, CurrentFields, Lengths DEF IInv
    <3>. QED BY <1>3, <2>1, <2>3, <3>1 DEF Pipe!Fail, Pipe!Pending
  <2>4. CASE /\ pc \notin {"exited", "done"}
             /\ \E result : ReturnsWhole(result)
    BY <1>3, <2>1, <2>4, ReturnFinishes
  <2>. QED BY <2>2, <2>3, <2>4, EveryStep DEF StepKinds
<1>. QED BY <1>1, <1>2, <1>3

(* While no signal comes, the calls of readBytes and writeBytes are those  *)
(* of BytePipe: each is carried out whole, one after the other, or the     *)
(* process ends inside it.                                                 *)
THEOREM ImplementsBytePipe == Spec => IsBytePipe
<1>1. Init => Pipe!Init
  BY DEF Init, Pipe!Init
<1>2. IInv /\ IInv' /\ [Next]_vars =>
        [Pipe!Finish \/ Pipe!Fail \/ Pipe!Interrupted]_(Pipe!vars)
  BY PipeStep
<1>. QED BY <1>1, <1>2, Invariant, PTL DEF Spec, IsBytePipe, Pipe!Spec
===============================================================================
