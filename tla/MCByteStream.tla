------------------------------ MODULE MCByteStream ------------------------------
(***************************************************************************)
(* Scripts for ByteStream with writes and reads of several bytes, reads    *)
(* that follow each other with the same and with another size (the socket  *)
(* keeps or replaces its buffer) and a read of nothing (an empty string).  *)
(***************************************************************************)
EXTENDS ByteStream

Write(s) == [op |-> "write", bytes |-> s]
Read(n)  == [op |-> "read", count |-> n]

MCScript ==
    << Write(<<1, 2, 3>>), Read(3), Read(3), Read(0), Write(<<4>>), Read(2),
       Write(<<5, 6>>) >>

(* One call that a signal interrupts.                                      *)
WriteOnly == << Write(<<1, 2, 3>>) >>

MCIncoming == <<11, 12, 13, 14, 15, 16, 17, 18>>
=================================================================================
