------------------------------ MODULE MCWireFormat ------------------------------
(***************************************************************************)
(* Bytes of five bits, integers of two of them and longs of four: small    *)
(* enough for every integer, large enough for the source's enumerations.   *)
(***************************************************************************)
EXTENDS WireFormat

Enum(v)    == Field("enum", v)
Boolean(v) == Field("boolean", v)
Int32(v)   == Field("int", v)
Int64(v)   == Field("long", v)
String(s)  == Field("string", s)

(* writeToken, writeProtocolVersion with every integer in place of 2, and  *)
(* writeMove with the actions' and directions' least and greatest values.  *)
MCMessages ==
    { << Enum(2), String(<<7, 31, 0>>) >>, << Enum(2), String(<< >>) >>,
      << Int64(-3), Int64(70000) >> }
      \union { << Enum(4), Int32(v) >> : v \in IntegersOf(Size) }
      \union { << Enum(7), Boolean(TRUE), Enum(a), Enum(d), Int32(x), Int32(y) >> :
                 a \in {-1, 9}, d \in {-1, 3}, x \in {-1, 29}, y \in {-1, 19} }

(* Players with and without a name; the head of a context, the enums of a  *)
(* trooper of unknown and of known type.                                   *)
Player(id, name) == << Boolean(TRUE), Int64(id), name, Int32(-5), Boolean(FALSE) >>

MCReplies ==
    { Player(-1, String(<<1, 2>>)), Player(40000, String(<< >>)),
      Player(3, Field("null", 0)),
      << Enum(6), Boolean(TRUE), Int32(-1), Enum(-1), Enum(2) >> }

(* One message and one answer for the other byte order.                    *)
MCProtocolVersion == {<< Enum(4), Int32(2) >>}

MCPlayers == {Player(40000, String(<<1, 2>>))}
=================================================================================
