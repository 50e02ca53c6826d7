------------------------------- MODULE WireFormat -------------------------------
(***************************************************************************)
(* How RemoteProcessClient turns values into bytes and bytes into values:  *)
(* one byte for enums and booleans, the machine's own bytes, brought into  *)
(* little-endian order, for integers, a length and its bytes for strings.  *)
(* A double travels as the long with its bits.                             *)
(*                                                                         *)
(* The client writes the fields of a message one writeBytes call after the *)
(* other; the peer, which is external and little-endian, reads them, and   *)
(* answers with fields, one after the other, that the client reads.        *)
(***************************************************************************)
EXTENDS Integers, Sequences, SequencesExt

CONSTANTS
    Base,           \* values of a byte: 256
    Size,           \* INTEGER_SIZE_BYTES: 4; LONG_SIZE_BYTES is twice that
    MachineOrders,  \* what isLittleEndianMachine() may return
    Messages,       \* sequences of fields the client may have to write
    Replies         \* sequences of fields the peer may answer with

ASSUME WireAssumption ==
    /\ Base \in Nat /\ Base % 2 = 0 /\ Base > 1
    /\ Size \in Nat \ {0}
    /\ MachineOrders \subseteq BOOLEAN

VARIABLES
    little,         \* the machine's byte order
    message, reply, \* what is to be written and answered, chosen at first
    written,        \* fields of message that are written
    to_peer,        \* bytes on their way
    heard,          \* values the peer has read
    replied,        \* fields of reply that the peer has sent
    to_client,
    read,           \* values the client has read
    exit_code

choice    == <<little, message, reply>>
client    == <<written, read, exit_code>>
peer      == <<heard, replied>>
wire_vars == <<choice, client, peer, to_peer, to_client>>

WireInit ==
    /\ little \in MachineOrders
    /\ message \in Messages /\ reply \in Replies
    /\ written = 0 /\ to_peer = << >> /\ heard = << >>
    /\ replied = 0 /\ to_client = << >> /\ read = << >>
    /\ exit_code = 0

LITTLE_ENDIAN_BYTE_ORDER == TRUE
---------------------------------------------------------------------------------
(* Integers of n bytes *)

(* The powers of Base, up to the one a long takes.                         *)
Power[n \in 0 .. 2 * Size] == IF n = 0 THEN 1 ELSE Base * Power[n - 1]

IntegersOf(n) == -(Power[n] \div 2) .. Power[n] \div 2 - 1

(* The bytes of v from the lowest to the highest, and back.                *)
Digits(v, n) == [i \in 1 .. n |-> (v \div Power[i - 1]) % Base]

Signed(u, n) == IF u < Power[n] \div 2 THEN u ELSE u - Power[n]

Sums(b) ==
    LET sum[i \in 0 .. Len(b)] ==
          IF i = 0 THEN 0 ELSE sum[i - 1] + b[i] * Power[i - 1]
    IN  sum

FromDigits(b) == Signed(Sums(b)[Len(b)], Len(b))

(* What memcpy sees of an integer, and makes one of.                       *)
Memory(v, n) == IF little THEN Digits(v, n) ELSE Reverse(Digits(v, n))

FromMemory(b) == IF little THEN FromDigits(b) ELSE FromDigits(Reverse(b))

(* reverse(&bytes[0], &bytes[n - 1]): its second argument points behind    *)
(* the last byte it moves.                                                 *)
Reversed(b) ==
    [i \in DOMAIN b |-> IF i < Len(b) THEN b[Len(b) - i] ELSE b[i]]

Ordered(b) == IF little # LITTLE_ENDIAN_BYTE_ORDER THEN Reversed(b) ELSE b

(* Mutant: the highest byte is cut off.                                    *)
OnWireNarrow(v, n) == Ordered(Memory(v % Power[n - 1], n))

OnWire(v, n) == Ordered(Memory(v, n))

(* Mutant: the bytes are taken for an unsigned number.                     *)
OffWireUnsigned(b) ==
    LET v == FromMemory(Ordered(b)) IN IF v < 0 THEN v + Power[Len(b)] ELSE v

(* Mutant: what is read is not brought into the machine's order.           *)
OffWireRaw(b) == FromMemory(b)

OffWire(b) == FromMemory(Ordered(b))
---------------------------------------------------------------------------------
(* The client writes *)

Field(kind, value) == [kind |-> kind, value |-> value]

Kinds == {"enum", "boolean", "int", "long", "string"}

(* A field holds a value of its C++ type; a string's length is an int.     *)
IsTyped(f) ==
    /\ f.kind = "enum"    => f.value \in IntegersOf(1)
    /\ f.kind = "boolean" => f.value \in BOOLEAN
    /\ f.kind = "int"     => f.value \in IntegersOf(Size)
    /\ f.kind = "long"    => f.value \in IntegersOf(2 * Size)
    /\ f.kind = "string"  => f.value \in Seq(0 .. Base - 1)
                             /\ Len(f.value) \in IntegersOf(Size)

AreFields(fields, kinds) ==
    /\ fields \in Seq(Range(fields))
    /\ \A f \in Range(fields) : f.kind \in kinds /\ IsTyped(f)

ASSUME FieldsAssumption ==
    /\ \A fields \in Messages : AreFields(fields, Kinds)
    /\ \A fields \in Replies : AreFields(fields, Kinds \union {"null"})

WriteBytes(kind, bytes) ==
    /\ written < Len(message) /\ message[written + 1].kind = kind
    /\ written' = written + 1
    /\ to_peer' = to_peer \o bytes
    /\ UNCHANGED <<choice, peer, to_client, read, exit_code>>

Value == message[written + 1].value

WriteEnum    == WriteBytes("enum", << Value % Base >>)
WriteBoolean == WriteBytes("boolean", << IF Value THEN 1 ELSE 0 >>)
WriteInt     == WriteBytes("int", OnWire(Value, Size))
WriteLong    == WriteBytes("long", OnWire(Value, 2 * Size))
WriteString  == WriteBytes("string", OnWire(Len(Value), Size) \o Value)
---------------------------------------------------------------------------------
(* The peer (external) *)

Little(b) == FromDigits(b)

(* Its bytes of a field, and the length of the field at the head of b.     *)
PeerBytes(f) ==
    CASE f.kind = "enum"    -> Digits(f.value, 1)
      [] f.kind = "boolean" -> << IF f.value THEN 1 ELSE 0 >>
      [] f.kind = "int"     -> Digits(f.value, Size)
      [] f.kind = "long"    -> Digits(f.value, 2 * Size)
      [] f.kind = "string"  -> Digits(Len(f.value), Size) \o f.value
      [] f.kind = "null"    -> Digits(-1, Size)

Take(b, kind, n) ==
    CASE kind = "boolean" -> b[1] # 0
      [] kind = "string"  -> SubSeq(b, Size + 1, n)
      [] OTHER            -> Little(SubSeq(b, 1, n))

Width(b, kind) ==
    CASE kind \in {"enum", "boolean"} -> 1
      [] kind = "int"                 -> Size
      [] kind = "long"                -> 2 * Size
      [] kind = "string"              ->
           Size + (Little(SubSeq(b, 1, Size)) % Power[Size])

PeerReads ==
    /\ Len(heard) < written
    /\ LET kind == message[Len(heard) + 1].kind
           n    == Width(to_peer, kind)
       IN  /\ n <= Len(to_peer)
           /\ heard' = Append(heard, Take(to_peer, kind, n))
           /\ to_peer' = SubSeq(to_peer, n + 1, Len(to_peer))
    /\ UNCHANGED <<choice, client, replied, to_client>>

PeerReplies ==
    /\ Len(heard) = Len(message) /\ replied < Len(reply)
    /\ replied' = replied + 1
    /\ to_client' = to_client \o PeerBytes(reply[replied + 1])
    /\ UNCHANGED <<choice, client, heard, to_peer>>
---------------------------------------------------------------------------------
(* The client reads *)

(* The next field is of one of these kinds and n of its bytes are here;    *)
(* readBytes waits otherwise.                                              *)
Awaits(kinds, n) ==
    /\ exit_code = 0
    /\ Len(read) < Len(reply) /\ reply[Len(read) + 1].kind \in kinds
    /\ n <= Len(to_client)

ReadBytes(n, value) ==
    /\ read' = Append(read, value)
    /\ to_client' = SubSeq(to_client, n + 1, Len(to_client))
    /\ UNCHANGED <<choice, peer, written, to_peer, exit_code>>

First(n) == SubSeq(to_client, 1, n)

ReadEnum    == Awaits({"enum"}, 1) /\ ReadBytes(1, Signed(to_client[1], 1))
ReadBoolean == Awaits({"boolean"}, 1) /\ ReadBytes(1, to_client[1] # 0)
ReadInt     == Awaits({"int"}, Size) /\ ReadBytes(Size, OffWire(First(Size)))
ReadLong    ==
    Awaits({"long"}, 2 * Size) /\ ReadBytes(2 * Size, OffWire(First(2 * Size)))

Length == OffWire(First(Size))

(* A length of -1 stands for no string and ends the process; readBytes     *)
(* takes any other for an unsigned number.                                 *)
ReadString ==
    /\ Awaits({"string", "null"}, Size)
    /\ IF Length = -1
       THEN exit_code' = 10014
            /\ UNCHANGED <<choice, peer, written, read, to_peer, to_client>>
       ELSE LET n == Size + (Length % Power[Size])
            IN  /\ n <= Len(to_client)
                /\ ReadBytes(n, SubSeq(to_client, Size + 1, n))

WireNext ==
    \/ WriteEnum \/ WriteBoolean \/ WriteInt \/ WriteLong \/ WriteString
    \/ PeerReads \/ PeerReplies
    \/ ReadEnum \/ ReadBoolean \/ ReadInt \/ ReadLong \/ ReadString

WireSpec == WireInit /\ [][WireNext]_wire_vars
---------------------------------------------------------------------------------
(* Properties *)

Values(fields) == [i \in DOMAIN fields |-> fields[i].value]

(* On a machine of either order the peer hears the values the client       *)
(* writes, in the byte order the constant LITTLE_ENDIAN_BYTE_ORDER names,  *)
(* and nothing is left between two messages.                               *)
PeerHearsClient ==
    /\ IsPrefix(heard, Values(message))
    /\ Len(heard) = Len(message) => to_peer = << >>

(* It does on a little-endian one, where nothing has to be reversed.       *)
PeerHearsLittleEndian == little => PeerHearsClient

(* On a little-endian machine the client reads the values the peer sends,  *)
(* negative numbers included, and stays on the boundaries of fields: with  *)
(* the last one read the stream is used up.                                *)
ClientHearsLittleEndian ==
    little =>
      /\ IsPrefix(read, Values(reply))
      /\ Len(read) = Len(reply) => to_client = << >>

(* On a machine of either order readInt and readLong return what writeInt  *)
(* and writeLong have been given, whatever the order on the wire is: a     *)
(* test of the two directions against each other says nothing about it.    *)
Loopback ==
    \A f \in Range(message) : f.kind \in {"int", "long"} =>
        LET n == IF f.kind = "int" THEN Size ELSE 2 * Size
        IN  OffWire(OnWire(f.value, n)) = f.value
=================================================================================
