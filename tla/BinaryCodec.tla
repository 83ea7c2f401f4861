----------------------------- MODULE BinaryCodec -----------------------------
(***************************************************************************)
(* BinaryWriter and BinaryReader, and their copies in the packet codec and  *)
(* the signaling codec.  A buffer is a sequence of bytes.  The reader is a  *)
(* record: the bytes not yet read, whether everything read so far was valid *)
(* (error_ is None), and the fields read.  Once a read has failed, so does  *)
(* the decoding.  Numbers are below 2^24 and not negative, so the higher    *)
(* bytes of a wide field are zero.                                          *)
(***************************************************************************)
EXTENDS Naturals, SequencesExt

Byte == 0..255

Number == {n \in Nat : n < 256 * 256 * 256}

(* WritePod: the bytes of an integer of the given width, low byte first.    *)
Pod(width, n) ==
    [i \in 1..width |-> CASE i = 1 -> n % 256
                          [] i = 2 -> (n \div 256) % 256
                          [] i = 3 -> ((n \div 256) \div 256) % 256
                          [] OTHER -> 0]

WriteBool(b) == Pod(1, IF b THEN 1 ELSE 0)

(* An enumerator is written as its position in the enumeration.             *)
WriteEnum(enumeration, e) ==
    Pod(1, (CHOOSE i \in DOMAIN enumeration : enumeration[i] = e) - 1)

Concat(parts) ==
    LET joined[i \in 0..Len(parts)] ==
            IF i = 0 THEN <<>> ELSE joined[i - 1] \o parts[i]
    IN  joined[Len(parts)]

ByteAt(bytes, i) == IF i <= Len(bytes) THEN bytes[i] ELSE 0
NumberOf(bytes) ==
    ByteAt(bytes, 1) + 256 * (ByteAt(bytes, 2) + 256 * ByteAt(bytes, 3))

-----------------------------------------------------------------------------
(* The reader *)

Refused == [refused |-> TRUE]
NoFields == <<>>

Reader(bytes) == [rest |-> bytes, ok |-> TRUE, fields |-> NoFields]

(* A field to read: its name, its width, what it is and its enumerators.    *)
PodField(name, width) ==
    [name |-> name, width |-> width, type |-> "pod", values |-> <<>>]
BoolField(name) ==
    [name |-> name, width |-> 1, type |-> "bool", values |-> <<FALSE, TRUE>>]
EnumField(name, enumeration) ==
    [name |-> name, width |-> 1, type |-> "enum", values |-> enumeration]

With(fields, name, value) ==
    [x \in DOMAIN fields \cup {name} |-> IF x = name THEN value ELSE fields[x]]

Having(r, fields) == [rest |-> r.rest, ok |-> r.ok, fields |-> fields]
Put(r, name, value) == Having(r, With(r.fields, name, value))
Fail(r) == [rest |-> r.rest, ok |-> FALSE, fields |-> r.fields]
Drop(r, n) ==
    [rest |-> SubSeq(r.rest, n + 1, Len(r.rest)), ok |-> r.ok, fields |-> r.fields]

(* ReadPod, ReadEnum and ReadBool: too few bytes left, or a number that     *)
(* stands for no value of the field, is an error.                           *)
ReadField(r, f) ==
    IF ~r.ok \/ Len(r.rest) < f.width
    THEN Fail(r)
    ELSE LET n == NumberOf(SubSeq(r.rest, 1, f.width))
         IN  IF f.type = "pod" THEN Put(Drop(r, f.width), f.name, n)
             ELSE IF n >= Len(f.values) THEN Fail(r)
             ELSE Put(Drop(r, f.width), f.name, f.values[n + 1])

(* Reads a list of fields into a record of their own.                       *)
ReadFields(r, list) ==
    LET read[i \in 0..Len(list)] ==
            IF i = 0 THEN Having(r, NoFields)
            ELSE ReadField(read[i - 1], list[i])
    IN  read[Len(list)]

(* ReadCount, ReadBytes and ReadString: a length, limited by the caller and *)
(* by what is left, and as many bytes.                                      *)
ReadBytes(r, name, size) ==
    IF ~r.ok \/ Len(r.rest) < size
    THEN Fail(r)
    ELSE Put(Drop(r, size), name, SubSeq(r.rest, 1, size))

(* Finish: everything was valid, and nothing is left.                       *)
FinishDecode(r) == IF r.ok /\ r.rest = <<>> THEN r.fields ELSE Refused
=============================================================================
