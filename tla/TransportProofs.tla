--------------------------- MODULE TransportProofs ---------------------------
(***************************************************************************)
(* Transport.tla proved, for every set of scripts whose items are typed.    *)
(*                                                                          *)
(* The first half is about the codecs: what each DTO, packet and signal is  *)
(* written as reads back as it was, and nothing shorter or longer does.     *)
(* The second half is about the transports.  In every direction, what was   *)
(* polled and what waits is what was accepted, in the same order and each   *)
(* once; a step of any implementation leaves a direction alone, puts an     *)
(* envelope into it or takes the first out of it, and each of the three     *)
(* keeps that so and is a step of LossyChannel.  For the data channel the   *)
(* signals of the handshake are part of the invariant: a frame that is sent *)
(* before the other end is connected is there when that end is.             *)
(***************************************************************************)
EXTENDS Transport, NumberLemmas, TLAPS

-----------------------------------------------------------------------------
(* Fields.  What a field's bytes are, and that Read gives the field back and*)
(* leaves what follows it.                                                  *)

(* The bytes of a field that is to be read as v.                            *)
Codes(bytes, f, v) ==
    /\ bytes \in Seq(Byte) /\ f.width \in Nat /\ Len(bytes) = f.width
    /\ IF f.type = "pod" THEN NumberOf(bytes) = v
       ELSE /\ NumberOf(bytes) \in Nat /\ NumberOf(bytes) < Len(f.values)
            /\ f.values[NumberOf(bytes) + 1] = v

(* A reader that has met no error.                                          *)
At(rest, fields) == [rest |-> rest, ok |-> TRUE, fields |-> fields]

(* A function on 1..n is a sequence of n elements.                          *)
LEMMA FunctionIsSequence ==
    ASSUME NEW S, NEW n \in Nat, NEW f \in [1..n -> S]
    PROVE  f \in Seq(S) /\ Len(f) = n
  OBVIOUS

(* WritePod writes as many bytes as the field is wide.                      *)
LEMMA PodBytes ==
    ASSUME NEW width \in Nat, NEW n \in Nat
    PROVE  /\ Pod(width, n) \in Seq(Byte)
           /\ Len(Pod(width, n)) = width
           /\ ByteAt(Pod(width, n), 1) = IF width >= 1 THEN n % 256 ELSE 0
           /\ ByteAt(Pod(width, n), 2) = IF width >= 2 THEN (n \div 256) % 256 ELSE 0
           /\ ByteAt(Pod(width, n), 3) = IF width >= 3 THEN ((n \div 256) \div 256) % 256 ELSE 0
<1> DEFINE f == Pod(width, n)
<1>1. n % 256 \in Byte /\ n \div 256 \in Nat
  BY DEF Byte
<1>2. (n \div 256) % 256 \in Byte /\ (n \div 256) \div 256 \in Nat
  BY <1>1 DEF Byte
<1>3. ((n \div 256) \div 256) % 256 \in Byte /\ 0 \in Byte
  BY <1>2 DEF Byte
<1>4. f \in [1..width -> Byte]
  BY <1>1, <1>2, <1>3 DEF Pod
<1>5. /\ 1 \in 1..width => f[1] = n % 256
      /\ 2 \in 1..width => f[2] = (n \div 256) % 256
      /\ 3 \in 1..width => f[3] = ((n \div 256) \div 256) % 256
  BY DEF Pod
<1> HIDE DEF f
<1>6. f \in Seq(Byte) /\ Len(f) = width
  BY <1>4, FunctionIsSequence
<1> QED
  BY <1>5, <1>6 DEF f, ByteAt

(* The low byte of a number and the rest of it make the number.             *)
LEMMA DivMod ==
    ASSUME NEW n \in Nat
    PROVE  /\ n = (n % 256) + 256 * (n \div 256)
           /\ n \div 256 \in Nat
           /\ n % 256 \in 0..255
  OBVIOUS

(* The rest of a number is smaller by a byte.                               *)
LEMMA DivBounds ==
    ASSUME NEW n \in Nat, NEW b \in Nat, n < 256 * b
    PROVE  n \div 256 < b
<1>1. n = (n % 256) + 256 * (n \div 256) /\ n \div 256 \in Nat /\ n % 256 \in 0..255
  BY DivMod
<1> QED
  BY <1>1

LEMMA SmallMod ==
    ASSUME NEW n \in Nat, n < 256
    PROVE  n % 256 = n
  OBVIOUS

(* The three bytes of a Number.                                             *)
LEMMA NumberBounds ==
    /\ \A n \in Number : n \in Nat /\ n < 256 * (256 * 256)
    /\ \A n \in Word : n \in Number /\ n \in Nat /\ n < 256 * 256
    /\ \A n \in Byte : n \in Number /\ n \in Nat /\ n < 256
  BY DEF Number, Word, Byte

(* ReadPod reads the number that WritePod has written, when the field is    *)
(* wide enough for it.                                                      *)
LEMMA PodNumber ==
    ASSUME NEW width \in {1, 2, 4, 8}, NEW n \in Number,
           width = 1 => n \in Byte, width = 2 => n \in Word
    PROVE  NumberOf(Pod(width, n)) = n
<1>0. n \in Nat /\ n < 256 * (256 * 256)
  BY NumberBounds
<1> DEFINE d == n \div 256
           c == d \div 256
<1>1. n = (n % 256) + 256 * d /\ d \in Nat /\ n % 256 \in 0..255
  BY <1>0, DivMod
<1>2. d = (d % 256) + 256 * c /\ c \in Nat /\ d % 256 \in 0..255
  BY <1>1, DivMod
<1>3. c % 256 = c
  <2>1. d < 256 * 256
    BY <1>0, DivBounds
  <2>2. c < 256
    BY <1>1, <2>1, DivBounds
  <2> QED
    BY <1>2, <2>2, SmallMod
<1>4. /\ ByteAt(Pod(width, n), 1) = n % 256
      /\ ByteAt(Pod(width, n), 2) = IF width >= 2 THEN d % 256 ELSE 0
      /\ ByteAt(Pod(width, n), 3) = IF width >= 3 THEN c % 256 ELSE 0
  <2>1. width \in Nat /\ width >= 1
    OBVIOUS
  <2> QED
    BY <1>0, <2>1, PodBytes, Zenon
<1>5. width = 1 => n % 256 = n
  BY NumberBounds, SmallMod
<1>6. width = 2 => d % 256 = d
  <2>1. width = 2 => d < 256
    BY NumberBounds, DivBounds
  <2> QED
    BY <1>1, <2>1, SmallMod
<1> HIDE DEF c, d
<1>7. CASE width = 1
  BY <1>0, <1>1, <1>4, <1>5, <1>7 DEF NumberOf
<1>8. CASE width = 2
  BY <1>0, <1>1, <1>4, <1>6, <1>8 DEF NumberOf
<1>9. CASE width \in {4, 8}
  <2>1. ByteAt(Pod(width, n), 2) = d % 256 /\ ByteAt(Pod(width, n), 3) = c
    BY <1>3, <1>4, <1>9
  <2>2. NumberOf(Pod(width, n)) = (n % 256) + 256 * ((d % 256) + 256 * c)
    BY <1>4, <2>1 DEF NumberOf
  <2> QED
    BY <1>1, <1>2, <2>2
<1> QED
  BY <1>7, <1>8, <1>9

(* So the bytes of WritePod code the number for ReadPod.                    *)
LEMMA PodCodes ==
    ASSUME NEW width \in {1, 2, 4, 8}, NEW n \in Number, NEW name,
           width = 1 => n \in Byte, width = 2 => n \in Word
    PROVE  Codes(Pod(width, n), PodField(name, width), n)
<1>1. n \in Nat /\ width \in Nat
  BY NumberBounds
<1> QED
  BY <1>1, PodBytes, PodNumber, Zenon DEF Codes, PodField

(* And those of a bool, an uint8_t that is 0 or 1, code it for ReadBool.    *)
LEMMA BoolCodes ==
    ASSUME NEW b \in BOOLEAN, NEW name
    PROVE  Codes(WriteBool(b), BoolField(name), b)
<1>1. 0 \in Number /\ 1 \in Number /\ 0 \in Byte /\ 1 \in Byte
  BY DEF Number, Byte
<1>2. NumberOf(Pod(1, 0)) = 0 /\ NumberOf(Pod(1, 1)) = 1
  BY <1>1, PodNumber
<1>3. /\ Pod(1, 0) \in Seq(Byte) /\ Len(Pod(1, 0)) = 1
      /\ Pod(1, 1) \in Seq(Byte) /\ Len(Pod(1, 1)) = 1
  BY PodBytes, Zenon
<1> DEFINE f == BoolField(name)
<1>4. /\ f.width = 1 /\ f.type # "pod" /\ Len(f.values) = 2
      /\ f.values[1] = FALSE /\ f.values[2] = TRUE
  BY DEF BoolField
<1> HIDE DEF f
<1>5. Codes(Pod(1, 0), f, FALSE)
  BY <1>2, <1>3, <1>4 DEF Codes
<1>6. Codes(Pod(1, 1), f, TRUE)
  BY <1>2, <1>3, <1>4 DEF Codes
<1>7. CASE b = TRUE
  <2>1. WriteBool(b) = Pod(1, 1)
    BY <1>7 DEF WriteBool
  <2> QED
    BY <1>6, <1>7, <2>1, Zenon DEF f
<1>8. CASE b = FALSE
  <2>1. WriteBool(b) = Pod(1, 0)
    BY <1>8 DEF WriteBool
  <2> QED
    BY <1>5, <1>8, <2>1, Zenon DEF f
<1> QED
  BY <1>7, <1>8, Zenon

(* And those of an enumerator, its position, for ReadEnum.                  *)
LEMMA EnumCodes ==
    ASSUME NEW values, Len(values) \in Nat, Len(values) < 256, DOMAIN values = 1..Len(values),
           NEW e \in Range(values), NEW name
    PROVE  Codes(WriteEnum(values, e), EnumField(name, values), e)
<1> DEFINE k == CHOOSE i \in DOMAIN values : values[i] = e
           n == k - 1
<1>1. k \in 1..Len(values) /\ values[k] = e
  BY DEF Range
<1> HIDE DEF k
<1>2. n \in Nat /\ n < Len(values) /\ n + 1 = k
  BY <1>1
<1>3. WriteEnum(values, e) = Pod(1, n)
  BY DEF WriteEnum, k
<1> HIDE DEF n
<1>4. n \in Number /\ n \in Byte
  <2>1. n < 256
    BY <1>2
  <2> QED
    BY <1>2, <2>1 DEF Number, Byte
<1>5. /\ NumberOf(Pod(1, n)) = n
      /\ Pod(1, n) \in Seq(Byte) /\ Len(Pod(1, n)) = 1
  <2>1. NumberOf(Pod(1, n)) = n
    BY <1>4, PodNumber
  <2> QED
    BY <1>2, <2>1, PodBytes, Zenon
<1> DEFINE f == EnumField(name, values)
<1>6. f.width = 1 /\ f.type # "pod" /\ f.values = values
  BY DEF EnumField
<1> HIDE DEF f
<1>7. f.values[n + 1] = e
  BY <1>1, <1>2, <1>6
<1>8. Codes(Pod(1, n), f, e)
  BY <1>2, <1>5, <1>6, <1>7 DEF Codes
<1> QED
  BY <1>3, <1>8 DEF f

(* The parts of a reader that has met no error, after each of its calls.    *)
LEMMA AtParts ==
    ASSUME NEW rest, NEW fields
    PROVE  /\ At(rest, fields).ok
           /\ At(rest, fields).rest = rest
           /\ At(rest, fields).fields = fields
  BY DEF At

LEMMA AtDrops ==
    ASSUME NEW rest, NEW fields, NEW n
    PROVE  Drop(At(rest, fields), n) = At(SubSeq(rest, n + 1, Len(rest)), fields)
  BY DEF At, Drop

LEMMA AtHaving ==
    ASSUME NEW rest, NEW fields, NEW other
    PROVE  Having(At(rest, fields), other) = At(rest, other)
  BY DEF At, Having

LEMMA AtPuts ==
    ASSUME NEW rest, NEW fields, NEW name, NEW value
    PROVE  Put(At(rest, fields), name, value) = At(rest, With(fields, name, value))
  BY AtParts, AtHaving DEF Put

(* ReadPod, ReadEnum and ReadBool read a field from its bytes and leave what*)
(* follows them.                                                            *)
LEMMA FieldReads ==
    ASSUME NEW bytes, NEW f, NEW v, Codes(bytes, f, v), NEW tail \in Seq(Byte), NEW fields
    PROVE  ReadField(At(bytes \o tail, fields), f) = At(tail, With(fields, f.name, v))
<1> DEFINE b == bytes \o tail
           r == At(b, fields)
<1>1. b \in Seq(Byte) /\ Len(b) = f.width + Len(tail)
  BY DEF Codes
<1>2. SubSeq(b, 1, f.width) = bytes
  BY DEF Codes
<1>3. SubSeq(b, f.width + 1, Len(b)) = tail
  BY DEF Codes
<1>4. ~ (Len(b) < f.width)
  BY <1>1 DEF Codes
<1> HIDE DEF b
<1>5. r.ok /\ r.rest = b /\ r.fields = fields
  BY AtParts
<1>6. Put(Drop(r, f.width), f.name, v) = At(tail, With(fields, f.name, v))
  <2>1. Drop(r, f.width) = At(SubSeq(b, f.width + 1, Len(b)), fields)
    BY AtDrops
  <2>2. Drop(r, f.width) = At(tail, fields)
    BY <1>3, <2>1, Zenon
  <2>3. Put(At(tail, fields), f.name, v) = At(tail, With(fields, f.name, v))
    BY AtPuts
  <2> HIDE DEF r
  <2> QED
    BY <2>2, <2>3, Zenon
<1> HIDE DEF r
<1>7. CASE f.type = "pod"
  <2>1. NumberOf(bytes) = v
    BY <1>7 DEF Codes
  <2>2. ReadField(r, f) = Put(Drop(r, f.width), f.name, v)
    BY <1>2, <1>4, <1>5, <1>7, <2>1, Zenon DEF ReadField
  <2> QED
    BY <1>6, <2>2 DEF r, b
<1>8. CASE f.type # "pod"
  <2>1. ~ (NumberOf(bytes) >= Len(f.values)) /\ f.values[NumberOf(bytes) + 1] = v
    BY <1>8 DEF Codes
  <2>2. ReadField(r, f) = Put(Drop(r, f.width), f.name, v)
    BY <1>2, <1>4, <1>5, <1>8, <2>1, Zenon DEF ReadField
  <2> QED
    BY <1>6, <2>2 DEF r, b
<1> QED
  BY <1>7, <1>8

Names(list) == {list[i].name : i \in 1..Len(list)}

(* The fields of m that a list of fields names.                             *)
FieldsOf(list, m) == [x \in Names(list) |-> m[x]]

(* What the empty sequence is, whatever it is a sequence of.                *)
LEMMA EmptySequence ==
    ASSUME NEW S
    PROVE  <<>> \in Seq(S) /\ Len(<<>>) = 0
  OBVIOUS

LEMMA EmptyConcat ==
    ASSUME NEW S, NEW s \in Seq(S)
    PROVE  <<>> \o s = s /\ s \o <<>> = s
  OBVIOUS

LEMMA ConcatInSeq ==
    ASSUME NEW S, NEW s \in Seq(S), NEW t \in Seq(S)
    PROVE  s \o t \in Seq(S) /\ Len(s \o t) = Len(s) + Len(t)
  OBVIOUS

LEMMA ConcatAssociates ==
    ASSUME NEW S, NEW s \in Seq(S), NEW t \in Seq(S), NEW u \in Seq(S)
    PROVE  (s \o t) \o u = s \o (t \o u)
  OBVIOUS

ReadStart(x) == Having(x.r, NoFields)
ReadPass(x, i, r) == ReadField(r, x.list[i])
Reading == INSTANCE Iteration WITH Start <- ReadStart, Pass <- ReadPass

(* The reader after the first i fields of the list.                         *)
After(r, list, i) ==
    (CHOOSE g : Reading!IsLoop(g, [r |-> r, list |-> list], Len(list)))[i]

(* The loops of ReadFields and Concat, one pass at a time.                  *)
LEMMA ReadFieldsUnrolls ==
    ASSUME NEW r, NEW list, Len(list) \in Nat
    PROVE  /\ ReadFields(r, list) = After(r, list, Len(list))
           /\ After(r, list, 0) = Having(r, NoFields)
           /\ \A i \in 1..Len(list) : After(r, list, i) = ReadField(After(r, list, i - 1), list[i])
<1> DEFINE x == [r |-> r, list |-> list]
<1> DEFINE f == CHOOSE g : Reading!IsLoop(g, x, Len(list))
<1>1. ReadFields(r, list) = f[Len(list)]
  BY DEF ReadFields, Reading!IsLoop, ReadStart, ReadPass
<1>2. f[0] = ReadStart(x) /\ \A i \in 1..Len(list) : f[i] = ReadPass(x, i, f[i - 1])
  <2> HIDE DEF x
  <2> QED
    BY Reading!LoopUnrolls
<1>3. \A i : f[i] = After(r, list, i)
  BY DEF After
<1> HIDE DEF f
<1> QED
  BY <1>1, <1>2, <1>3 DEF ReadStart, ReadPass

ConcatStart(x) == <<>>
ConcatPass(x, i, s) == s \o x[i]
Joining == INSTANCE Iteration WITH Start <- ConcatStart, Pass <- ConcatPass

Joined(parts, i) == (CHOOSE g : Joining!IsLoop(g, parts, Len(parts)))[i]

LEMMA ConcatUnrolls ==
    ASSUME NEW parts, Len(parts) \in Nat
    PROVE  /\ Concat(parts) = Joined(parts, Len(parts))
           /\ Joined(parts, 0) = <<>>
           /\ \A i \in 1..Len(parts) : Joined(parts, i) = Joined(parts, i - 1) \o parts[i]
<1> DEFINE f == CHOOSE g : Joining!IsLoop(g, parts, Len(parts))
<1>1. Concat(parts) = f[Len(parts)]
  BY DEF Concat, Joining!IsLoop, ConcatStart, ConcatPass
<1>2. f[0] = ConcatStart(parts) /\ \A i \in 1..Len(parts) : f[i] = ConcatPass(parts, i, f[i - 1])
  BY Joining!LoopUnrolls, Zenon
<1>3. \A i : f[i] = Joined(parts, i)
  BY DEF Joined
<1> HIDE DEF f
<1> QED
  BY <1>1, <1>2, <1>3, Zenon DEF ConcatStart, ConcatPass

(* Parts that are bytes join to bytes.                                      *)
LEMMA JoinedBytes ==
    ASSUME NEW parts, Len(parts) \in Nat, \A i \in 1..Len(parts) : parts[i] \in Seq(Byte)
    PROVE  \A i \in 0..Len(parts) : Joined(parts, i) \in Seq(Byte)
<1> DEFINE T == {i \in 0..Len(parts) : Joined(parts, i) \in Seq(Byte)}
<1>1. 0 \in T
  <2>1. Joined(parts, 0) = <<>>
    BY ConcatUnrolls, Zenon
  <2>2. Joined(parts, 0) \in Seq(Byte)
    BY <2>1, EmptySequence, Zenon
  <2> QED
    BY <2>2
<1>2. ASSUME NEW i \in 1..Len(parts), i - 1 \in T PROVE i \in T
  <2>1. Joined(parts, i - 1) \in Seq(Byte) /\ parts[i] \in Seq(Byte)
    BY <1>2
  <2>2. Joined(parts, i) = Joined(parts, i - 1) \o parts[i]
    BY ConcatUnrolls, Zenon
  <2>3. Joined(parts, i) \in Seq(Byte)
    BY <2>1, <2>2, ConcatInSeq
  <2> QED
    BY <2>3
<1> HIDE DEF T
<1>3. 0..Len(parts) \subseteq T
  BY <1>1, <1>2, InductionUpTo, Zenon
<1> QED
  BY <1>3 DEF T

(* ReadFields reads a list of fields from their bytes, joined in the order  *)
(* of the list, and leaves what follows them.                               *)
LEMMA ListReads ==
    ASSUME NEW list, Len(list) \in Nat,
           NEW parts, Len(parts) = Len(list),
           NEW m, \A i \in 1..Len(list) : Codes(parts[i], list[i], m[list[i].name]),
           NEW tail \in Seq(Byte), NEW fields
    PROVE  ReadFields(At(Concat(parts) \o tail, fields), list)
             = At(tail, FieldsOf(list, m))
<1> DEFINE n == Len(list)
           Some(k) == [x \in {list[i].name : i \in 1..k} |-> m[x]]
           Start(k, t) == At(Joined(parts, k) \o t, fields)
           T == {k \in 0..n : \A t \in Seq(Byte) : After(Start(k, t), list, k) = At(t, Some(k))}
<1>1. 0 \in T
  <2> SUFFICES ASSUME NEW t \in Seq(Byte)
               PROVE  After(Start(0, t), list, 0) = At(t, Some(0))
    OBVIOUS
  <2>1. Joined(parts, 0) \o t = t
    <3>1. Joined(parts, 0) = <<>>
      BY ConcatUnrolls, Zenon
    <3> QED
      BY <3>1, EmptyConcat
  <2>2. Some(0) = NoFields
    BY DEF NoFields
  <2>3. After(Start(0, t), list, 0) = Having(At(t, fields), NoFields)
    BY <2>1, ReadFieldsUnrolls, Zenon
  <2> HIDE DEF Some, Start
  <2> QED
    BY <2>2, <2>3, AtHaving
<1>2. ASSUME NEW k \in 1..n, k - 1 \in T PROVE k \in T
  <2> SUFFICES ASSUME NEW t \in Seq(Byte)
               PROVE  After(Start(k, t), list, k) = At(t, Some(k))
    OBVIOUS
  <2> DEFINE u == parts[k] \o t
  <2>1. Joined(parts, k) = Joined(parts, k - 1) \o parts[k]
    BY ConcatUnrolls, Zenon
  <2>2. u \in Seq(Byte) /\ Joined(parts, k) \o t = Joined(parts, k - 1) \o u
    <3>1. \A i \in 1..n : parts[i] \in Seq(Byte)
      BY DEF Codes
    <3>2. \A i \in 0..n : Joined(parts, i) \in Seq(Byte)
      BY <3>1, JoinedBytes, Zenon
    <3>3. k \in 1..n /\ k - 1 \in 0..n
      OBVIOUS
    <3>4. PICK a \in Seq(Byte) : a = Joined(parts, k - 1)
      BY <3>2, <3>3
    <3>5. PICK b \in Seq(Byte) : b = parts[k]
      BY <3>1, <3>3
    <3>6. b \o t \in Seq(Byte)
      OBVIOUS
    <3>7. (a \o b) \o t = a \o (b \o t)
      BY SMTT(30)
    <3> QED
      BY <2>1, <3>4, <3>5, <3>6, <3>7, Zenon
  <2>3. Start(k, t) = Start(k - 1, u)
    BY <2>2
  <2>4. After(Start(k - 1, u), list, k - 1) = At(u, Some(k - 1))
    BY <1>2, <2>2, Zenon
  <2>5. After(Start(k, t), list, k) = ReadField(At(u, Some(k - 1)), list[k])
    <3> HIDE DEF Start, Some, u
    <3>1. After(Start(k, t), list, k) = ReadField(After(Start(k, t), list, k - 1), list[k])
      BY ReadFieldsUnrolls, Zenon
    <3> QED
      BY <2>3, <2>4, <3>1
  <2>6. ReadField(At(u, Some(k - 1)), list[k])
          = At(t, With(Some(k - 1), list[k].name, m[list[k].name]))
    <3> HIDE DEF Some
    <3> QED
      BY FieldReads
  <2>7. With(Some(k - 1), list[k].name, m[list[k].name]) = Some(k)
    BY DEF With
  <2> QED
    BY <2>5, <2>6, <2>7
<1>3. n \in T
  <2> HIDE DEF T
  <2>1. 0..n \subseteq T
    BY <1>1, <1>2, InductionUpTo, Zenon
  <2> QED
    BY <2>1
<1>4. After(Start(n, tail), list, n) = At(tail, Some(n))
  BY <1>3
<1>5. Start(n, tail) = At(Concat(parts) \o tail, fields) /\ Some(n) = FieldsOf(list, m)
  BY ConcatUnrolls, Zenon DEF Names, FieldsOf
<1> HIDE DEF Start, Some
<1> QED
  BY <1>4, <1>5, ReadFieldsUnrolls

(* The parts are the bytes of m's fields, in the order in which the list    *)
(* reads them.                                                              *)
Layout(list, parts, m) ==
    /\ Len(list) \in Nat /\ Len(parts) = Len(list)
    /\ \A i \in 1..Len(list) : Codes(parts[i], list[i], m[list[i].name])

(* The bytes written for a field of each width code the number.             *)
LEMMA FieldCodes ==
    /\ \A name, n : n \in Number => Codes(U32(n), PodField(name, 4), n)
    /\ \A name, n : n \in Number => Codes(U64(n), PodField(name, 8), n)
    /\ \A name, n : n \in Word => Codes(U16(n), PodField(name, 2), n)
    /\ \A name, n : n \in Byte => Codes(U8(n), PodField(name, 1), n)
    /\ \A name, b : b \in BOOLEAN => Codes(WriteBool(b), BoolField(name), b)
  BY PodCodes, BoolCodes, NumberBounds DEF U8, U16, U32, U64

(* The name of each kind of field.                                          *)
LEMMA FieldNames ==
    /\ \A name, width : PodField(name, width).name = name
    /\ \A name : BoolField(name).name = name
    /\ \A name, values : EnumField(name, values).name = name
  BY DEF PodField, BoolField, EnumField

Enumerations ==
    {WeaponType, ReplicatedEntityKind, SnapshotPriority, SnapshotDeliveryKind,
     NetworkEventKind, NetworkChannel, MessageClass, SignalKind}

(* The byte of an enumerator of any of the enumerations codes it.           *)
LEMMA EnumeratorCodes ==
    ASSUME NEW name, NEW values \in Enumerations, NEW e \in Range(values)
    PROVE  Codes(WriteEnum(values, e), EnumField(name, values), e)
<1> DEFINE Listed(v) == Len(v) \in Nat /\ Len(v) < 256 /\ DOMAIN v = 1..Len(v)
<1>1. Listed(WeaponType)
  BY DEF WeaponType
<1>2. Listed(ReplicatedEntityKind)
  BY DEF ReplicatedEntityKind
<1>3. Listed(SnapshotPriority)
  BY DEF SnapshotPriority
<1>4. Listed(SnapshotDeliveryKind)
  BY DEF SnapshotDeliveryKind
<1>5. Listed(NetworkEventKind)
  BY DEF NetworkEventKind
<1>6. Listed(NetworkChannel)
  BY DEF NetworkChannel
<1>7. Listed(MessageClass)
  BY DEF MessageClass
<1>8. Listed(SignalKind)
  BY DEF SignalKind
<1>9. Listed(values)
  <2> HIDE DEF Listed
  <2> QED
    BY <1>1, <1>2, <1>3, <1>4, <1>5, <1>6, <1>7, <1>8 DEF Enumerations
<1> QED
  BY <1>9, EnumCodes

(* What is written as a layout is read back, whatever follows it.           *)
LEMMA LayoutReads ==
    ASSUME NEW list, NEW parts, NEW m, Layout(list, parts, m),
           NEW tail \in Seq(Byte), NEW fields
    PROVE  /\ Concat(parts) \in Seq(Byte)
           /\ ReadFields(At(Concat(parts) \o tail, fields), list)
                = At(tail, FieldsOf(list, m))
<1>1. \A i \in 1..Len(parts) : parts[i] \in Seq(Byte)
  BY DEF Layout, Codes
<1>2. Len(parts) \in Nat
  BY DEF Layout
<1>3. Concat(parts) \in Seq(Byte)
  <2>1. Len(parts) \in 0..Len(parts)
    BY <1>2
  <2>2. Joined(parts, Len(parts)) \in Seq(Byte)
    BY <1>1, <1>2, <2>1, JoinedBytes
  <2> QED
    BY <1>2, <2>2, ConcatUnrolls, Zenon
<1>4. /\ Len(list) \in Nat /\ Len(parts) = Len(list)
      /\ \A i \in 1..Len(list) : Codes(parts[i], list[i], m[list[i].name])
  BY DEF Layout
<1>5. ReadFields(At(Concat(parts) \o tail, fields), list)
        = At(tail, FieldsOf(list, m))
  BY <1>4, ListReads
<1> QED
  BY <1>3, <1>5

(* Finish accepts a reader that has read everything.                        *)
LEMMA FinishAt ==
    ASSUME NEW fields
    PROVE  FinishDecode(At(<<>>, fields)) = fields
  BY AtParts DEF FinishDecode

LEMMA ReaderAt ==
    ASSUME NEW bytes \in Seq(Byte)
    PROVE  Reader(bytes) = At(bytes \o <<>>, NoFields)
<1>1. bytes \o <<>> = bytes
  BY EmptyConcat
<1> QED
  BY <1>1 DEF Reader, At

(* A DTO that is one list of fields decodes to itself.                      *)
LEMMA LayoutDecodes ==
    ASSUME NEW list, NEW parts, NEW m, Layout(list, parts, m), FieldsOf(list, m) = m
    PROVE  /\ Concat(parts) \in Seq(Byte)
           /\ FinishDecode(ReadFields(Reader(Concat(parts)), list)) = m
<1>1. <<>> \in Seq(Byte)
  BY EmptySequence
<1>2. Concat(parts) \in Seq(Byte)
  BY <1>1, LayoutReads, Zenon
<1>3. ReadFields(Reader(Concat(parts)), list) = At(<<>>, m)
  <2>1. Reader(Concat(parts)) = At(Concat(parts) \o <<>>, NoFields)
    BY <1>2, ReaderAt
  <2>2. ASSUME NEW none \in Seq(Byte), none = <<>>
        PROVE  ReadFields(At(Concat(parts) \o none, NoFields), list) = At(none, m)
    BY LayoutReads
  <2> QED
    BY <1>1, <2>1, <2>2, Zenon
<1> QED
  BY <1>2, <1>3, FinishAt

(* Each of SerializeX and DeserializeX: what the one writes the other reads.*)
LEMMA LoginCommandRoundTrip ==
    ASSUME NEW m \in LoginCommand
    PROVE  /\ SerializeLoginCommand(m) \in Seq(Byte)
           /\ DeserializeLoginCommand(SerializeLoginCommand(m)) = m
<1> DEFINE list == Fields(4, <<"clientId", "sequence">>)
                     \o Fields(8, <<"clientTimestampMs">>)
           parts == <<U32(m.clientId), U32(m.sequence), U64(m.clientTimestampMs)>>
<1>1. Len(list) = 3 /\ Len(parts) = 3
  BY DEF Fields
<1>2. /\ list[1].name = "clientId" /\ list[2].name = "sequence"
      /\ list[3].name = "clientTimestampMs"
  BY FieldNames DEF Fields
<1>3. /\ Codes(parts[1], list[1], m.clientId) /\ Codes(parts[2], list[2], m.sequence)
      /\ Codes(parts[3], list[3], m.clientTimestampMs)
  BY FieldCodes DEF Fields, LoginCommand
<1>4. /\ SerializeLoginCommand(m) = Concat(parts)
      /\ \A b : DeserializeLoginCommand(b) = FinishDecode(ReadFields(Reader(b), list))
  BY DEF SerializeLoginCommand, DeserializeLoginCommand
<1> HIDE DEF list, parts
<1>5. Layout(list, parts, m)
  BY <1>1, <1>2, <1>3 DEF Layout
<1>6. FieldsOf(list, m) = m
  BY <1>1, <1>2 DEF FieldsOf, Names, LoginCommand
<1> QED
  BY <1>4, <1>5, <1>6, LayoutDecodes

LEMMA ClientInputPacketRoundTrip ==
    ASSUME NEW m \in ClientInputPacket
    PROVE  /\ SerializeClientInputPacket(m) \in Seq(Byte)
           /\ DeserializeClientInputPacket(SerializeClientInputPacket(m)) = m
<1> DEFINE list == Fields(4, <<"clientId", "sequence">>)
                     \o Fields(8, <<"clientTimestampMs">>)
                     \o Fields(1, <<"moveX", "moveY">>) \o Fields(2, <<"aimX", "aimY">>)
                     \o <<BoolField("fire")>>
           parts == <<U32(m.clientId), U32(m.sequence), U64(m.clientTimestampMs), U8(m.moveX),
                    U8(m.moveY), U16(m.aimX), U16(m.aimY), WriteBool(m.fire)>>
<1>1. Len(list) = 8 /\ Len(parts) = 8
  BY DEF Fields
<1>2. /\ list[1].name = "clientId" /\ list[2].name = "sequence"
      /\ list[3].name = "clientTimestampMs" /\ list[4].name = "moveX"
      /\ list[5].name = "moveY" /\ list[6].name = "aimX" /\ list[7].name = "aimY"
      /\ list[8].name = "fire"
  BY FieldNames DEF Fields
<1>3. /\ Codes(parts[1], list[1], m.clientId) /\ Codes(parts[2], list[2], m.sequence)
      /\ Codes(parts[3], list[3], m.clientTimestampMs)
      /\ Codes(parts[4], list[4], m.moveX) /\ Codes(parts[5], list[5], m.moveY)
      /\ Codes(parts[6], list[6], m.aimX) /\ Codes(parts[7], list[7], m.aimY)
      /\ Codes(parts[8], list[8], m.fire)
  BY FieldCodes DEF Fields, ClientInputPacket
<1>4. /\ SerializeClientInputPacket(m) = Concat(parts)
      /\ \A b : DeserializeClientInputPacket(b) = FinishDecode(ReadFields(Reader(b), list))
  BY DEF SerializeClientInputPacket, DeserializeClientInputPacket
<1> HIDE DEF list, parts
<1>5. Layout(list, parts, m)
  BY <1>1, <1>2, <1>3 DEF Layout
<1>6. FieldsOf(list, m) = m
  BY <1>1, <1>2 DEF FieldsOf, Names, ClientInputPacket
<1> QED
  BY <1>4, <1>5, <1>6, LayoutDecodes

LEMMA TimeSyncRequestRoundTrip ==
    ASSUME NEW m \in TimeSyncRequest
    PROVE  /\ SerializeTimeSyncRequest(m) \in Seq(Byte)
           /\ DeserializeTimeSyncRequest(SerializeTimeSyncRequest(m)) = m
<1> DEFINE list == Fields(4, <<"clientId", "sequence">>) \o Fields(8, <<"clientSentAtMs">>)
           parts == <<U32(m.clientId), U32(m.sequence), U64(m.clientSentAtMs)>>
<1>1. Len(list) = 3 /\ Len(parts) = 3
  BY DEF Fields
<1>2. /\ list[1].name = "clientId" /\ list[2].name = "sequence"
      /\ list[3].name = "clientSentAtMs"
  BY FieldNames DEF Fields
<1>3. /\ Codes(parts[1], list[1], m.clientId) /\ Codes(parts[2], list[2], m.sequence)
      /\ Codes(parts[3], list[3], m.clientSentAtMs)
  BY FieldCodes DEF Fields, TimeSyncRequest
<1>4. /\ SerializeTimeSyncRequest(m) = Concat(parts)
      /\ \A b : DeserializeTimeSyncRequest(b) = FinishDecode(ReadFields(Reader(b), list))
  BY DEF SerializeTimeSyncRequest, DeserializeTimeSyncRequest
<1> HIDE DEF list, parts
<1>5. Layout(list, parts, m)
  BY <1>1, <1>2, <1>3 DEF Layout
<1>6. FieldsOf(list, m) = m
  BY <1>1, <1>2 DEF FieldsOf, Names, TimeSyncRequest
<1> QED
  BY <1>4, <1>5, <1>6, LayoutDecodes

LEMMA TimeSyncResponseRoundTrip ==
    ASSUME NEW m \in TimeSyncResponse
    PROVE  /\ SerializeTimeSyncResponse(m) \in Seq(Byte)
           /\ DeserializeTimeSyncResponse(SerializeTimeSyncResponse(m)) = m
<1> DEFINE list == Fields(4, <<"clientId", "sequence">>)
                     \o Fields(8, <<"clientSentAtMs", "serverReceivedAtMs",
                                    "serverSentAtMs">>)
           parts == <<U32(m.clientId), U32(m.sequence), U64(m.clientSentAtMs),
                    U64(m.serverReceivedAtMs), U64(m.serverSentAtMs)>>
<1>1. Len(list) = 5 /\ Len(parts) = 5
  BY DEF Fields
<1>2. /\ list[1].name = "clientId" /\ list[2].name = "sequence"
      /\ list[3].name = "clientSentAtMs" /\ list[4].name = "serverReceivedAtMs"
      /\ list[5].name = "serverSentAtMs"
  BY FieldNames DEF Fields
<1>3. /\ Codes(parts[1], list[1], m.clientId) /\ Codes(parts[2], list[2], m.sequence)
      /\ Codes(parts[3], list[3], m.clientSentAtMs)
      /\ Codes(parts[4], list[4], m.serverReceivedAtMs)
      /\ Codes(parts[5], list[5], m.serverSentAtMs)
  BY FieldCodes DEF Fields, TimeSyncResponse
<1>4. /\ SerializeTimeSyncResponse(m) = Concat(parts)
      /\ \A b : DeserializeTimeSyncResponse(b) = FinishDecode(ReadFields(Reader(b), list))
  BY DEF SerializeTimeSyncResponse, DeserializeTimeSyncResponse
<1> HIDE DEF list, parts
<1>5. Layout(list, parts, m)
  BY <1>1, <1>2, <1>3 DEF Layout
<1>6. FieldsOf(list, m) = m
  BY <1>1, <1>2 DEF FieldsOf, Names, TimeSyncResponse
<1> QED
  BY <1>4, <1>5, <1>6, LayoutDecodes

LEMMA NetworkEventAckRoundTrip ==
    ASSUME NEW m \in NetworkEventAckDTO
    PROVE  /\ SerializeNetworkEventAck(m) \in Seq(Byte)
           /\ DeserializeNetworkEventAck(SerializeNetworkEventAck(m)) = m
<1> DEFINE list == Fields(4, <<"clientId", "eventId">>) \o Fields(8, <<"clientReceivedAtMs">>)
           parts == <<U32(m.clientId), U32(m.eventId), U64(m.clientReceivedAtMs)>>
<1>1. Len(list) = 3 /\ Len(parts) = 3
  BY DEF Fields
<1>2. /\ list[1].name = "clientId" /\ list[2].name = "eventId"
      /\ list[3].name = "clientReceivedAtMs"
  BY FieldNames DEF Fields
<1>3. /\ Codes(parts[1], list[1], m.clientId) /\ Codes(parts[2], list[2], m.eventId)
      /\ Codes(parts[3], list[3], m.clientReceivedAtMs)
  BY FieldCodes DEF Fields, NetworkEventAckDTO
<1>4. /\ SerializeNetworkEventAck(m) = Concat(parts)
      /\ \A b : DeserializeNetworkEventAck(b) = FinishDecode(ReadFields(Reader(b), list))
  BY DEF SerializeNetworkEventAck, DeserializeNetworkEventAck
<1> HIDE DEF list, parts
<1>5. Layout(list, parts, m)
  BY <1>1, <1>2, <1>3 DEF Layout
<1>6. FieldsOf(list, m) = m
  BY <1>1, <1>2 DEF FieldsOf, Names, NetworkEventAckDTO
<1> QED
  BY <1>4, <1>5, <1>6, LayoutDecodes

LEMMA SnapshotAckRoundTrip ==
    ASSUME NEW m \in SnapshotAckDTO
    PROVE  /\ SerializeSnapshotAck(m) \in Seq(Byte)
           /\ DeserializeSnapshotAck(SerializeSnapshotAck(m)) = m
<1> DEFINE list == Fields(4, <<"clientId", "snapshotId", "baselineId", "ackedInputSequence">>)
                     \o Fields(8, <<"clientReceivedAtMs">>)
           parts == <<U32(m.clientId), U32(m.snapshotId), U32(m.baselineId),
                    U32(m.ackedInputSequence), U64(m.clientReceivedAtMs)>>
<1>1. Len(list) = 5 /\ Len(parts) = 5
  BY DEF Fields
<1>2. /\ list[1].name = "clientId" /\ list[2].name = "snapshotId"
      /\ list[3].name = "baselineId" /\ list[4].name = "ackedInputSequence"
      /\ list[5].name = "clientReceivedAtMs"
  BY FieldNames DEF Fields
<1>3. /\ Codes(parts[1], list[1], m.clientId) /\ Codes(parts[2], list[2], m.snapshotId)
      /\ Codes(parts[3], list[3], m.baselineId)
      /\ Codes(parts[4], list[4], m.ackedInputSequence)
      /\ Codes(parts[5], list[5], m.clientReceivedAtMs)
  BY FieldCodes DEF Fields, SnapshotAckDTO
<1>4. /\ SerializeSnapshotAck(m) = Concat(parts)
      /\ \A b : DeserializeSnapshotAck(b) = FinishDecode(ReadFields(Reader(b), list))
  BY DEF SerializeSnapshotAck, DeserializeSnapshotAck
<1> HIDE DEF list, parts
<1>5. Layout(list, parts, m)
  BY <1>1, <1>2, <1>3 DEF Layout
<1>6. FieldsOf(list, m) = m
  BY <1>1, <1>2 DEF FieldsOf, Names, SnapshotAckDTO
<1> QED
  BY <1>4, <1>5, <1>6, LayoutDecodes

(* The payload of an event reads back as the event.                         *)
PayloadReads(e) ==
    LET list == EventFields(e.kind)
    IN  /\ SerializeEventPayload(e) \in Seq(Byte)
        /\ \A tail \in Seq(Byte) : \A fields :
              ReadFields(At(SerializeEventPayload(e) \o tail, fields), list)
                = At(tail, FieldsOf(list, e))
        /\ With(FieldsOf(list, e), "kind", e.kind) = e

(* The payload of an event is read after its header and its kind.           *)
LEMMA LayoutPayload ==
    ASSUME NEW e, NEW list, NEW parts, EventFields(e.kind) = list,
           SerializeEventPayload(e) = Concat(parts), Layout(list, parts, e),
           With(FieldsOf(list, e), "kind", e.kind) = e
    PROVE  PayloadReads(e)
<1>1. Concat(parts) \in Seq(Byte)
  BY EmptySequence, LayoutReads, Zenon
<1>2. ASSUME NEW tail \in Seq(Byte), NEW fields
      PROVE  ReadFields(At(Concat(parts) \o tail, fields), list) = At(tail, FieldsOf(list, e))
  BY LayoutReads
<1> QED
  BY <1>1, <1>2 DEF PayloadReads

(* The payload of each kind of event reads back as it was.                  *)
LEMMA PlayerSpawnedReads ==
    ASSUME NEW e \in [kind : {"PlayerSpawned"}, entityId : Number, clientId : Number, x : Number,
                        y : Number]
    PROVE  PayloadReads(e)
<1> DEFINE list == Fields(4, <<"entityId", "clientId", "x", "y">>)
           parts == <<U32(e.entityId), U32(e.clientId), U32(e.x), U32(e.y)>>
<1>1. Len(list) = 4 /\ Len(parts) = 4
  BY DEF Fields
<1>2. /\ list[1].name = "entityId" /\ list[2].name = "clientId" /\ list[3].name = "x"
      /\ list[4].name = "y"
  BY FieldNames DEF Fields
<1>3. /\ Codes(parts[1], list[1], e.entityId) /\ Codes(parts[2], list[2], e.clientId)
      /\ Codes(parts[3], list[3], e.x) /\ Codes(parts[4], list[4], e.y)
  BY FieldCodes DEF Fields
<1>4. SerializeEventPayload(e) = Concat(parts) /\ EventFields(e.kind) = list
  BY DEF SerializeEventPayload, EventFields
<1> HIDE DEF list, parts
<1>5. Layout(list, parts, e)
  BY <1>1, <1>2, <1>3 DEF Layout
<1>6. With(FieldsOf(list, e), "kind", e.kind) = e
  BY <1>1, <1>2 DEF With, FieldsOf, Names
<1> QED
  BY <1>4, <1>5, <1>6, LayoutPayload

LEMMA WeaponWarmupStartedReads ==
    ASSUME NEW e \in [kind : {"WeaponWarmupStarted"}, entityId : Number, startedAtMs : Number,
                        completesAtMs : Number, weaponType : Range(WeaponType)]
    PROVE  PayloadReads(e)
<1> DEFINE list == Fields(4, <<"entityId">>) \o Fields(8, <<"startedAtMs", "completesAtMs">>)
                     \o <<EnumField("weaponType", WeaponType)>>
           parts == <<U32(e.entityId), U64(e.startedAtMs), U64(e.completesAtMs),
                    WriteEnum(WeaponType, e.weaponType)>>
<1>1. Len(list) = 4 /\ Len(parts) = 4
  BY DEF Fields
<1>2. /\ list[1].name = "entityId" /\ list[2].name = "startedAtMs"
      /\ list[3].name = "completesAtMs" /\ list[4].name = "weaponType"
  BY FieldNames DEF Fields
<1>3. /\ Codes(parts[1], list[1], e.entityId) /\ Codes(parts[2], list[2], e.startedAtMs)
      /\ Codes(parts[3], list[3], e.completesAtMs)
      /\ Codes(parts[4], list[4], e.weaponType)
  BY FieldCodes, EnumeratorCodes DEF Fields, Enumerations
<1>4. SerializeEventPayload(e) = Concat(parts) /\ EventFields(e.kind) = list
  BY DEF SerializeEventPayload, EventFields
<1> HIDE DEF list, parts
<1>5. Layout(list, parts, e)
  BY <1>1, <1>2, <1>3 DEF Layout
<1>6. With(FieldsOf(list, e), "kind", e.kind) = e
  BY <1>1, <1>2 DEF With, FieldsOf, Names
<1> QED
  BY <1>4, <1>5, <1>6, LayoutPayload

LEMMA BowFiredReads ==
    ASSUME NEW e \in [kind : {"BowFired"}, entityId : Number, firedAtMs : Number,
                        weaponType : Range(WeaponType)]
    PROVE  PayloadReads(e)
<1> DEFINE list == Fields(4, <<"entityId">>) \o Fields(8, <<"firedAtMs">>)
                     \o <<EnumField("weaponType", WeaponType)>>
           parts == <<U32(e.entityId), U64(e.firedAtMs), WriteEnum(WeaponType, e.weaponType)>>
<1>1. Len(list) = 3 /\ Len(parts) = 3
  BY DEF Fields
<1>2. /\ list[1].name = "entityId" /\ list[2].name = "firedAtMs"
      /\ list[3].name = "weaponType"
  BY FieldNames DEF Fields
<1>3. /\ Codes(parts[1], list[1], e.entityId) /\ Codes(parts[2], list[2], e.firedAtMs)
      /\ Codes(parts[3], list[3], e.weaponType)
  BY FieldCodes, EnumeratorCodes DEF Fields, Enumerations
<1>4. SerializeEventPayload(e) = Concat(parts) /\ EventFields(e.kind) = list
  BY DEF SerializeEventPayload, EventFields
<1> HIDE DEF list, parts
<1>5. Layout(list, parts, e)
  BY <1>1, <1>2, <1>3 DEF Layout
<1>6. With(FieldsOf(list, e), "kind", e.kind) = e
  BY <1>1, <1>2 DEF With, FieldsOf, Names
<1> QED
  BY <1>4, <1>5, <1>6, LayoutPayload

LEMMA ProjectileSpawnedReads ==
    ASSUME NEW e \in [kind : {"ProjectileSpawned"}, projectileId : Number, ownerId : Number, x : Number,
                        y : Number, sourceWeapon : Range(WeaponType)]
    PROVE  PayloadReads(e)
<1> DEFINE list == Fields(4, <<"projectileId", "ownerId", "x", "y">>)
                     \o <<EnumField("sourceWeapon", WeaponType)>>
           parts == <<U32(e.projectileId), U32(e.ownerId), U32(e.x), U32(e.y),
                    WriteEnum(WeaponType, e.sourceWeapon)>>
<1>1. Len(list) = 5 /\ Len(parts) = 5
  BY DEF Fields
<1>2. /\ list[1].name = "projectileId" /\ list[2].name = "ownerId" /\ list[3].name = "x"
      /\ list[4].name = "y" /\ list[5].name = "sourceWeapon"
  BY FieldNames DEF Fields
<1>3. /\ Codes(parts[1], list[1], e.projectileId) /\ Codes(parts[2], list[2], e.ownerId)
      /\ Codes(parts[3], list[3], e.x) /\ Codes(parts[4], list[4], e.y)
      /\ Codes(parts[5], list[5], e.sourceWeapon)
  BY FieldCodes, EnumeratorCodes DEF Fields, Enumerations
<1>4. SerializeEventPayload(e) = Concat(parts) /\ EventFields(e.kind) = list
  BY DEF SerializeEventPayload, EventFields
<1> HIDE DEF list, parts
<1>5. Layout(list, parts, e)
  BY <1>1, <1>2, <1>3 DEF Layout
<1>6. With(FieldsOf(list, e), "kind", e.kind) = e
  BY <1>1, <1>2 DEF With, FieldsOf, Names
<1> QED
  BY <1>4, <1>5, <1>6, LayoutPayload

LEMMA HitConfirmedReads ==
    ASSUME NEW e \in [kind : {"HitConfirmed"}, attackerId : Number, targetId : Number,
                        projectileId : Number, serverTimeMs : Number]
    PROVE  PayloadReads(e)
<1> DEFINE list == Fields(4, <<"attackerId", "targetId", "projectileId">>)
                     \o Fields(8, <<"serverTimeMs">>)
           parts == <<U32(e.attackerId), U32(e.targetId), U32(e.projectileId),
                    U64(e.serverTimeMs)>>
<1>1. Len(list) = 4 /\ Len(parts) = 4
  BY DEF Fields
<1>2. /\ list[1].name = "attackerId" /\ list[2].name = "targetId"
      /\ list[3].name = "projectileId" /\ list[4].name = "serverTimeMs"
  BY FieldNames DEF Fields
<1>3. /\ Codes(parts[1], list[1], e.attackerId) /\ Codes(parts[2], list[2], e.targetId)
      /\ Codes(parts[3], list[3], e.projectileId)
      /\ Codes(parts[4], list[4], e.serverTimeMs)
  BY FieldCodes DEF Fields
<1>4. SerializeEventPayload(e) = Concat(parts) /\ EventFields(e.kind) = list
  BY DEF SerializeEventPayload, EventFields
<1> HIDE DEF list, parts
<1>5. Layout(list, parts, e)
  BY <1>1, <1>2, <1>3 DEF Layout
<1>6. With(FieldsOf(list, e), "kind", e.kind) = e
  BY <1>1, <1>2 DEF With, FieldsOf, Names
<1> QED
  BY <1>4, <1>5, <1>6, LayoutPayload

LEMMA PlayerDamagedReads ==
    ASSUME NEW e \in [kind : {"PlayerDamaged"}, entityId : Number, attackerId : Number, damage : Number,
                        healthAfter : Number]
    PROVE  PayloadReads(e)
<1> DEFINE list == Fields(4, <<"entityId", "attackerId", "damage", "healthAfter">>)
           parts == <<U32(e.entityId), U32(e.attackerId), U32(e.damage), U32(e.healthAfter)>>
<1>1. Len(list) = 4 /\ Len(parts) = 4
  BY DEF Fields
<1>2. /\ list[1].name = "entityId" /\ list[2].name = "attackerId"
      /\ list[3].name = "damage" /\ list[4].name = "healthAfter"
  BY FieldNames DEF Fields
<1>3. /\ Codes(parts[1], list[1], e.entityId) /\ Codes(parts[2], list[2], e.attackerId)
      /\ Codes(parts[3], list[3], e.damage) /\ Codes(parts[4], list[4], e.healthAfter)
  BY FieldCodes DEF Fields
<1>4. SerializeEventPayload(e) = Concat(parts) /\ EventFields(e.kind) = list
  BY DEF SerializeEventPayload, EventFields
<1> HIDE DEF list, parts
<1>5. Layout(list, parts, e)
  BY <1>1, <1>2, <1>3 DEF Layout
<1>6. With(FieldsOf(list, e), "kind", e.kind) = e
  BY <1>1, <1>2 DEF With, FieldsOf, Names
<1> QED
  BY <1>4, <1>5, <1>6, LayoutPayload

LEMMA PlayerDiedReads ==
    ASSUME NEW e \in [kind : {"PlayerDied"}, entityId : Number, attackerId : Number,
                        respawnAtMs : Number]
    PROVE  PayloadReads(e)
<1> DEFINE list == Fields(4, <<"entityId", "attackerId">>) \o Fields(8, <<"respawnAtMs">>)
           parts == <<U32(e.entityId), U32(e.attackerId), U64(e.respawnAtMs)>>
<1>1. Len(list) = 3 /\ Len(parts) = 3
  BY DEF Fields
<1>2. /\ list[1].name = "entityId" /\ list[2].name = "attackerId"
      /\ list[3].name = "respawnAtMs"
  BY FieldNames DEF Fields
<1>3. /\ Codes(parts[1], list[1], e.entityId) /\ Codes(parts[2], list[2], e.attackerId)
      /\ Codes(parts[3], list[3], e.respawnAtMs)
  BY FieldCodes DEF Fields
<1>4. SerializeEventPayload(e) = Concat(parts) /\ EventFields(e.kind) = list
  BY DEF SerializeEventPayload, EventFields
<1> HIDE DEF list, parts
<1>5. Layout(list, parts, e)
  BY <1>1, <1>2, <1>3 DEF Layout
<1>6. With(FieldsOf(list, e), "kind", e.kind) = e
  BY <1>1, <1>2 DEF With, FieldsOf, Names
<1> QED
  BY <1>4, <1>5, <1>6, LayoutPayload

LEMMA PlayerRespawnedReads ==
    ASSUME NEW e \in [kind : {"PlayerRespawned"}, entityId : Number, x : Number, y : Number]
    PROVE  PayloadReads(e)
<1> DEFINE list == Fields(4, <<"entityId", "x", "y">>)
           parts == <<U32(e.entityId), U32(e.x), U32(e.y)>>
<1>1. Len(list) = 3 /\ Len(parts) = 3
  BY DEF Fields
<1>2. /\ list[1].name = "entityId" /\ list[2].name = "x" /\ list[3].name = "y"
  BY FieldNames DEF Fields
<1>3. /\ Codes(parts[1], list[1], e.entityId) /\ Codes(parts[2], list[2], e.x)
      /\ Codes(parts[3], list[3], e.y)
  BY FieldCodes DEF Fields
<1>4. SerializeEventPayload(e) = Concat(parts) /\ EventFields(e.kind) = list
  BY DEF SerializeEventPayload, EventFields
<1> HIDE DEF list, parts
<1>5. Layout(list, parts, e)
  BY <1>1, <1>2, <1>3 DEF Layout
<1>6. With(FieldsOf(list, e), "kind", e.kind) = e
  BY <1>1, <1>2 DEF With, FieldsOf, Names
<1> QED
  BY <1>4, <1>5, <1>6, LayoutPayload

LEMMA EntityInterestReads ==
    ASSUME NEW e \in [kind : {"EntityEnteredInterest", "EntityLeftInterest"}, entityId : Number, observerClientId : Number]
    PROVE  PayloadReads(e)
<1> DEFINE list == Fields(4, <<"entityId", "observerClientId">>)
           parts == <<U32(e.entityId), U32(e.observerClientId)>>
<1>1. Len(list) = 2 /\ Len(parts) = 2
  BY DEF Fields
<1>2. /\ list[1].name = "entityId" /\ list[2].name = "observerClientId"
  BY FieldNames DEF Fields
<1>3. /\ Codes(parts[1], list[1], e.entityId)
      /\ Codes(parts[2], list[2], e.observerClientId)
  BY FieldCodes DEF Fields
<1>4. SerializeEventPayload(e) = Concat(parts) /\ EventFields(e.kind) = list
  BY DEF SerializeEventPayload, EventFields
<1> HIDE DEF list, parts
<1>5. Layout(list, parts, e)
  BY <1>1, <1>2, <1>3 DEF Layout
<1>6. With(FieldsOf(list, e), "kind", e.kind) = e
  BY <1>1, <1>2 DEF With, FieldsOf, Names
<1> QED
  BY <1>4, <1>5, <1>6, LayoutPayload

(* So does the payload of any event.                                        *)
LEMMA EventPayloadReads ==
    ASSUME NEW e \in NetworkEventPayloadDTO
    PROVE  PayloadReads(e) /\ e.kind \in Range(NetworkEventKind)
<1>1. PayloadReads(e)
  BY PlayerSpawnedReads, WeaponWarmupStartedReads, BowFiredReads,
     ProjectileSpawnedReads, HitConfirmedReads, PlayerDamagedReads,
     PlayerDiedReads, PlayerRespawnedReads, EntityInterestReads DEF NetworkEventPayloadDTO
<1>2. e.kind \in Range(NetworkEventKind)
  BY DEF NetworkEventPayloadDTO, NetworkEventKind, Range
<1> QED
  BY <1>1, <1>2

(* A list of one field.                                                     *)
LEMMA OneReads ==
    ASSUME NEW bytes, NEW f, NEW v, Codes(bytes, f, v), NEW tail \in Seq(Byte), NEW fields
    PROVE  ReadFields(At(bytes \o tail, fields), <<f>>) = At(tail, With(NoFields, f.name, v))
<1> DEFINE list == <<f>>
           r == At(bytes \o tail, fields)
<1>1. Len(list) = 1 /\ list[1] = f
  OBVIOUS
<1> HIDE DEF list
<1>2. After(r, list, 0) = At(bytes \o tail, NoFields)
  <2>1. Having(r, NoFields) = At(bytes \o tail, NoFields)
    BY AtHaving
  <2> HIDE DEF r
  <2> QED
    BY <1>1, <2>1, ReadFieldsUnrolls
<1>3. ReadFields(r, list) = ReadField(After(r, list, 0), f)
  <2> HIDE DEF r
  <2>1. ReadFields(r, list) = After(r, list, 1)
    <3>1. Len(list) \in Nat
      BY <1>1
    <3>2. ReadFields(r, list) = After(r, list, Len(list))
      BY <3>1, ReadFieldsUnrolls
    <3> QED
      BY <1>1, <3>2
  <2>2. 1 \in 1..Len(list) /\ 1 - 1 = 0
    BY <1>1
  <2>3. After(r, list, 1) = ReadField(After(r, list, 1 - 1), list[1])
    BY <1>1, <2>2, ReadFieldsUnrolls
  <2> QED
    BY <1>1, <2>1, <2>2, <2>3
<1>4. ReadField(At(bytes \o tail, NoFields), f) = At(tail, With(NoFields, f.name, v))
  BY FieldReads
<1> QED
  BY <1>2, <1>3, <1>4 DEF list

LEMMA WithOne ==
    ASSUME NEW name, NEW v
    PROVE  With(NoFields, name, v)[name] = v
  BY DEF With, NoFields

(* SerializeNetworkEvent and DeserializeNetworkEvent: the kind that is read *)
(* first tells which fields follow.                                         *)
LEMMA NetworkEventRoundTrip ==
    ASSUME NEW m \in NetworkEventDTO
    PROVE  /\ SerializeNetworkEvent(m) \in Seq(Byte)
           /\ DeserializeNetworkEvent(SerializeNetworkEvent(m)) = m
<1> DEFINE list == Fields(4, <<"eventId">>) \o Fields(8, <<"serverTick", "serverTimeMs">>)
           parts == <<U32(m.eventId), U64(m.serverTick), U64(m.serverTimeMs)>>
           e == m.payload
           f == EnumField("kind", NetworkEventKind)
           k == WriteEnum(NetworkEventKind, e.kind)
           p == SerializeEventPayload(e)
           h == Concat(parts)
<1>1. Len(list) = 3 /\ Len(parts) = 3
  BY DEF Fields
<1>2. /\ list[1].name = "eventId" /\ list[2].name = "serverTick"
      /\ list[3].name = "serverTimeMs"
  BY FieldNames DEF Fields
<1>3. /\ Codes(parts[1], list[1], m.eventId) /\ Codes(parts[2], list[2], m.serverTick)
      /\ Codes(parts[3], list[3], m.serverTimeMs)
  BY FieldCodes DEF Fields, NetworkEventDTO
<1>4. /\ SerializeNetworkEvent(m) = (h \o k) \o p
      /\ \A b : DeserializeNetworkEvent(b) =
            LET header == ReadFields(Reader(b), list)
                kind == ReadFields(header, <<f>>)
                payload == ReadFields(kind, EventFields(kind.fields.kind))
                whole == With(header.fields, "payload",
                              With(payload.fields, "kind", kind.fields.kind))
            IN  IF kind.ok THEN FinishDecode(Having(payload, whole)) ELSE Refused
  BY DEF SerializeNetworkEvent, DeserializeNetworkEvent
<1> HIDE DEF list, parts
<1>5. Layout(list, parts, m)
  BY <1>1, <1>2, <1>3 DEF Layout
<1>6. PayloadReads(e) /\ e.kind \in Range(NetworkEventKind)
  BY EventPayloadReads DEF NetworkEventDTO
<1>7. Codes(k, f, e.kind) /\ f.name = "kind"
  BY <1>6, EnumeratorCodes, FieldNames DEF Enumerations
<1>8. With(FieldsOf(list, m), "payload", e) = m
  BY <1>1, <1>2 DEF With, FieldsOf, Names, NetworkEventDTO
<1> HIDE DEF f, k, h, p, e
<1>9. h \in Seq(Byte) /\ k \in Seq(Byte) /\ p \in Seq(Byte) /\ k \o p \in Seq(Byte)
  <2>1. h \in Seq(Byte)
    BY <1>5, EmptySequence, LayoutReads, Zenon DEF h
  <2>2. k \in Seq(Byte) /\ p \in Seq(Byte)
    BY <1>6, <1>7 DEF Codes, PayloadReads, p
  <2> QED
    BY <2>1, <2>2, ConcatInSeq
<1>10. (h \o k) \o p = h \o (k \o p) /\ (h \o k) \o p \in Seq(Byte)
  BY <1>9, ConcatAssociates, ConcatInSeq
<1>11. ReadFields(Reader((h \o k) \o p), list) = At(k \o p, FieldsOf(list, m))
  <2>1. Reader((h \o k) \o p) = At(h \o (k \o p), NoFields)
    BY <1>10 DEF Reader, At
  <2>2. ReadFields(At(h \o (k \o p), NoFields), list) = At(k \o p, FieldsOf(list, m))
    <3> DEFINE t == k \o p
    <3>1. t \in Seq(Byte)
      BY <1>9
    <3> HIDE DEF t
    <3>2. ReadFields(At(h \o t, NoFields), list) = At(t, FieldsOf(list, m))
      BY <1>5, <3>1, LayoutReads DEF h
    <3> QED
      BY <3>2 DEF t
  <2> QED
    BY <2>1, <2>2
<1> DEFINE header == ReadFields(Reader((h \o k) \o p), list)
           kind == ReadFields(header, <<f>>)
           payload == ReadFields(kind, EventFields(kind.fields.kind))
           none == With(NoFields, "kind", e.kind)
<1>12. kind = At(p, none)
  BY <1>7, <1>9, <1>11, OneReads
<1>13. kind.ok /\ kind.fields.kind = e.kind
  <2>1. none["kind"] = e.kind
    BY WithOne
  <2> HIDE DEF none, kind
  <2>2. kind.ok /\ kind.fields = none
    BY <1>12, AtParts
  <2> QED
    BY <2>1, <2>2
<1>14. payload = At(<<>>, FieldsOf(EventFields(e.kind), e))
  <2>1. p \o <<>> = p
    BY <1>9, EmptyConcat
  <2>2. <<>> \in Seq(Byte)
    BY EmptySequence
  <2>3. ReadFields(At(p \o <<>>, none), EventFields(e.kind)) = At(<<>>, FieldsOf(EventFields(e.kind), e))
    BY <1>6, <2>2, Zenon DEF PayloadReads, p
  <2> HIDE DEF none, kind
  <2> QED
    BY <1>12, <1>13, <2>1, <2>3
<1> HIDE DEF kind, payload
<1> DEFINE whole == With(header.fields, "payload", With(payload.fields, "kind", kind.fields.kind))
<1>15. whole = m
  <2>1. header.fields = FieldsOf(list, m) /\ payload.fields = FieldsOf(EventFields(e.kind), e)
    BY <1>11, <1>14, AtParts
  <2>2. With(payload.fields, "kind", kind.fields.kind) = e
    BY <1>6, <1>13, <2>1 DEF PayloadReads
  <2> HIDE DEF header
  <2> QED
    BY <1>8, <2>1, <2>2
<1>16. FinishDecode(Having(payload, whole)) = m
  <2> HIDE DEF whole
  <2>1. Having(payload, whole) = At(<<>>, m)
    BY <1>14, <1>15, AtHaving
  <2> QED
    BY <2>1, FinishAt
<1>17. DeserializeNetworkEvent((h \o k) \o p)
         = IF kind.ok THEN FinishDecode(Having(payload, whole)) ELSE Refused
  BY <1>4 DEF kind, payload
<1> HIDE DEF whole
<1> QED
  BY <1>4, <1>10, <1>13, <1>16, <1>17

(* The width of each kind of field.                                         *)
LEMMA FieldWidths ==
    /\ \A name, width : PodField(name, width).width = width
    /\ \A name : BoolField(name).width = 1
    /\ \A name, values : EnumField(name, values).width = 1
  BY DEF PodField, BoolField, EnumField

LEMMA CodesLength ==
    ASSUME NEW bytes, NEW f, NEW v, Codes(bytes, f, v)
    PROVE  Len(bytes) = f.width /\ bytes \in Seq(Byte)
  BY DEF Codes

LEMMA JoinedStep ==
    ASSUME NEW p, Len(p) \in Nat, NEW i \in Nat, NEW j \in 1..Len(p), j = i + 1,
           Joined(p, i) \in Seq(Byte), p[j] \in Seq(Byte)
    PROVE  /\ Joined(p, j) = Joined(p, i) \o p[j]
           /\ Len(Joined(p, j)) = Len(Joined(p, i)) + Len(p[j])
<1>1. j - 1 = i
  OBVIOUS
<1>2. Joined(p, j) = Joined(p, j - 1) \o p[j]
  BY ConcatUnrolls, Zenon
<1> DEFINE a == Joined(p, i)
           b == p[j]
<1>3. a \in Seq(Byte) /\ b \in Seq(Byte)
  OBVIOUS
<1> HIDE DEF a, b
<1>4. Len(a \o b) = Len(a) + Len(b)
  BY <1>3
<1> QED
  BY <1>1, <1>2, <1>4 DEF a, b

LEMMA JoinedLength ==
    ASSUME NEW p, Len(p) \in Nat, \A i \in 1..Len(p) : p[i] \in Seq(Byte)
    PROVE  \A i \in Nat : \A j \in 1..Len(p) :
             j = i + 1 => Len(Joined(p, j)) = Len(Joined(p, i)) + Len(p[j])
<1> SUFFICES ASSUME NEW i \in Nat, NEW j \in 1..Len(p), j = i + 1
             PROVE  Len(Joined(p, j)) = Len(Joined(p, i)) + Len(p[j])
  OBVIOUS
<1>1. \A k \in 0..Len(p) : Joined(p, k) \in Seq(Byte)
  BY JoinedBytes
<1>2. Joined(p, i) \in Seq(Byte) /\ p[j] \in Seq(Byte)
  BY <1>1
<1> QED
  BY <1>2, JoinedStep

(* The length of the first four parts of a join.                            *)
LEMMA ConcatLength4 ==
    ASSUME NEW p, NEW n \in Nat, Len(p) = n, n >= 4, \A i \in 1..n : p[i] \in Seq(Byte)
    PROVE  Len(Joined(p, 4)) = Len(p[1]) + Len(p[2]) + Len(p[3]) + Len(p[4])
<1> DEFINE L(i) == Len(Joined(p, i))
<1>1. \A i \in Nat : \A j \in 1..n :
        j = i + 1 => Len(Joined(p, j)) = Len(Joined(p, i)) + Len(p[j])
  BY JoinedLength, Zenon
<1>2. L(0) = 0
  <2>1. Joined(p, 0) = <<>>
    BY ConcatUnrolls, Zenon
  <2>2. Len(<<>>) = 0
    OBVIOUS
  <2> QED
    BY <2>1, <2>2
<1>3. Len(p[1]) \in Nat
  OBVIOUS
<1>4. L(1) = L(0) + Len(p[1])
  BY <1>1
<1>5. L(2) = L(1) + Len(p[2])
  BY <1>1
<1>6. L(3) = L(2) + Len(p[3])
  BY <1>1
<1>7. L(4) = L(3) + Len(p[4])
  BY <1>1
<1> HIDE DEF L
<1>8. L(1) = Len(p[1])
  <2> DEFINE x == Len(p[1])
  <2> HIDE DEF x
  <2>1. x \in Nat /\ L(1) = 0 + x
    BY <1>2, <1>3, <1>4 DEF x
  <2>2. L(1) = x
    BY <2>1
  <2> QED
    BY <2>2 DEF x
<1>9. L(2) = Len(p[1]) + Len(p[2])
  BY <1>8, <1>5, Zenon
<1>10. L(3) = Len(p[1]) + Len(p[2]) + Len(p[3])
  BY <1>9, <1>6, Zenon
<1>11. L(4) = Len(p[1]) + Len(p[2]) + Len(p[3]) + Len(p[4])
  BY <1>10, <1>7, Zenon
<1> QED
  BY <1>11, Zenon DEF L

LEMMA ConcatLength7 ==
    ASSUME NEW p, NEW n \in Nat, Len(p) = n, n >= 7, \A i \in 1..n : p[i] \in Seq(Byte)
    PROVE  Len(Joined(p, 7)) = Len(p[1]) + Len(p[2]) + Len(p[3]) + Len(p[4])
                                + Len(p[5]) + Len(p[6]) + Len(p[7])
<1> DEFINE L(i) == Len(Joined(p, i))
<1>1. \A i \in Nat : \A j \in 1..n :
        j = i + 1 => Len(Joined(p, j)) = Len(Joined(p, i)) + Len(p[j])
  BY JoinedLength, Zenon
<1>2. L(0) = 0
  <2>1. Joined(p, 0) = <<>>
    BY ConcatUnrolls, Zenon
  <2>2. Len(<<>>) = 0
    OBVIOUS
  <2> QED
    BY <2>1, <2>2
<1>3. Len(p[1]) \in Nat
  OBVIOUS
<1>4. L(1) = L(0) + Len(p[1])
  BY <1>1
<1>5. L(2) = L(1) + Len(p[2])
  BY <1>1
<1>6. L(3) = L(2) + Len(p[3])
  BY <1>1
<1>7. L(4) = L(3) + Len(p[4])
  BY <1>1
<1>8. L(5) = L(4) + Len(p[5])
  BY <1>1
<1>9. L(6) = L(5) + Len(p[6])
  BY <1>1
<1>10. L(7) = L(6) + Len(p[7])
  BY <1>1
<1> HIDE DEF L
<1>11. L(1) = Len(p[1])
  <2> DEFINE x == Len(p[1])
  <2> HIDE DEF x
  <2>1. x \in Nat /\ L(1) = 0 + x
    BY <1>2, <1>3, <1>4 DEF x
  <2>2. L(1) = x
    BY <2>1
  <2> QED
    BY <2>2 DEF x
<1>12. L(2) = Len(p[1]) + Len(p[2])
  BY <1>11, <1>5, Zenon
<1>13. L(3) = Len(p[1]) + Len(p[2]) + Len(p[3])
  BY <1>12, <1>6, Zenon
<1>14. L(4) = Len(p[1]) + Len(p[2]) + Len(p[3]) + Len(p[4])
  BY <1>13, <1>7, Zenon
<1>15. L(5) = Len(p[1]) + Len(p[2]) + Len(p[3]) + Len(p[4]) + Len(p[5])
  BY <1>14, <1>8, Zenon
<1>16. L(6) = Len(p[1]) + Len(p[2]) + Len(p[3]) + Len(p[4]) + Len(p[5]) + Len(p[6])
  BY <1>15, <1>9, Zenon
<1>17. L(7) = Len(p[1]) + Len(p[2]) + Len(p[3]) + Len(p[4])
                                + Len(p[5]) + Len(p[6]) + Len(p[7])
  BY <1>16, <1>10, Zenon
<1> QED
  BY <1>17, Zenon DEF L

(* A part of an entity that is one list of fields reads back as it was.     *)
LEMMA LayoutPart ==
    ASSUME NEW list, NEW parts, NEW m, Layout(list, parts, m), FieldsOf(list, m) = m
    PROVE  /\ Concat(parts) \in Seq(Byte)
           /\ \A tail \in Seq(Byte) : \A fields :
                ReadFields(At(Concat(parts) \o tail, fields), list) = At(tail, m)
<1>1. Concat(parts) \in Seq(Byte)
  BY EmptySequence, LayoutReads, Zenon
<1>2. ASSUME NEW tail \in Seq(Byte), NEW fields
      PROVE  ReadFields(At(Concat(parts) \o tail, fields), list) = At(tail, m)
  BY LayoutReads
<1> QED
  BY <1>1, <1>2

(* WriteMovement and ReadMovement.                                          *)
LEMMA MovementReads ==
    ASSUME NEW m \in MovementStateDTO
    PROVE  /\ WriteMovement(m) \in Seq(Byte)
           /\ Len(WriteMovement(m)) = 24
           /\ \A tail \in Seq(Byte) : \A fields :
                ReadMovement(At(WriteMovement(m) \o tail, fields)) = At(tail, m)
<1> DEFINE list == Fields(4, <<"entityId", "x", "y", "vx", "vy">>)
                     \o Fields(2, <<"aimX", "aimY">>)
           parts == <<U32(m.entityId), U32(m.x), U32(m.y), U32(m.vx), U32(m.vy), U16(m.aimX),
                    U16(m.aimY)>>
<1>1. Len(list) = 7 /\ Len(parts) = 7
  BY DEF Fields
<1>2. /\ list[1].name = "entityId" /\ list[2].name = "x" /\ list[3].name = "y"
      /\ list[4].name = "vx" /\ list[5].name = "vy" /\ list[6].name = "aimX"
      /\ list[7].name = "aimY"
  BY FieldNames DEF Fields
<1>3. /\ Codes(parts[1], list[1], m.entityId) /\ Codes(parts[2], list[2], m.x)
      /\ Codes(parts[3], list[3], m.y) /\ Codes(parts[4], list[4], m.vx)
      /\ Codes(parts[5], list[5], m.vy) /\ Codes(parts[6], list[6], m.aimX)
      /\ Codes(parts[7], list[7], m.aimY)
  BY FieldCodes DEF Fields, MovementStateDTO
<1>4. WriteMovement(m) = Concat(parts) /\ \A r : ReadMovement(r) = ReadFields(r, list)
  BY DEF WriteMovement, ReadMovement
<1>8. /\ list[1].width = 4 /\ list[2].width = 4 /\ list[3].width = 4 /\ list[4].width = 4
      /\ list[5].width = 4 /\ list[6].width = 2 /\ list[7].width = 2
  BY FieldWidths DEF Fields
<1> HIDE DEF list, parts
<1>5. Layout(list, parts, m)
  BY <1>1, <1>2, <1>3 DEF Layout
<1>6. FieldsOf(list, m) = m
  BY <1>1, <1>2 DEF FieldsOf, Names, MovementStateDTO
<1>7. Len(Concat(parts)) = 24
  <2>0. \A p : Len(p) \in Nat => Concat(p) = Joined(p, Len(p))
    BY ConcatUnrolls, Zenon
  <2>1. \A i \in 1..Len(parts) : parts[i] \in Seq(Byte)
    BY <1>5 DEF Layout, Codes
  <2>2. /\ Len(parts[1]) = 4 /\ Len(parts[2]) = 4 /\ Len(parts[3]) = 4
        /\ Len(parts[4]) = 4 /\ Len(parts[5]) = 4 /\ Len(parts[6]) = 2
        /\ Len(parts[7]) = 2
    BY <1>3, <1>8, CodesLength, Zenon
  <2> DEFINE n == Len(parts)
  <2>3. /\ n \in Nat /\ n >= 7 /\ Len(parts) = n
        /\ \A i \in 1..n : parts[i] \in Seq(Byte)
    BY <1>1, <2>1
  <2> HIDE DEF n
  <2>4. Len(Joined(parts, 7)) = Len(parts[1]) + Len(parts[2]) + Len(parts[3]) + Len(parts[4])
                                     + Len(parts[5]) + Len(parts[6]) + Len(parts[7])
    BY <2>3, ConcatLength7, Zenon
  <2>5. Concat(parts) = Joined(parts, 7)
    BY <1>1, <2>0, <2>3, Zenon
  <2> QED
    BY <2>2, <2>4, <2>5
<1> QED
  BY <1>4, <1>5, <1>6, <1>7, LayoutPart

(* WriteCombat and ReadCombat.                                              *)
LEMMA CombatReads ==
    ASSUME NEW m \in CombatStateDTO
    PROVE  /\ WriteCombat(m) \in Seq(Byte)
           /\ \A tail \in Seq(Byte) : \A fields :
                ReadCombat(At(WriteCombat(m) \o tail, fields)) = At(tail, m)
<1> DEFINE list == Fields(4, <<"entityId", "health", "maxHealth">>)
                     \o <<EnumField("weaponType", WeaponType), BoolField("weaponWarming"),
                          PodField("weaponWarmupCompletesAtMs", 8), BoolField("defeated"),
                          PodField("respawnAtMs", 8), BoolField("serverOwnedProjectile"),
                          PodField("projectileOwnerId", 4)>>
           parts == <<U32(m.entityId), U32(m.health), U32(m.maxHealth),
                    WriteEnum(WeaponType, m.weaponType), WriteBool(m.weaponWarming),
                    U64(m.weaponWarmupCompletesAtMs), WriteBool(m.defeated),
                    U64(m.respawnAtMs), WriteBool(m.serverOwnedProjectile),
                    U32(m.projectileOwnerId)>>
<1>1. Len(list) = 10 /\ Len(parts) = 10
  BY DEF Fields
<1>2. /\ list[1].name = "entityId" /\ list[2].name = "health"
      /\ list[3].name = "maxHealth" /\ list[4].name = "weaponType"
      /\ list[5].name = "weaponWarming" /\ list[6].name = "weaponWarmupCompletesAtMs"
      /\ list[7].name = "defeated" /\ list[8].name = "respawnAtMs"
      /\ list[9].name = "serverOwnedProjectile" /\ list[10].name = "projectileOwnerId"
  BY FieldNames DEF Fields
<1>3. /\ Codes(parts[1], list[1], m.entityId) /\ Codes(parts[2], list[2], m.health)
      /\ Codes(parts[3], list[3], m.maxHealth) /\ Codes(parts[4], list[4], m.weaponType)
      /\ Codes(parts[5], list[5], m.weaponWarming)
      /\ Codes(parts[6], list[6], m.weaponWarmupCompletesAtMs)
      /\ Codes(parts[7], list[7], m.defeated) /\ Codes(parts[8], list[8], m.respawnAtMs)
      /\ Codes(parts[9], list[9], m.serverOwnedProjectile)
      /\ Codes(parts[10], list[10], m.projectileOwnerId)
  BY FieldCodes, EnumeratorCodes DEF Fields, CombatStateDTO, Enumerations
<1>4. WriteCombat(m) = Concat(parts) /\ \A r : ReadCombat(r) = ReadFields(r, list)
  BY DEF WriteCombat, ReadCombat
<1> HIDE DEF list, parts
<1>5. Layout(list, parts, m)
  BY <1>1, <1>2, <1>3 DEF Layout
<1>6. FieldsOf(list, m) = m
  BY <1>1, <1>2 DEF FieldsOf, Names, CombatStateDTO
<1> QED
  BY <1>4, <1>5, <1>6, LayoutPart

(* WriteReplication and ReadReplication.                                    *)
LEMMA ReplicationReads ==
    ASSUME NEW m \in ReplicationStateDTO
    PROVE  /\ WriteReplication(m) \in Seq(Byte)
           /\ Len(WriteReplication(m)) = 10
           /\ \A tail \in Seq(Byte) : \A fields :
                ReadReplication(At(WriteReplication(m) \o tail, fields)) = At(tail, m)
<1> DEFINE list == Fields(4, <<"entityId", "ownerClientId">>)
                     \o <<EnumField("kind", ReplicatedEntityKind),
                          EnumField("priority", SnapshotPriority)>>
           parts == <<U32(m.entityId), U32(m.ownerClientId),
                    WriteEnum(ReplicatedEntityKind, m.kind),
                    WriteEnum(SnapshotPriority, m.priority)>>
<1>1. Len(list) = 4 /\ Len(parts) = 4
  BY DEF Fields
<1>2. /\ list[1].name = "entityId" /\ list[2].name = "ownerClientId"
      /\ list[3].name = "kind" /\ list[4].name = "priority"
  BY FieldNames DEF Fields
<1>3. /\ Codes(parts[1], list[1], m.entityId) /\ Codes(parts[2], list[2], m.ownerClientId)
      /\ Codes(parts[3], list[3], m.kind) /\ Codes(parts[4], list[4], m.priority)
  BY FieldCodes, EnumeratorCodes DEF Fields, ReplicationStateDTO, Enumerations
<1>4. WriteReplication(m) = Concat(parts) /\ \A r : ReadReplication(r) = ReadFields(r, list)
  BY DEF WriteReplication, ReadReplication
<1>8. /\ list[1].width = 4 /\ list[2].width = 4 /\ list[3].width = 1 /\ list[4].width = 1
  BY FieldWidths DEF Fields
<1> HIDE DEF list, parts
<1>5. Layout(list, parts, m)
  BY <1>1, <1>2, <1>3 DEF Layout
<1>6. FieldsOf(list, m) = m
  BY <1>1, <1>2 DEF FieldsOf, Names, ReplicationStateDTO
<1>7. Len(Concat(parts)) = 10
  <2>0. \A p : Len(p) \in Nat => Concat(p) = Joined(p, Len(p))
    BY ConcatUnrolls
  <2>1. \A i \in 1..Len(parts) : parts[i] \in Seq(Byte)
    BY <1>5 DEF Layout, Codes
  <2>2. /\ Len(parts[1]) = 4 /\ Len(parts[2]) = 4 /\ Len(parts[3]) = 1
        /\ Len(parts[4]) = 1
    BY <1>3, <1>8, CodesLength, Zenon
  <2> DEFINE n == Len(parts)
  <2>3. /\ n \in Nat /\ n >= 4 /\ Len(parts) = n
        /\ \A i \in 1..n : parts[i] \in Seq(Byte)
    BY <1>1, <2>1
  <2> HIDE DEF n
  <2>4. Len(Joined(parts, 4)) = Len(parts[1]) + Len(parts[2]) + Len(parts[3]) + Len(parts[4])
    BY <2>3, ConcatLength4, Zenon
  <2>5. Concat(parts) = Joined(parts, 4)
    BY <1>1, <2>0, <2>3, Zenon
  <2> QED
    BY <2>2, <2>4, <2>5
<1> QED
  BY <1>4, <1>5, <1>6, <1>7, LayoutPart

Associates(a, b, c, d, t) == (((a \o b) \o c) \o d) \o t = a \o (b \o (c \o (d \o t)))

(* Five parts join to the same bytes however they are put together.         *)
LEMMA FiveAssociate ==
    ASSUME NEW S, NEW a \in Seq(S), NEW b \in Seq(S), NEW c \in Seq(S), NEW d \in Seq(S),
           NEW t \in Seq(S)
    PROVE  /\ ((a \o b) \o c) \o d \in Seq(S)
           /\ Len(((a \o b) \o c) \o d) = Len(a) + Len(b) + Len(c) + Len(d)
           /\ Associates(a, b, c, d, t)
<1> DEFINE ab == a \o b
           abc == ab \o c
           abcd == abc \o d
           dt == d \o t
           cdt == c \o dt
           bcdt == b \o cdt
<1>1. ab \in Seq(S) /\ dt \in Seq(S)
  BY ConcatInSeq
<1>2. abc \in Seq(S) /\ cdt \in Seq(S)
  <2> HIDE DEF ab, dt
  <2> QED
    BY <1>1, ConcatInSeq
<1>3. abcd \in Seq(S) /\ bcdt \in Seq(S)
  <2> HIDE DEF abc, cdt
  <2> QED
    BY <1>2, ConcatInSeq
<1>4. Len(abcd) = Len(a) + Len(b) + Len(c) + Len(d)
  <2>1. Len(ab) = Len(a) + Len(b)
    BY ConcatInSeq
  <2>2. Len(abc) = Len(ab) + Len(c)
    <3> HIDE DEF ab
    <3> QED
      BY <1>1, ConcatInSeq
  <2>3. Len(abcd) = Len(abc) + Len(d)
    <3> HIDE DEF abc
    <3> QED
      BY <1>2, ConcatInSeq
  <2> HIDE DEF ab, abc, abcd
  <2> QED
    BY <2>1, <2>2, <2>3, Zenon
<1>5. abcd \o t = abc \o dt
  <2>1. abc \in Seq(S)
    BY <1>2
  <2> HIDE DEF abc
  <2> QED
    BY <2>1, ConcatAssociates, SMTT(30)
<1>6. abc \o dt = ab \o cdt
  <2>1. ab \in Seq(S) /\ dt \in Seq(S)
    BY <1>1
  <2>2. ASSUME NEW x \in Seq(S), NEW y \in Seq(S) PROVE (x \o c) \o y = x \o (c \o y)
    BY SMTT(30)
  <2> HIDE DEF ab, dt
  <2> QED
    BY <2>1, <2>2, Zenon
<1>7. ab \o cdt = a \o bcdt
  <2>1. cdt \in Seq(S)
    BY <1>2
  <2>2. ASSUME NEW y \in Seq(S) PROVE (a \o b) \o y = a \o (b \o y)
    BY SMTT(30)
  <2> HIDE DEF cdt
  <2> QED
    BY <2>1, <2>2, Zenon
<1>8. abcd \o t = a \o bcdt
  <2> HIDE DEF ab, abc, abcd, dt, cdt, bcdt
  <2> QED
    BY <1>5, <1>6, <1>7, Zenon
<1>9. Associates(a, b, c, d, t)
  BY <1>8 DEF Associates
<1> QED
  BY <1>3, <1>4, <1>9

(* What reading an entity makes of the reads of its parts.                  *)
EntityRead(es, movement, has, combat, replication) ==
    IF ~replication.ok THEN Fail(es)
    ELSE Having(replication, Append(es.fields,
            [movement |-> movement.fields,
             combat |-> IF has.fields.hasCombat THEN <<combat.fields>> ELSE <<>>,
             replication |-> replication.fields]))

CombatRead(has) == IF has.ok /\ has.fields.hasCombat THEN ReadCombat(has) ELSE has

(* ReadEntity, one part of the entity after another.                        *)
LEMMA ReadEntitySteps ==
    ASSUME NEW r, NEW movement, movement = ReadMovement(r),
           NEW has, has = ReadFields(movement, <<BoolField("hasCombat")>>),
           NEW combat, combat = CombatRead(has)
    PROVE  ReadEntity(r) = EntityRead(r, movement, has, combat, ReadReplication(combat))
  BY DEF ReadEntity, EntityRead, CombatRead

(* The parts of an entity are what their types say.                         *)
LEMMA EntityParts ==
    ASSUME NEW e \in EntityStateDTO
    PROVE  /\ e.movement \in MovementStateDTO /\ e.replication \in ReplicationStateDTO
           /\ e.combat # <<>> => e.combat[1] \in CombatStateDTO /\ e.combat = <<e.combat[1]>>
           /\ e = [movement |-> e.movement, combat |-> e.combat, replication |-> e.replication]
<1>1. /\ e.movement \in MovementStateDTO /\ e.replication \in ReplicationStateDTO
      /\ e.combat \in Seq(CombatStateDTO) /\ Len(e.combat) <= 1
      /\ e = [movement |-> e.movement, combat |-> e.combat, replication |-> e.replication]
  BY DEF EntityStateDTO
<1>2. ASSUME NEW c \in Seq(CombatStateDTO), Len(c) <= 1, c # <<>>
      PROVE  c[1] \in CombatStateDTO /\ c = <<c[1]>>
  BY <1>2
<1> QED
  BY <1>1, <1>2

HasFields(v) == With(NoFields, "hasCombat", v)

(* The flag that tells whether a combat state follows reads back.           *)
LEMMA HasCombatReads ==
    ASSUME NEW v \in BOOLEAN
    PROVE  /\ HasFields(v).hasCombat = v
           /\ WriteBool(v) \in Seq(Byte) /\ Len(WriteBool(v)) = 1
           /\ \A t \in Seq(Byte) : \A fields :
                ReadFields(At(WriteBool(v) \o t, fields), <<BoolField("hasCombat")>>)
                  = At(t, HasFields(v))
<1> DEFINE f == BoolField("hasCombat")
           w == WriteBool(v)
<1>1. Codes(w, f, v)
  BY BoolCodes
<1>2. f.width = 1 /\ f.name = "hasCombat"
  BY FieldWidths, FieldNames
<1> HIDE DEF f, w
<1>3. ASSUME NEW t \in Seq(Byte), NEW fields
      PROVE  ReadFields(At(w \o t, fields), <<f>>) = At(t, HasFields(v))
  BY <1>1, <1>2, OneReads DEF HasFields
<1>4. HasFields(v).hasCombat = v
  BY WithOne DEF HasFields
<1>5. w \in Seq(Byte) /\ Len(w) = 1
  BY <1>1, <1>2, CodesLength, Zenon
<1> QED
  BY <1>3, <1>4, <1>5 DEF f, w

(* The bytes of an entity, by whether there is a combat state.              *)
LEMMA EntityBytes ==
    ASSUME NEW e \in EntityStateDTO
    PROVE  \E v \in BOOLEAN : \E c \in Seq(Byte) :
             /\ WriteEntity(e) = ((WriteMovement(e.movement) \o WriteBool(v)) \o c)
                                   \o WriteReplication(e.replication)
             /\ \/ v = FALSE /\ c = <<>> /\ e.combat = <<>>
                \/ v = TRUE /\ c = WriteCombat(e.combat[1]) /\ e.combat # <<>>
<1>1. CASE e.combat = <<>>
  <2>1. WriteEntity(e) = ((WriteMovement(e.movement) \o WriteBool(FALSE)) \o <<>>)
                            \o WriteReplication(e.replication)
    BY <1>1, Zenon DEF WriteEntity
  <2>2. <<>> \in Seq(Byte)
    BY EmptySequence
  <2> QED
    BY <1>1, <2>1, <2>2, Zenon
<1>2. CASE e.combat # <<>>
  <2>1. WriteEntity(e) = ((WriteMovement(e.movement) \o WriteBool(TRUE))
                            \o WriteCombat(e.combat[1])) \o WriteReplication(e.replication)
    BY <1>2, Zenon DEF WriteEntity
  <2>2. WriteCombat(e.combat[1]) \in Seq(Byte)
    BY <1>2, EntityParts, CombatReads
  <2> QED
    BY <1>2, <2>1, <2>2, Zenon
<1> QED
  BY <1>1, <1>2, Zenon

(* WriteEntity and ReadEntity, with and without a combat state: the entity  *)
(* is appended to those read before.                                        *)
LEMMA EntityReads ==
    ASSUME NEW e \in EntityStateDTO
    PROVE  /\ WriteEntity(e) \in Seq(Byte) /\ Len(WriteEntity(e)) >= 35
           /\ \A t \in Seq(Byte) : \A es :
                ReadEntity(At(WriteEntity(e) \o t, es)) = At(t, Append(es, e))
<1>1. PICK v \in BOOLEAN, c \in Seq(Byte) :
        /\ WriteEntity(e) = ((WriteMovement(e.movement) \o WriteBool(v)) \o c)
                              \o WriteReplication(e.replication)
        /\ \/ v = FALSE /\ c = <<>> /\ e.combat = <<>>
           \/ v = TRUE /\ c = WriteCombat(e.combat[1]) /\ e.combat # <<>>
  BY EntityBytes, Zenon
<1>2. PICK m \in Seq(Byte) :
        /\ m = WriteMovement(e.movement) /\ Len(m) = 24
        /\ \A t \in Seq(Byte) : \A fields : ReadMovement(At(m \o t, fields)) = At(t, e.movement)
  BY EntityParts, MovementReads
<1>3. PICK q \in Seq(Byte) :
        /\ q = WriteReplication(e.replication) /\ Len(q) = 10
        /\ \A t \in Seq(Byte) : \A fields :
             ReadReplication(At(q \o t, fields)) = At(t, e.replication)
  BY EntityParts, ReplicationReads
<1>4. HasFields(v).hasCombat = v
  BY HasCombatReads
<1>5. PICK b \in Seq(Byte) :
        /\ b = WriteBool(v) /\ Len(b) = 1
        /\ \A t \in Seq(Byte) : \A fields :
             ReadFields(At(b \o t, fields), <<BoolField("hasCombat")>>) = At(t, HasFields(v))
  BY HasCombatReads
<1>6. WriteEntity(e) = ((m \o b) \o c) \o q
  BY <1>1, <1>2, <1>3, <1>5
<1>7. WriteEntity(e) \in Seq(Byte) /\ Len(WriteEntity(e)) >= 35
  <2>1. <<>> \in Seq(Byte)
    BY EmptySequence
  <2>2. /\ ((m \o b) \o c) \o q \in Seq(Byte)
        /\ Len(((m \o b) \o c) \o q) = Len(m) + Len(b) + Len(c) + Len(q)
    BY <2>1, FiveAssociate
  <2>4. Len(c) \in Nat
    OBVIOUS
  <2> DEFINE n == Len(c)
  <2> HIDE DEF n
  <2>5. Len(WriteEntity(e)) = 24 + 1 + n + 10 /\ n \in Nat
    BY <1>2, <1>3, <1>5, <1>6, <2>2, <2>4, Zenon DEF n
  <2>6. 24 + 1 + n + 10 >= 35
    BY <2>5
  <2> QED
    BY <1>6, <2>2, <2>5, <2>6, Zenon
<1>8. ASSUME NEW t \in Seq(Byte), NEW es
      PROVE  ReadEntity(At(WriteEntity(e) \o t, es)) = At(t, Append(es, e))
  <2> DEFINE qt == q \o t
             cqt == c \o qt
             bcqt == b \o cqt
             r == At(WriteEntity(e) \o t, es)
  <2>1. /\ (((m \o b) \o c) \o q) \o t = m \o bcqt
        /\ qt \in Seq(Byte) /\ cqt \in Seq(Byte) /\ bcqt \in Seq(Byte)
    <3>2. qt \in Seq(Byte)
      BY ConcatInSeq
    <3>3. cqt \in Seq(Byte)
      <4> HIDE DEF qt
      <4> QED
        BY <3>2, ConcatInSeq
    <3>4. bcqt \in Seq(Byte)
      <4> HIDE DEF cqt
      <4> QED
        BY <3>3, ConcatInSeq
    <3>5. (((m \o b) \o c) \o q) \o t = m \o bcqt
      <4>1. Associates(m, b, c, q, t)
        BY FiveAssociate
      <4> QED
        BY <4>1 DEF Associates
    <3> QED
      BY <3>2, <3>3, <3>4, <3>5
  <2>2. r = At(m \o bcqt, es)
    BY <1>6, <2>1
  <2> HIDE DEF bcqt
  <2>3. ReadMovement(r) = At(bcqt, e.movement)
    BY <1>2, <2>1, <2>2
  <2> HIDE DEF cqt
  <2> DEFINE has == At(cqt, HasFields(v))
  <2>4. ReadFields(At(bcqt, e.movement), <<BoolField("hasCombat")>>) = has
    BY <1>5, <2>1, Zenon DEF bcqt
  <2>14. has.ok /\ has.fields.hasCombat = v
    BY <1>4, AtParts
  <2> HIDE DEF has
  <2> HIDE DEF qt
  <2>5. PICK combat : /\ combat = CombatRead(has)
                      /\ \E f : combat = At(qt, f)
                      /\ v = TRUE => combat.fields = e.combat[1]
    <3>1. CASE v = FALSE /\ c = <<>> /\ e.combat = <<>>
      <4>1. CombatRead(has) = has
        BY <2>14, <3>1 DEF CombatRead
      <4>2. cqt = qt
        BY <2>1, <3>1, EmptyConcat DEF cqt
      <4> QED
        BY <3>1, <4>1, <4>2 DEF has
    <3>2. CASE v = TRUE /\ c = WriteCombat(e.combat[1]) /\ e.combat # <<>>
      <4>1. CombatRead(has) = ReadCombat(has)
        BY <2>14, <3>2 DEF CombatRead
      <4>2. PICK f : has = At(cqt, f)
        BY Zenon DEF has
      <4>3. cqt = WriteCombat(e.combat[1]) \o qt
        BY <3>2 DEF cqt
      <4>4. ReadCombat(At(WriteCombat(e.combat[1]) \o qt, f)) = At(qt, e.combat[1])
        BY <2>1, <3>2, EntityParts, CombatReads
      <4>5. CombatRead(has) = At(qt, e.combat[1])
        BY <4>1, <4>2, <4>3, <4>4
      <4>6. At(qt, e.combat[1]).fields = e.combat[1]
        BY AtParts
      <4> QED
        BY <4>5, <4>6
    <3> QED
      BY <1>1, <3>1, <3>2, Zenon
  <2>6. ReadReplication(combat) = At(t, e.replication)
    <3>1. PICK f : combat = At(qt, f)
      BY <2>5, Zenon
    <3> QED
      BY <1>3, <3>1 DEF qt
  <2> DEFINE movement == At(bcqt, e.movement)
             replication == At(t, e.replication)
  <2>7. ReadEntity(r) = EntityRead(r, movement, has, combat, replication)
    BY <2>3, <2>4, <2>5, <2>6, ReadEntitySteps
  <2>8. r.fields = es /\ movement.fields = e.movement
    BY AtParts
  <2>9. replication.ok /\ replication.fields = e.replication
    BY AtParts
  <2>10. Having(replication, Append(es, e)) = At(t, Append(es, e))
    BY AtHaving
  <2> HIDE DEF r, movement, replication
  <2>11. (IF v THEN <<combat.fields>> ELSE <<>>) = e.combat
    <3>1. CASE v = FALSE /\ e.combat = <<>>
      BY <3>1
    <3>2. CASE v = TRUE /\ e.combat # <<>>
      BY <2>5, <3>2, EntityParts
    <3> QED
      BY <1>1, <3>1, <3>2, Zenon
  <2>12. [movement |-> movement.fields,
          combat |-> IF has.fields.hasCombat THEN <<combat.fields>> ELSE <<>>,
          replication |-> replication.fields] = e
    <3>1. (IF has.fields.hasCombat THEN <<combat.fields>> ELSE <<>>) = e.combat
      BY <2>11, <2>14
    <3> QED
      BY <2>8, <2>9, <3>1, EntityParts
  <2>13. ReadEntity(r) = At(t, Append(es, e))
    BY <2>7, <2>8, <2>9, <2>10, <2>12, Zenon DEF EntityRead
  <2> QED
    BY <2>13 DEF r
<1> QED
  BY <1>7, <1>8

EntitiesStart(x) == Having(x, <<>>)
EntitiesPass(x, i, r) == ReadEntity(r)
EntityLoop == INSTANCE Iteration WITH Start <- EntitiesStart, Pass <- EntitiesPass

(* The reader after i of n entities, from the reader after their number.    *)
EntitiesAfter(count, n, i) == (CHOOSE g : EntityLoop!IsLoop(g, count, n))[i]

(* The loop over a snapshot's entities, one pass at a time.                 *)
LEMMA EntitiesUnroll ==
    ASSUME NEW count, NEW n \in Nat
    PROVE  /\ EntitiesAfter(count, n, 0) = Having(count, <<>>)
           /\ \A i \in 1..n : EntitiesAfter(count, n, i) = ReadEntity(EntitiesAfter(count, n, i - 1))
<1> DEFINE f == CHOOSE g : EntityLoop!IsLoop(g, count, n)
<1>1. f[0] = EntitiesStart(count) /\ \A i \in 1..n : f[i] = EntitiesPass(count, i, f[i - 1])
  BY EntityLoop!LoopUnrolls, Zenon
<1>2. \A i : f[i] = EntitiesAfter(count, n, i)
  BY DEF EntitiesAfter
<1> HIDE DEF f
<1> QED
  BY <1>1, <1>2 DEF EntitiesStart, EntitiesPass

(* The bytes of some entities.                                              *)
PartsOf(es) == [i \in DOMAIN es |-> WriteEntity(es[i])]

LEMMA OneField ==
    ASSUME NEW name, NEW width
    PROVE  Fields(width, <<name>>) = <<PodField(name, width)>>
  BY DEF Fields

(* When each entity is at least as long as the shortest, the check of the   *)
(* count lets all of them through.                                          *)
LEMMA DivFits ==
    ASSUME NEW x \in Nat, NEW n \in Nat, x >= 35 * n
    PROVE  ~ (n > x \div kMinSerializedEntityBytes)
<1>1. kMinSerializedEntityBytes = 35
  BY DEF kMinSerializedEntityBytes
<1>2. x = 35 * (x \div 35) + (x % 35) /\ x % 35 < 35 /\ x \div 35 \in Nat /\ x % 35 \in Nat
  OBVIOUS
<1>3. n <= x \div 35
  BY <1>2
<1> QED
  BY <1>1, <1>2, <1>3

LEMMA PrefixGrows ==
    ASSUME NEW S, NEW es \in Seq(S), NEW k \in 1..Len(es)
    PROVE  Append(SubSeq(es, 1, k - 1), es[k]) = SubSeq(es, 1, k)
  OBVIOUS

LEMMA PrefixEnds ==
    ASSUME NEW S, NEW es \in Seq(S)
    PROVE  SubSeq(es, 1, 0) = <<>> /\ SubSeq(es, 1, Len(es)) = es
  OBVIOUS

LEMMA PartsOfEntities ==
    ASSUME NEW es \in Seq(EntityStateDTO)
    PROVE  /\ Len(es) \in Nat /\ Len(PartsOf(es)) = Len(es)
           /\ \A i \in 1..Len(es) : /\ es[i] \in EntityStateDTO
                                   /\ PartsOf(es)[i] = WriteEntity(es[i])
                                   /\ PartsOf(es)[i] \in Seq(Byte)
                                   /\ Len(PartsOf(es)[i]) >= 35
<1>1. Len(es) \in Nat /\ DOMAIN es = 1..Len(es) /\ \A i \in 1..Len(es) : es[i] \in EntityStateDTO
  OBVIOUS
<1>2. \A i \in 1..Len(es) : PartsOf(es)[i] = WriteEntity(es[i])
  BY <1>1 DEF PartsOf
<1>3. \A i \in 1..Len(es) : WriteEntity(es[i]) \in Seq(Byte) /\ Len(WriteEntity(es[i])) >= 35
  BY <1>1, EntityReads
<1>4. PartsOf(es) \in [1..Len(es) -> Seq(Byte)]
  BY <1>1, <1>3 DEF PartsOf
<1>5. Len(PartsOf(es)) = Len(es)
  BY <1>1, <1>4, FunctionIsSequence
<1> QED
  BY <1>1, <1>2, <1>3, <1>5

(* The entities of a snapshot are no fewer bytes than the reader's check of *)
(* their count demands.                                                     *)
LEMMA EntitiesBytes ==
    ASSUME NEW es \in Seq(EntityStateDTO)
    PROVE  /\ \A k \in 0..Len(es) : Joined(PartsOf(es), k) \in Seq(Byte)
           /\ Concat(PartsOf(es)) = Joined(PartsOf(es), Len(es))
           /\ Concat(PartsOf(es)) \in Seq(Byte)
           /\ Len(Concat(PartsOf(es))) >= 35 * Len(es)
<1> DEFINE n == Len(es)
           p == PartsOf(es)
           T == {k \in 0..n : Len(Joined(p, k)) >= 35 * k}
<1>1. /\ n \in Nat /\ Len(p) = n
      /\ \A i \in 1..n : p[i] \in Seq(Byte) /\ Len(p[i]) >= 35
  BY PartsOfEntities
<1> HIDE DEF p, n
<1>2. \A k \in 0..n : Joined(p, k) \in Seq(Byte)
  BY <1>1, JoinedBytes
<1>3. Concat(p) = Joined(p, n) /\ Joined(p, 0) = <<>>
  BY <1>1, ConcatUnrolls, Zenon
<1>4. 0 \in T
  <2>1. Len(Joined(p, 0)) = 0
    BY <1>3, EmptySequence
  <2>2. 0 \in 0..n
    BY <1>1
  <2> QED
    BY <2>1, <2>2
<1>5. ASSUME NEW k \in 1..n, k - 1 \in T PROVE k \in T
  <2> DEFINE before == Len(Joined(p, k - 1))
             part == Len(p[k])
  <2>1. k - 1 \in Nat /\ k = (k - 1) + 1
    BY <1>1
  <2>2. Len(Joined(p, k)) = before + part
    BY <1>1, <2>1, JoinedLength, Zenon
  <2>3. before >= 35 * (k - 1) /\ part >= 35
    BY <1>1, <1>5
  <2>4. before \in Nat /\ part \in Nat
    <3>1. Joined(p, k - 1) \in Seq(Byte) /\ p[k] \in Seq(Byte)
      BY <1>1, <1>2, <2>1
    <3> QED
      BY <3>1
  <2> HIDE DEF before, part
  <2>5. before + part >= 35 * k
    BY <1>1, <2>3, <2>4
  <2> QED
    BY <1>1, <2>2, <2>5
<1>6. n \in T
  <2> HIDE DEF T
  <2>1. 0..n \subseteq T
    BY <1>1, <1>4, <1>5, InductionUpTo, Zenon
  <2> QED
    BY <1>1, <2>1
<1>7. Len(Joined(p, n)) >= 35 * n /\ Joined(p, n) \in Seq(Byte)
  BY <1>1, <1>2, <1>6
<1> QED
  BY <1>2, <1>3, <1>7 DEF p, n

(* The loop reads all the entities of a snapshot back, and nothing that     *)
(* follows them.                                                            *)
LEMMA EntitiesRead ==
    ASSUME NEW es \in Seq(EntityStateDTO), NEW fields
    PROVE  EntitiesAfter(At(Concat(PartsOf(es)), fields), Len(es), Len(es)) = At(<<>>, es)
<1> DEFINE n == Len(es)
           p == PartsOf(es)
           Start(k, t) == At(Joined(p, k) \o t, fields)
           Some(k) == SubSeq(es, 1, k)
           T == {k \in 0..n : \A t \in Seq(Byte) :
                   EntitiesAfter(Start(k, t), n, k) = At(t, Some(k))}
<1>1. /\ n \in Nat /\ Len(p) = n
      /\ \A i \in 1..n : /\ es[i] \in EntityStateDTO /\ p[i] = WriteEntity(es[i])
                        /\ p[i] \in Seq(Byte)
  BY PartsOfEntities
<1>2. /\ \A k \in 0..n : Joined(p, k) \in Seq(Byte)
      /\ Concat(p) = Joined(p, n) /\ Concat(p) \in Seq(Byte)
  BY EntitiesBytes
<1>3. /\ Some(0) = <<>> /\ Some(n) = es
      /\ \A k \in 1..n : Append(Some(k - 1), es[k]) = Some(k)
  BY PrefixEnds, PrefixGrows
<1> HIDE DEF p, n, Some
<1>4. 0 \in T
  <2>0. 0 \in 0..n
    BY <1>1
  <2> SUFFICES ASSUME NEW t \in Seq(Byte)
               PROVE  EntitiesAfter(Start(0, t), n, 0) = At(t, Some(0))
    BY <2>0
  <2>1. Joined(p, 0) \o t = t
    <3>1. Joined(p, 0) = <<>>
      BY <1>1, ConcatUnrolls, Zenon
    <3> QED
      BY <3>1, EmptyConcat
  <2>2. EntitiesAfter(Start(0, t), n, 0) = Having(At(t, fields), <<>>)
    BY <1>1, <2>1, EntitiesUnroll, Zenon
  <2> HIDE DEF Start
  <2> QED
    BY <1>3, <2>2, AtHaving
<1>5. ASSUME NEW k \in 1..n, k - 1 \in T PROVE k \in T
  <2>0. k \in 0..n /\ k - 1 \in 0..n
    BY <1>1
  <2> SUFFICES ASSUME NEW t \in Seq(Byte)
               PROVE  EntitiesAfter(Start(k, t), n, k) = At(t, Some(k))
    BY <2>0
  <2> DEFINE u == p[k] \o t
  <2>1. Joined(p, k) = Joined(p, k - 1) \o p[k]
    BY <1>1, ConcatUnrolls, Zenon
  <2>2. u \in Seq(Byte) /\ Joined(p, k) \o t = Joined(p, k - 1) \o u
    <3>1. PICK a \in Seq(Byte) : a = Joined(p, k - 1)
      BY <1>2, <2>0
    <3>2. PICK b \in Seq(Byte) : b = p[k]
      BY <1>1
    <3>3. (a \o b) \o t = a \o (b \o t) /\ b \o t \in Seq(Byte)
      OBVIOUS
    <3> QED
      BY <2>1, <3>1, <3>2, <3>3, Zenon
  <2>3. Start(k, t) = Start(k - 1, u)
    BY <2>2
  <2>4. EntitiesAfter(Start(k - 1, u), n, k - 1) = At(u, Some(k - 1))
    BY <1>5, <2>2, Zenon
  <2>5. EntitiesAfter(Start(k, t), n, k) = ReadEntity(At(u, Some(k - 1)))
    <3> HIDE DEF Start, u
    <3>1. EntitiesAfter(Start(k, t), n, k) = ReadEntity(EntitiesAfter(Start(k, t), n, k - 1))
      BY <1>1, EntitiesUnroll, Zenon
    <3> QED
      BY <2>3, <2>4, <3>1
  <2>6. ReadEntity(At(u, Some(k - 1))) = At(t, Append(Some(k - 1), es[k]))
    BY <1>1, EntityReads
  <2> HIDE DEF Start, u
  <2> QED
    BY <1>3, <2>5, <2>6, Zenon
<1>6. n \in T
  <2> HIDE DEF T
  <2>1. 0..n \subseteq T
    BY <1>1, <1>4, <1>5, InductionUpTo, Zenon
  <2> QED
    BY <1>1, <2>1
<1>7. EntitiesAfter(Start(n, <<>>), n, n) = At(<<>>, Some(n))
  BY <1>6, EmptySequence, Zenon
<1>8. Start(n, <<>>) = At(Concat(p), fields)
  BY <1>2, EmptyConcat
<1> HIDE DEF Start
<1> QED
  BY <1>3, <1>7, <1>8 DEF p, n

(* What decoding a snapshot makes of the reads of its parts.                *)
SnapshotRead(header, count, n, list) ==
    IF ~count.ok \/ n > Len(header.rest) \div kMinSerializedEntityBytes
    THEN Refused
    ELSE FinishDecode(Having(list, With(header.fields, "entities", list.fields)))

SnapshotHeader ==
    Fields(4, <<"snapshotId", "baselineId">>)
      \o <<EnumField("deliveryKind", SnapshotDeliveryKind)>>
      \o Fields(8, <<"serverTick", "serverTimeMs">>)
      \o Fields(4, <<"ackedInputSequence">>)

(* DeserializeSnapshot, one part after another.                             *)
LEMMA SnapshotSteps ==
    ASSUME NEW bytes, NEW header, header = ReadFields(Reader(bytes), SnapshotHeader),
           NEW count, count = ReadFields(header, <<PodField("entityCount", 4)>>),
           NEW n, n = count.fields.entityCount
    PROVE  DeserializeSnapshot(bytes) = SnapshotRead(header, count, n, EntitiesAfter(count, n, n))
<1> DEFINE h == ReadFields(Reader(bytes), SnapshotHeader)
           c == ReadFields(h, Fields(4, <<"entityCount">>))
           k == c.fields.entityCount
<1>1. DeserializeSnapshot(bytes) = SnapshotRead(h, c, k, EntitiesAfter(c, k, k))
  BY DEF DeserializeSnapshot, SnapshotRead, SnapshotHeader, EntitiesAfter, EntityLoop!IsLoop,
         EntitiesStart, EntitiesPass
<1>2. Fields(4, <<"entityCount">>) = <<PodField("entityCount", 4)>>
  BY OneField
<1>3. h = header /\ c = count /\ k = n
  BY <1>2
<1> HIDE DEF h, c, k
<1> QED
  BY <1>1, <1>3

(* SerializeSnapshot and DeserializeSnapshot, for any number of entities:   *)
(* the check of the count refuses no snapshot that was written.             *)
LEMMA SnapshotRoundTrip ==
    ASSUME NEW m \in SnapshotDTO
    PROVE  /\ SerializeSnapshot(m) \in Seq(Byte)
           /\ DeserializeSnapshot(SerializeSnapshot(m)) = m
<1> DEFINE list == SnapshotHeader
           parts == <<U32(m.snapshotId), U32(m.baselineId),
                    WriteEnum(SnapshotDeliveryKind, m.deliveryKind), U64(m.serverTick),
                    U64(m.serverTimeMs), U32(m.ackedInputSequence)>>
<1>1. Len(list) = 6 /\ Len(parts) = 6
  BY DEF Fields, SnapshotHeader
<1>2. /\ list[1].name = "snapshotId" /\ list[2].name = "baselineId"
      /\ list[3].name = "deliveryKind" /\ list[4].name = "serverTick"
      /\ list[5].name = "serverTimeMs" /\ list[6].name = "ackedInputSequence"
  BY FieldNames DEF Fields, SnapshotHeader
<1>3. /\ Codes(parts[1], list[1], m.snapshotId) /\ Codes(parts[2], list[2], m.baselineId)
      /\ Codes(parts[3], list[3], m.deliveryKind) /\ Codes(parts[4], list[4], m.serverTick)
      /\ Codes(parts[5], list[5], m.serverTimeMs)
      /\ Codes(parts[6], list[6], m.ackedInputSequence)
  BY FieldCodes, EnumeratorCodes DEF Fields, SnapshotHeader, SnapshotDTO, Enumerations
<1>4. SerializeSnapshot(m) = (Concat(parts) \o U32(Len(m.entities))) \o Concat(PartsOf(m.entities))
  BY DEF SerializeSnapshot, PartsOf
<1>5. m.entities \in Seq(EntityStateDTO) /\ Len(m.entities) \in Number
  BY DEF SnapshotDTO
<1> HIDE DEF list, parts
<1>6. Layout(list, parts, m)
  BY <1>1, <1>2, <1>3 DEF Layout
<1>7. With(FieldsOf(list, m), "entities", m.entities) = m
  BY <1>1, <1>2 DEF With, FieldsOf, Names, SnapshotDTO
<1>8. PICK n \in Number : n = Len(m.entities)
  BY <1>5
<1>9. PICK h \in Seq(Byte) :
        /\ h = Concat(parts)
        /\ \A t \in Seq(Byte) : \A fields :
             ReadFields(At(h \o t, fields), list) = At(t, FieldsOf(list, m))
  <2>1. Concat(parts) \in Seq(Byte)
    BY <1>6, EmptySequence, LayoutReads, Zenon
  <2>2. ASSUME NEW t \in Seq(Byte), NEW fields
        PROVE  ReadFields(At(Concat(parts) \o t, fields), list) = At(t, FieldsOf(list, m))
    BY <1>6, LayoutReads
  <2> QED
    BY <2>1, <2>2
<1>10. PICK k \in Seq(Byte) : k = U32(n) /\ Codes(k, PodField("entityCount", 4), n) /\ Len(k) = 4
  <2>1. Codes(U32(n), PodField("entityCount", 4), n)
    BY FieldCodes
  <2>2. U32(n) \in Seq(Byte) /\ Len(U32(n)) = 4
    <3>1. U32(n) \in Seq(Byte) /\ Len(U32(n)) = PodField("entityCount", 4).width
      BY <2>1, CodesLength, Zenon
    <3>2. PodField("entityCount", 4).width = 4
      BY FieldWidths
    <3> QED
      BY <3>1, <3>2, Zenon
  <2> QED
    BY <2>1, <2>2
<1>11. PICK b \in Seq(Byte) :
         /\ b = Concat(PartsOf(m.entities)) /\ Len(b) >= 35 * n
         /\ \A fields : EntitiesAfter(At(b, fields), n, n) = At(<<>>, m.entities)
  BY <1>5, <1>8, EntitiesBytes, EntitiesRead
<1>12. SerializeSnapshot(m) = (h \o k) \o b
  BY <1>4, <1>8, <1>9, <1>10, <1>11
<1>13. (h \o k) \o b = h \o (k \o b)
  OBVIOUS
<1>14. k \o b \in Seq(Byte) /\ Len(k \o b) = 4 + Len(b) /\ (h \o k) \o b \in Seq(Byte)
  BY <1>10, ConcatInSeq, Zenon
<1> DEFINE kb == k \o b
           hkb == (h \o k) \o b
           header == At(kb, FieldsOf(list, m))
           one == With(NoFields, "entityCount", n)
           count == At(b, one)
<1>15. Reader(hkb) = At(h \o kb, NoFields)
  BY <1>13 DEF Reader, At
<1>16. ReadFields(Reader(hkb), SnapshotHeader) = header
  <2>1. kb \in Seq(Byte)
    BY <1>14
  <2> HIDE DEF kb, hkb
  <2> QED
    BY <1>9, <1>15, <2>1 DEF list
<1>17. ReadFields(header, <<PodField("entityCount", 4)>>) = count
  <2>1. PodField("entityCount", 4).name = "entityCount"
    BY FieldNames
  <2> QED
    BY <1>10, <2>1, OneReads
<1>18. count.fields.entityCount = n /\ count.ok
  <2>1. one["entityCount"] = n
    BY WithOne
  <2> HIDE DEF one
  <2>2. count.fields = one /\ count.ok
    BY AtParts
  <2> HIDE DEF count
  <2> QED
    BY <2>1, <2>2
<1>19. header.rest = kb /\ header.fields = FieldsOf(list, m)
  <2> HIDE DEF kb
  <2> QED
    BY AtParts
<1>20. ~ (n > Len(kb) \div kMinSerializedEntityBytes)
  <2>1. PICK x \in Nat : x = Len(kb) /\ x >= 35 * n
    <3>1. PICK y \in Nat : y = Len(b) /\ y >= 35 * n
      BY <1>11
    <3>2. 4 + y \in Nat /\ 4 + y >= 35 * n
      BY <3>1 DEF Number
    <3> QED
      BY <1>14, <3>1, <3>2
  <2>2. n \in Nat
    BY DEF Number
  <2> HIDE DEF kb
  <2> QED
    BY <2>1, <2>2, DivFits
<1> DEFINE read == EntitiesAfter(count, n, n)
<1>21. read = At(<<>>, m.entities)
  BY <1>11
<1> HIDE DEF count, header, kb, hkb, read, one
<1>22. read.fields = m.entities
  BY <1>21, AtParts
<1>23. FinishDecode(Having(read, With(header.fields, "entities", read.fields))) = m
  <2>1. With(header.fields, "entities", read.fields) = m
    BY <1>7, <1>19, <1>22
  <2>2. Having(read, m) = At(<<>>, m)
    BY <1>21, AtHaving
  <2> QED
    BY <2>1, <2>2, FinishAt
<1>24. DeserializeSnapshot(hkb) = SnapshotRead(header, count, n, read)
  BY <1>16, <1>17, <1>18, SnapshotSteps DEF read
<1>25. SnapshotRead(header, count, n, read) = m
  BY <1>18, <1>19, <1>20, <1>23 DEF SnapshotRead
<1> QED
  BY <1>12, <1>14, <1>24, <1>25 DEF hkb

Failed(r) == r.ok = FALSE

(* What is read, when s has the bytes t after those of r: if r meets no     *)
(* error, s does the same and is left with t after what r is left with.     *)
Extends(r, s, t) ==
    \/ Failed(r)
    \/ \E rest \in Seq(Byte) : \E fields : r = At(rest, fields) /\ s = At(rest \o t, fields)

(* A field that can be read.                                                *)
Readable(f) == f.width \in Nat /\ Len(f.values) \in Nat

IsValue(f, v) ==
    IF f.type = "pod" THEN v \in Nat ELSE \E i \in 1..Len(f.values) : v = f.values[i]

(* The value v of f is at the front of rest, and tail is what follows.      *)
SplitAs(rest, f, tail, v) ==
    \A t \in Seq(Byte) : \A fields :
        ReadField(At(rest \o t, fields), f) = At(tail \o t, With(fields, f.name, v))

(* A reader that has failed stays so.                                       *)
LEMMA FailFails ==
    ASSUME NEW r
    PROVE  Failed(Fail(r))
  BY DEF Fail, Failed

(* Bytes are read as a natural number.                                      *)
LEMMA NumberOfIsNat ==
    ASSUME NEW bytes \in Seq(Byte)
    PROVE  NumberOf(bytes) \in Nat
<1>1. ASSUME NEW i \in Nat, i # 0 PROVE ByteAt(bytes, i) \in Nat
  <2>1. CASE i <= Len(bytes)
    <3>1. bytes[i] \in Byte
      BY <1>1, <2>1
    <3>2. \A x \in Byte : x \in Nat
      BY DEF Byte
    <3> QED
      BY <2>1, <3>1, <3>2 DEF ByteAt
  <2>2. CASE ~ (i <= Len(bytes))
    BY <2>2 DEF ByteAt
  <2> QED
    BY <2>1, <2>2
<1>2. ByteAt(bytes, 1) \in Nat /\ ByteAt(bytes, 2) \in Nat /\ ByteAt(bytes, 3) \in Nat
  BY <1>1
<1> QED
  BY <1>2 DEF NumberOf

(* The first bytes and the rest of them make the whole.                     *)
LEMMA SplitJoins ==
    ASSUME NEW S, NEW s \in Seq(S), NEW w \in Nat, w <= Len(s)
    PROVE  s = SubSeq(s, 1, w) \o SubSeq(s, w + 1, Len(s))
<1> DEFINE a == SubSeq(s, 1, w)
           b == SubSeq(s, w + 1, Len(s))
<1>1. a \in Seq(S) /\ Len(a) = w /\ \A i \in 1..w : a[i] = s[i]
  OBVIOUS
<1>2. b \in Seq(S) /\ Len(b) = Len(s) - w /\ \A i \in 1..(Len(s) - w) : b[i] = s[w + i]
  OBVIOUS
<1> HIDE DEF a, b
<1>3. a \o b \in Seq(S) /\ Len(a \o b) = Len(s)
  BY <1>1, <1>2, SMTT(30)
<1>4. ASSUME NEW i \in 1..Len(s) PROVE (a \o b)[i] = s[i]
  <2>1. CASE i <= w
    BY <1>1, <1>2, <2>1, SMTT(30)
  <2>2. CASE i > w
    <3>1. i - w \in 1..(Len(s) - w) /\ w + (i - w) = i
      BY <2>2
    <3>2. b[i - w] = s[i]
      BY <1>2, <3>1
    <3>3. (a \o b)[i] = b[i - w]
      BY <1>1, <1>2, <2>2, <3>1
    <3> QED
      BY <3>2, <3>3
  <2>3. i <= w \/ i > w
    OBVIOUS
  <2> QED
    BY <2>1, <2>2, <2>3, Zenon
<1> DEFINE c == a \o b
<1>5. c \in Seq(S) /\ Len(c) = Len(s) /\ \A i \in 1..Len(s) : c[i] = s[i]
  BY <1>3, <1>4
<1> HIDE DEF c
<1>6. c = s
  BY <1>5
<1> QED
  BY <1>6, Zenon DEF a, b, c

(* What is read from a longer buffer is read from its first bytes.          *)
LEMMA Splits ==
    ASSUME NEW rest \in Seq(Byte), NEW w \in Nat, ~ (Len(rest) < w)
    PROVE  \E bytes \in Seq(Byte) : \E tail \in Seq(Byte) :
             /\ rest = bytes \o tail /\ Len(bytes) = w
             /\ SubSeq(rest, 1, w) = bytes
<1>1. /\ SubSeq(rest, 1, w) \in Seq(Byte) /\ SubSeq(rest, w + 1, Len(rest)) \in Seq(Byte)
      /\ Len(SubSeq(rest, 1, w)) = w
  OBVIOUS
<1>2. rest = SubSeq(rest, 1, w) \o SubSeq(rest, w + 1, Len(rest))
  <2>1. w <= Len(rest)
    OBVIOUS
  <2> QED
    BY <2>1, SplitJoins, Zenon
<1> QED
  BY <1>1, <1>2, Zenon

(* A field that is read from some bytes is read the same when more follow   *)
(* them.                                                                    *)
LEMMA FieldSplits ==
    ASSUME NEW rest \in Seq(Byte), NEW fields, NEW f, Readable(f)
    PROVE  \/ Failed(ReadField(At(rest, fields), f))
           \/ \E tail \in Seq(Byte) : \E v : IsValue(f, v) /\ SplitAs(rest, f, tail, v)
<1> DEFINE r == At(rest, fields)
<1>1. r.ok /\ r.rest = rest
  BY AtParts
<1> HIDE DEF r
<1>2. CASE Len(rest) < f.width
  <2>1. ReadField(r, f) = Fail(r)
    BY <1>1, <1>2 DEF ReadField
  <2> QED
    BY <2>1, FailFails DEF r
<1>3. CASE ~ (Len(rest) < f.width)
  <2>1. PICK bytes \in Seq(Byte), tail \in Seq(Byte) :
          rest = bytes \o tail /\ Len(bytes) = f.width /\ SubSeq(rest, 1, f.width) = bytes
    BY <1>3, Splits, Zenon DEF Readable
  <2>2. PICK n \in Nat : n = NumberOf(bytes)
    BY NumberOfIsNat
  <2>3. ASSUME NEW v, Codes(bytes, f, v) PROVE SplitAs(rest, f, tail, v)
    <3> SUFFICES ASSUME NEW t \in Seq(Byte), NEW fs
                 PROVE  ReadField(At(rest \o t, fs), f) = At(tail \o t, With(fs, f.name, v))
      BY DEF SplitAs
    <3>1. (bytes \o tail) \o t = bytes \o (tail \o t)
      BY SMTT(30)
    <3>2. PICK u \in Seq(Byte) : u = tail \o t
      BY ConcatInSeq, Zenon
    <3>3. ReadField(At(bytes \o u, fs), f) = At(u, With(fs, f.name, v))
      BY <2>3, FieldReads
    <3> QED
      BY <2>1, <3>1, <3>2, <3>3
  <2>4. CASE f.type = "pod"
    <3>1. Codes(bytes, f, n) /\ IsValue(f, n)
      BY <2>1, <2>2, <2>4 DEF Codes, IsValue, Readable
    <3> QED
      BY <2>3, <3>1
  <2>5. CASE f.type # "pod" /\ ~ (n >= Len(f.values))
    <3> DEFINE v == f.values[n + 1]
    <3>1. n < Len(f.values) /\ n + 1 \in 1..Len(f.values)
      BY <2>5 DEF Readable
    <3>2. Codes(bytes, f, v)
      BY <2>1, <2>2, <2>5, <3>1 DEF Codes, Readable
    <3>3. IsValue(f, v)
      BY <2>5, <3>1 DEF IsValue
    <3> HIDE DEF v
    <3> QED
      BY <2>3, <3>2, <3>3
  <2>6. CASE f.type # "pod" /\ n >= Len(f.values)
    <3>1. ReadField(r, f) = Fail(r)
      BY <1>1, <1>3, <2>1, <2>2, <2>6, Zenon DEF ReadField
    <3> QED
      BY <3>1, FailFails DEF r
  <2> QED
    BY <2>4, <2>5, <2>6
<1> QED
  BY <1>2, <1>3

(* A failed reader reads no field.                                          *)
LEMMA FieldFails ==
    ASSUME NEW r, NEW f, Failed(r)
    PROVE  Failed(ReadField(r, f))
<1>1. ReadField(r, f) = Fail(r)
  BY DEF ReadField, Failed
<1> QED
  BY <1>1, FailFails

(* So a reader that did not fail on some bytes does the same when more      *)
(* follow, and has those left over.                                         *)
LEMMA FieldExtends ==
    ASSUME NEW r, NEW s, NEW t \in Seq(Byte), Extends(r, s, t), NEW f, Readable(f)
    PROVE  Extends(ReadField(r, f), ReadField(s, f), t)
<1>1. CASE Failed(r)
  BY <1>1, FieldFails DEF Extends
<1>2. CASE ~ (Failed(r))
  <2>1a. PICK rest \in Seq(Byte) : \E fields : r = At(rest, fields) /\ s = At(rest \o t, fields)
    BY <1>2 DEF Extends
  <2>1. PICK fields : r = At(rest, fields) /\ s = At(rest \o t, fields)
    BY <2>1a
  <2>2. CASE Failed(ReadField(r, f))
    BY <2>2 DEF Extends
  <2>3. CASE ~ (Failed(ReadField(r, f)))
    <3>1a. PICK tail \in Seq(Byte) : \E v : SplitAs(rest, f, tail, v)
      BY <2>1, <2>3, FieldSplits
    <3>1. PICK v : SplitAs(rest, f, tail, v)
      BY <3>1a
    <3> DEFINE w == With(fields, f.name, v)
    <3>2. ReadField(s, f) = At(tail \o t, w)
      BY <2>1, <3>1 DEF SplitAs
    <3>3. ReadField(r, f) = At(tail, w)
      <4>1. ReadField(At(rest \o <<>>, fields), f) = At(tail \o <<>>, w)
        BY <3>1, EmptySequence, Zenon DEF SplitAs
      <4>2. rest \o <<>> = rest /\ tail \o <<>> = tail
        BY EmptyConcat
      <4> QED
        BY <2>1, <4>1, <4>2
    <3> HIDE DEF w
    <3> QED
      BY <3>2, <3>3 DEF Extends
  <2> QED
    BY <2>2, <2>3
<1> QED
  BY <1>1, <1>2

LEMMA HavingExtends ==
    ASSUME NEW r, NEW s, NEW t \in Seq(Byte), Extends(r, s, t), NEW fields
    PROVE  Extends(Having(r, fields), Having(s, fields), t)
<1>1. CASE Failed(r)
  <2>1. Failed(Having(r, fields))
    BY <1>1 DEF Having, Failed
  <2> QED
    BY <2>1 DEF Extends
<1>2. CASE ~ (Failed(r))
  <2>1a. PICK rest \in Seq(Byte) : \E fs : r = At(rest, fs) /\ s = At(rest \o t, fs)
    BY <1>2 DEF Extends
  <2>1. PICK fs : r = At(rest, fs) /\ s = At(rest \o t, fs)
    BY <2>1a
  <2>2. Having(r, fields) = At(rest, fields) /\ Having(s, fields) = At(rest \o t, fields)
    BY <2>1, AtHaving
  <2> QED
    BY <2>2 DEF Extends
<1> QED
  BY <1>1, <1>2

FieldList(list) == Len(list) \in Nat /\ \A i \in 1..Len(list) : Readable(list[i])

(* The same for a list of fields.                                           *)
LEMMA ListFails ==
    ASSUME NEW r, Failed(r), NEW list, Len(list) \in Nat
    PROVE  Failed(ReadFields(r, list))
<1> DEFINE n == Len(list)
           T == {i \in 0..n : Failed(After(r, list, i))}
<1>1. 0 \in T
  <2>1. Failed(Having(r, NoFields))
    BY DEF Having, Failed
  <2> QED
    BY <2>1, ReadFieldsUnrolls
<1>2. ASSUME NEW i \in 1..n, i - 1 \in T PROVE i \in T
  <2>1. After(r, list, i) = ReadField(After(r, list, i - 1), list[i])
    BY ReadFieldsUnrolls, Zenon
  <2> QED
    BY <1>2, <2>1, FieldFails
<1>3. n \in T
  <2> HIDE DEF T
  <2>1. 0..n \subseteq T
    BY <1>1, <1>2, InductionUpTo, Zenon
  <2> QED
    BY <2>1
<1> QED
  BY <1>3, ReadFieldsUnrolls

LEMMA ListExtends ==
    ASSUME NEW r, NEW s, NEW t \in Seq(Byte), Extends(r, s, t), NEW list, FieldList(list)
    PROVE  Extends(ReadFields(r, list), ReadFields(s, list), t)
<1> DEFINE n == Len(list)
           T == {i \in 0..n : Extends(After(r, list, i), After(s, list, i), t)}
<1>0. n \in Nat /\ \A i \in 1..n : Readable(list[i])
  BY DEF FieldList
<1>1. 0 \in T
  <2>1. Extends(Having(r, NoFields), Having(s, NoFields), t)
    BY HavingExtends
  <2>2. After(r, list, 0) = Having(r, NoFields) /\ After(s, list, 0) = Having(s, NoFields)
    BY <1>0, ReadFieldsUnrolls
  <2> QED
    BY <1>0, <2>1, <2>2
<1>2. ASSUME NEW i \in 1..n, i - 1 \in T PROVE i \in T
  <2>1. /\ After(r, list, i) = ReadField(After(r, list, i - 1), list[i])
        /\ After(s, list, i) = ReadField(After(s, list, i - 1), list[i])
    BY <1>0, ReadFieldsUnrolls, Zenon
  <2>2. Extends(After(r, list, i - 1), After(s, list, i - 1), t)
    BY <1>2
  <2>3. Extends(After(r, list, i), After(s, list, i), t)
    BY <1>0, <2>1, <2>2, FieldExtends
  <2> QED
    BY <1>0, <2>3
<1>3. n \in T
  <2> HIDE DEF T
  <2>1. 0..n \subseteq T
    BY <1>0, <1>1, <1>2, InductionUpTo, Zenon
  <2> QED
    BY <1>0, <2>1
<1> QED
  BY <1>0, <1>3, ReadFieldsUnrolls

LEMMA OneUnrolls ==
    ASSUME NEW rest, NEW fields, NEW f
    PROVE  ReadFields(At(rest, fields), <<f>>) = ReadField(At(rest, NoFields), f)
<1> DEFINE list == <<f>>
           r == At(rest, fields)
<1>1. Len(list) = 1 /\ list[1] = f
  OBVIOUS
<1>2. Having(r, NoFields) = At(rest, NoFields)
  BY AtHaving
<1> HIDE DEF list, r
<1>3. Len(list) \in Nat
  BY <1>1
<1>4. ReadFields(r, list) = After(r, list, Len(list)) /\ After(r, list, 0) = Having(r, NoFields)
  BY <1>3, ReadFieldsUnrolls
<1>5. 1 \in 1..Len(list) /\ 1 - 1 = 0
  BY <1>1
<1>6. After(r, list, 1) = ReadField(After(r, list, 1 - 1), list[1])
  BY <1>3, <1>5, ReadFieldsUnrolls
<1>7. ReadFields(r, list) = ReadField(At(rest, NoFields), f)
  BY <1>1, <1>2, <1>4, <1>5, <1>6
<1> QED
  BY <1>7 DEF list, r

(* A list of one field, as SplitAs for the field.                           *)
OneSplitAs(rest, f, tail, v) ==
    \A t \in Seq(Byte) : \A fields :
        ReadFields(At(rest \o t, fields), <<f>>) = At(tail \o t, With(NoFields, f.name, v))

LEMMA OneSplits ==
    ASSUME NEW rest \in Seq(Byte), NEW fields, NEW f, Readable(f)
    PROVE  \/ Failed(ReadFields(At(rest, fields), <<f>>))
           \/ \E tail \in Seq(Byte) : \E v : IsValue(f, v) /\ OneSplitAs(rest, f, tail, v)
<1>1. ReadFields(At(rest, fields), <<f>>) = ReadField(At(rest, NoFields), f)
  BY OneUnrolls
<1>2. CASE Failed(ReadField(At(rest, NoFields), f))
  BY <1>1, <1>2
<1>3. CASE ~ Failed(ReadField(At(rest, NoFields), f))
  <2>1a. PICK tail \in Seq(Byte) : \E v : IsValue(f, v) /\ SplitAs(rest, f, tail, v)
    BY <1>3, FieldSplits
  <2>1. PICK v : IsValue(f, v) /\ SplitAs(rest, f, tail, v)
    BY <2>1a
  <2>2. OneSplitAs(rest, f, tail, v)
    <3> SUFFICES ASSUME NEW t \in Seq(Byte), NEW fs
                 PROVE  ReadFields(At(rest \o t, fs), <<f>>)
                          = At(tail \o t, With(NoFields, f.name, v))
      BY DEF OneSplitAs
    <3>1. ReadField(At(rest \o t, NoFields), f) = At(tail \o t, With(NoFields, f.name, v))
      BY <2>1 DEF SplitAs
    <3>2. PICK u : u = rest \o t
      BY Zenon
    <3>3. ReadFields(At(u, fs), <<f>>) = ReadField(At(u, NoFields), f)
      BY OneUnrolls
    <3> QED
      BY <3>1, <3>2, <3>3
  <2> QED
    BY <2>1, <2>2
<1> QED
  BY <1>2, <1>3

(* Finish accepts at most one of two readings where the second has more     *)
(* bytes left over: this is why no prefix of a payload decodes.             *)
LEMMA FinishExtends ==
    ASSUME NEW r, NEW s, NEW t \in Seq(Byte), t # <<>>, Extends(r, s, t)
    PROVE  FinishDecode(r) = Refused \/ FinishDecode(s) = Refused
<1>1. CASE Failed(r)
  BY <1>1 DEF FinishDecode, Failed
<1>2. CASE ~ Failed(r)
  <2>1a. PICK rest \in Seq(Byte) : \E fields : r = At(rest, fields) /\ s = At(rest \o t, fields)
    BY <1>2 DEF Extends
  <2>1. PICK fields : r = At(rest, fields) /\ s = At(rest \o t, fields)
    BY <2>1a
  <2>2. rest \o t # <<>>
    <3>1. Len(t) # 0 /\ Len(rest \o t) = Len(rest) + Len(t)
      OBVIOUS
    <3> QED
      BY <3>1, EmptySequence
  <2>3. PICK u : u = rest \o t
    BY Zenon
  <2>4. At(u, fields).rest # <<>>
    BY <2>2, <2>3, AtParts
  <2>5. FinishDecode(At(u, fields)) = Refused
    BY <2>4 DEF FinishDecode
  <2> QED
    BY <2>1, <2>3, <2>5
<1> QED
  BY <1>1, <1>2

(* A new reader of some bytes, and one of more.                             *)
LEMMA ReaderExtends ==
    ASSUME NEW b \in Seq(Byte), NEW t \in Seq(Byte)
    PROVE  Extends(Reader(b), Reader(b \o t), t)
<1>1. Reader(b) = At(b, NoFields) /\ Reader(b \o t) = At(b \o t, NoFields)
  BY DEF Reader, At
<1> QED
  BY <1>1 DEF Extends

LEMMA EnumerationLengths ==
    ASSUME NEW values \in Enumerations
    PROVE  Len(values) \in Nat
<1>1. Len(WeaponType) \in Nat
  BY DEF WeaponType
<1>2. Len(ReplicatedEntityKind) \in Nat
  BY DEF ReplicatedEntityKind
<1>3. Len(SnapshotPriority) \in Nat
  BY DEF SnapshotPriority
<1>4. Len(SnapshotDeliveryKind) \in Nat
  BY DEF SnapshotDeliveryKind
<1>5. Len(NetworkEventKind) \in Nat
  BY DEF NetworkEventKind
<1>6. Len(NetworkChannel) \in Nat
  BY DEF NetworkChannel
<1>7. Len(MessageClass) \in Nat
  BY DEF MessageClass
<1>8. Len(SignalKind) \in Nat
  BY DEF SignalKind
<1> QED
  BY <1>1, <1>2, <1>3, <1>4, <1>5, <1>6, <1>7, <1>8 DEF Enumerations

(* The fields of every DTO can be read.                                     *)
LEMMA ReadableFields ==
    /\ \A name : /\ Readable(PodField(name, 1)) /\ Readable(PodField(name, 2))
                 /\ Readable(PodField(name, 4)) /\ Readable(PodField(name, 8))
    /\ \A name : Readable(BoolField(name))
    /\ \A name : \A values \in Enumerations : Readable(EnumField(name, values))
<1>1. ASSUME NEW name, NEW width \in Nat PROVE Readable(PodField(name, width))
  BY DEF PodField, Readable
<1>2. ASSUME NEW name PROVE Readable(BoolField(name))
  BY DEF BoolField, Readable
<1>3. ASSUME NEW name, NEW values \in Enumerations PROVE Readable(EnumField(name, values))
  BY EnumerationLengths DEF EnumField, Readable
<1>4. 1 \in Nat /\ 2 \in Nat /\ 4 \in Nat /\ 8 \in Nat
  OBVIOUS
<1> QED
  BY <1>1, <1>2, <1>3, <1>4, Zenon

(* Of some bytes and the same with more after them, a DTO that is one list  *)
(* of fields decodes from at most one.                                      *)
LEMMA ListWhole ==
    ASSUME NEW list, FieldList(list), NEW b \in Seq(Byte), NEW t \in Seq(Byte), t # <<>>
    PROVE  \/ FinishDecode(ReadFields(Reader(b), list)) = Refused
           \/ FinishDecode(ReadFields(Reader(b \o t), list)) = Refused
<1> DEFINE r == Reader(b)
           s == Reader(b \o t)
<1>1. Extends(r, s, t)
  BY ReaderExtends
<1> HIDE DEF r, s
<1>2. Extends(ReadFields(r, list), ReadFields(s, list), t)
  BY <1>1, ListExtends
<1> QED
  BY <1>2, FinishExtends DEF r, s

(* So of each DTO.                                                          *)
LEMMA LoginCommandWhole ==
    ASSUME NEW b \in Seq(Byte), NEW t \in Seq(Byte), t # <<>>
    PROVE  DeserializeLoginCommand(b) = Refused \/ DeserializeLoginCommand(b \o t) = Refused
<1> DEFINE list == Fields(4, <<"clientId", "sequence">>)
                     \o Fields(8, <<"clientTimestampMs">>)
<1>1. Len(list) = 3
  BY DEF Fields
<1>2. /\ Readable(list[1]) /\ Readable(list[2]) /\ Readable(list[3])
  BY ReadableFields DEF Fields
<1>3. FieldList(list)
  <2> HIDE DEF list
  <2> QED
    BY <1>1, <1>2 DEF FieldList
<1>4. \A x : DeserializeLoginCommand(x) = FinishDecode(ReadFields(Reader(x), list))
  BY DEF DeserializeLoginCommand
<1> HIDE DEF list
<1> QED
  BY <1>3, <1>4, ListWhole

LEMMA ClientInputPacketWhole ==
    ASSUME NEW b \in Seq(Byte), NEW t \in Seq(Byte), t # <<>>
    PROVE  DeserializeClientInputPacket(b) = Refused \/ DeserializeClientInputPacket(b \o t) = Refused
<1> DEFINE list == Fields(4, <<"clientId", "sequence">>)
                     \o Fields(8, <<"clientTimestampMs">>)
                     \o Fields(1, <<"moveX", "moveY">>)
                     \o Fields(2, <<"aimX", "aimY">>)
                     \o <<BoolField("fire")>>
<1>1. Len(list) = 8
  BY DEF Fields
<1>2. /\ Readable(list[1]) /\ Readable(list[2]) /\ Readable(list[3]) /\ Readable(list[4])
      /\ Readable(list[5]) /\ Readable(list[6]) /\ Readable(list[7]) /\ Readable(list[8])
  BY ReadableFields DEF Fields
<1>3. FieldList(list)
  <2> HIDE DEF list
  <2> QED
    BY <1>1, <1>2 DEF FieldList
<1>4. \A x : DeserializeClientInputPacket(x) = FinishDecode(ReadFields(Reader(x), list))
  BY DEF DeserializeClientInputPacket
<1> HIDE DEF list
<1> QED
  BY <1>3, <1>4, ListWhole

LEMMA TimeSyncRequestWhole ==
    ASSUME NEW b \in Seq(Byte), NEW t \in Seq(Byte), t # <<>>
    PROVE  DeserializeTimeSyncRequest(b) = Refused \/ DeserializeTimeSyncRequest(b \o t) = Refused
<1> DEFINE list == Fields(4, <<"clientId", "sequence">>)
                     \o Fields(8, <<"clientSentAtMs">>)
<1>1. Len(list) = 3
  BY DEF Fields
<1>2. /\ Readable(list[1]) /\ Readable(list[2]) /\ Readable(list[3])
  BY ReadableFields DEF Fields
<1>3. FieldList(list)
  <2> HIDE DEF list
  <2> QED
    BY <1>1, <1>2 DEF FieldList
<1>4. \A x : DeserializeTimeSyncRequest(x) = FinishDecode(ReadFields(Reader(x), list))
  BY DEF DeserializeTimeSyncRequest
<1> HIDE DEF list
<1> QED
  BY <1>3, <1>4, ListWhole

LEMMA TimeSyncResponseWhole ==
    ASSUME NEW b \in Seq(Byte), NEW t \in Seq(Byte), t # <<>>
    PROVE  DeserializeTimeSyncResponse(b) = Refused \/ DeserializeTimeSyncResponse(b \o t) = Refused
<1> DEFINE list == Fields(4, <<"clientId", "sequence">>)
                     \o Fields(8, <<"clientSentAtMs", "serverReceivedAtMs", "serverSentAtMs">>)
<1>1. Len(list) = 5
  BY DEF Fields
<1>2. /\ Readable(list[1]) /\ Readable(list[2]) /\ Readable(list[3]) /\ Readable(list[4])
      /\ Readable(list[5])
  BY ReadableFields DEF Fields
<1>3. FieldList(list)
  <2> HIDE DEF list
  <2> QED
    BY <1>1, <1>2 DEF FieldList
<1>4. \A x : DeserializeTimeSyncResponse(x) = FinishDecode(ReadFields(Reader(x), list))
  BY DEF DeserializeTimeSyncResponse
<1> HIDE DEF list
<1> QED
  BY <1>3, <1>4, ListWhole

LEMMA NetworkEventAckWhole ==
    ASSUME NEW b \in Seq(Byte), NEW t \in Seq(Byte), t # <<>>
    PROVE  DeserializeNetworkEventAck(b) = Refused \/ DeserializeNetworkEventAck(b \o t) = Refused
<1> DEFINE list == Fields(4, <<"clientId", "eventId">>)
                     \o Fields(8, <<"clientReceivedAtMs">>)
<1>1. Len(list) = 3
  BY DEF Fields
<1>2. /\ Readable(list[1]) /\ Readable(list[2]) /\ Readable(list[3])
  BY ReadableFields DEF Fields
<1>3. FieldList(list)
  <2> HIDE DEF list
  <2> QED
    BY <1>1, <1>2 DEF FieldList
<1>4. \A x : DeserializeNetworkEventAck(x) = FinishDecode(ReadFields(Reader(x), list))
  BY DEF DeserializeNetworkEventAck
<1> HIDE DEF list
<1> QED
  BY <1>3, <1>4, ListWhole

LEMMA SnapshotAckWhole ==
    ASSUME NEW b \in Seq(Byte), NEW t \in Seq(Byte), t # <<>>
    PROVE  DeserializeSnapshotAck(b) = Refused \/ DeserializeSnapshotAck(b \o t) = Refused
<1> DEFINE list == Fields(4, <<"clientId", "snapshotId", "baselineId", "ackedInputSequence">>)
                     \o Fields(8, <<"clientReceivedAtMs">>)
<1>1. Len(list) = 5
  BY DEF Fields
<1>2. /\ Readable(list[1]) /\ Readable(list[2]) /\ Readable(list[3]) /\ Readable(list[4])
      /\ Readable(list[5])
  BY ReadableFields DEF Fields
<1>3. FieldList(list)
  <2> HIDE DEF list
  <2> QED
    BY <1>1, <1>2 DEF FieldList
<1>4. \A x : DeserializeSnapshotAck(x) = FinishDecode(ReadFields(Reader(x), list))
  BY DEF DeserializeSnapshotAck
<1> HIDE DEF list
<1> QED
  BY <1>3, <1>4, ListWhole

(* The lists of the parts of an entity can be read.                         *)
LEMMA MovementList ==
    \E list : FieldList(list) /\ \A r : ReadMovement(r) = ReadFields(r, list)
<1> DEFINE list == Fields(4, <<"entityId", "x", "y", "vx", "vy">>)
                     \o Fields(2, <<"aimX", "aimY">>)
<1>1. Len(list) = 7
  BY DEF Fields
<1>2. /\ Readable(list[1]) /\ Readable(list[2]) /\ Readable(list[3]) /\ Readable(list[4])
      /\ Readable(list[5]) /\ Readable(list[6]) /\ Readable(list[7])
  BY ReadableFields DEF Fields
<1>3. FieldList(list)
  <2> HIDE DEF list
  <2> QED
    BY <1>1, <1>2 DEF FieldList
<1>4. \A r : ReadMovement(r) = ReadFields(r, list)
  BY DEF ReadMovement
<1> HIDE DEF list
<1> QED
  BY <1>3, <1>4

LEMMA CombatList ==
    \E list : FieldList(list) /\ \A r : ReadCombat(r) = ReadFields(r, list)
<1> DEFINE list == Fields(4, <<"entityId", "health", "maxHealth">>)
                     \o <<EnumField("weaponType", WeaponType),
                          BoolField("weaponWarming"),
                          PodField("weaponWarmupCompletesAtMs", 8),
                          BoolField("defeated"),
                          PodField("respawnAtMs", 8),
                          BoolField("serverOwnedProjectile"),
                          PodField("projectileOwnerId", 4)>>
<1>1. Len(list) = 10
  BY DEF Fields
<1>2. /\ Readable(list[1]) /\ Readable(list[2]) /\ Readable(list[3]) /\ Readable(list[4])
      /\ Readable(list[5]) /\ Readable(list[6]) /\ Readable(list[7]) /\ Readable(list[8])
      /\ Readable(list[9]) /\ Readable(list[10])
  BY ReadableFields DEF Fields, Enumerations
<1>3. FieldList(list)
  <2> HIDE DEF list
  <2> QED
    BY <1>1, <1>2 DEF FieldList
<1>4. \A r : ReadCombat(r) = ReadFields(r, list)
  BY DEF ReadCombat
<1> HIDE DEF list
<1> QED
  BY <1>3, <1>4

LEMMA ReplicationList ==
    \E list : FieldList(list) /\ \A r : ReadReplication(r) = ReadFields(r, list)
<1> DEFINE list == Fields(4, <<"entityId", "ownerClientId">>)
                     \o <<EnumField("kind", ReplicatedEntityKind),
                          EnumField("priority", SnapshotPriority)>>
<1>1. Len(list) = 4
  BY DEF Fields
<1>2. /\ Readable(list[1]) /\ Readable(list[2]) /\ Readable(list[3]) /\ Readable(list[4])
  BY ReadableFields DEF Fields, Enumerations
<1>3. FieldList(list)
  <2> HIDE DEF list
  <2> QED
    BY <1>1, <1>2 DEF FieldList
<1>4. \A r : ReadReplication(r) = ReadFields(r, list)
  BY DEF ReadReplication
<1> HIDE DEF list
<1> QED
  BY <1>3, <1>4

LEMMA SnapshotHeaderReadable ==
    FieldList(SnapshotHeader)
<1> DEFINE list == Fields(4, <<"snapshotId", "baselineId">>)
                     \o <<EnumField("deliveryKind", SnapshotDeliveryKind)>>
                     \o Fields(8, <<"serverTick", "serverTimeMs">>)
                     \o Fields(4, <<"ackedInputSequence">>)
<1>1. Len(list) = 6
  BY DEF Fields
<1>2. /\ Readable(list[1]) /\ Readable(list[2]) /\ Readable(list[3]) /\ Readable(list[4])
      /\ Readable(list[5]) /\ Readable(list[6])
  BY ReadableFields DEF Fields, Enumerations
<1>3. FieldList(list)
  <2> HIDE DEF list
  <2> QED
    BY <1>1, <1>2 DEF FieldList
<1> QED
  BY <1>3 DEF SnapshotHeader

LEMMA EventHeaderReadable ==
    FieldList(Fields(4, <<"eventId">>) \o Fields(8, <<"serverTick", "serverTimeMs">>))
<1> DEFINE list == Fields(4, <<"eventId">>)
                     \o Fields(8, <<"serverTick", "serverTimeMs">>)
<1>1. Len(list) = 3
  BY DEF Fields
<1>2. /\ Readable(list[1]) /\ Readable(list[2]) /\ Readable(list[3])
  BY ReadableFields DEF Fields
<1>3. FieldList(list)
  <2> HIDE DEF list
  <2> QED
    BY <1>1, <1>2 DEF FieldList
<1> QED
  BY <1>3

(* The fields of every kind of event can be read.                           *)
LEMMA EventFieldsReadable ==
    ASSUME NEW kind \in Range(NetworkEventKind)
    PROVE  FieldList(EventFields(kind))
<1>1. CASE kind = "PlayerSpawned"
  <2> DEFINE list == Fields(4, <<"entityId", "clientId", "x", "y">>)
  <2>1. Len(list) = 4
    BY DEF Fields
  <2>2. /\ Readable(list[1]) /\ Readable(list[2]) /\ Readable(list[3]) /\ Readable(list[4])
    BY ReadableFields DEF Fields
  <2>3. FieldList(list)
    <3> HIDE DEF list
    <3> QED
      BY <2>1, <2>2 DEF FieldList
  <2>4. EventFields(kind) = list
    BY <1>1 DEF EventFields
  <2> HIDE DEF list
  <2> QED
    BY <2>3, <2>4
<1>2. CASE kind = "WeaponWarmupStarted"
  <2> DEFINE list == Fields(4, <<"entityId">>)
                       \o Fields(8, <<"startedAtMs", "completesAtMs">>)
                       \o <<EnumField("weaponType", WeaponType)>>
  <2>1. Len(list) = 4
    BY DEF Fields
  <2>2. /\ Readable(list[1]) /\ Readable(list[2]) /\ Readable(list[3]) /\ Readable(list[4])
    BY ReadableFields DEF Fields, Enumerations
  <2>3. FieldList(list)
    <3> HIDE DEF list
    <3> QED
      BY <2>1, <2>2 DEF FieldList
  <2>4. EventFields(kind) = list
    BY <1>2 DEF EventFields
  <2> HIDE DEF list
  <2> QED
    BY <2>3, <2>4
<1>3. CASE kind = "BowFired"
  <2> DEFINE list == Fields(4, <<"entityId">>)
                       \o Fields(8, <<"firedAtMs">>)
                       \o <<EnumField("weaponType", WeaponType)>>
  <2>1. Len(list) = 3
    BY DEF Fields
  <2>2. /\ Readable(list[1]) /\ Readable(list[2]) /\ Readable(list[3])
    BY ReadableFields DEF Fields, Enumerations
  <2>3. FieldList(list)
    <3> HIDE DEF list
    <3> QED
      BY <2>1, <2>2 DEF FieldList
  <2>4. EventFields(kind) = list
    BY <1>3 DEF EventFields
  <2> HIDE DEF list
  <2> QED
    BY <2>3, <2>4
<1>4. CASE kind = "ProjectileSpawned"
  <2> DEFINE list == Fields(4, <<"projectileId", "ownerId", "x", "y">>)
                       \o <<EnumField("sourceWeapon", WeaponType)>>
  <2>1. Len(list) = 5
    BY DEF Fields
  <2>2. /\ Readable(list[1]) /\ Readable(list[2]) /\ Readable(list[3]) /\ Readable(list[4])
        /\ Readable(list[5])
    BY ReadableFields DEF Fields, Enumerations
  <2>3. FieldList(list)
    <3> HIDE DEF list
    <3> QED
      BY <2>1, <2>2 DEF FieldList
  <2>4. EventFields(kind) = list
    BY <1>4 DEF EventFields
  <2> HIDE DEF list
  <2> QED
    BY <2>3, <2>4
<1>5. CASE kind = "HitConfirmed"
  <2> DEFINE list == Fields(4, <<"attackerId", "targetId", "projectileId">>)
                       \o Fields(8, <<"serverTimeMs">>)
  <2>1. Len(list) = 4
    BY DEF Fields
  <2>2. /\ Readable(list[1]) /\ Readable(list[2]) /\ Readable(list[3]) /\ Readable(list[4])
    BY ReadableFields DEF Fields
  <2>3. FieldList(list)
    <3> HIDE DEF list
    <3> QED
      BY <2>1, <2>2 DEF FieldList
  <2>4. EventFields(kind) = list
    BY <1>5 DEF EventFields
  <2> HIDE DEF list
  <2> QED
    BY <2>3, <2>4
<1>6. CASE kind = "PlayerDamaged"
  <2> DEFINE list == Fields(4, <<"entityId", "attackerId", "damage", "healthAfter">>)
  <2>1. Len(list) = 4
    BY DEF Fields
  <2>2. /\ Readable(list[1]) /\ Readable(list[2]) /\ Readable(list[3]) /\ Readable(list[4])
    BY ReadableFields DEF Fields
  <2>3. FieldList(list)
    <3> HIDE DEF list
    <3> QED
      BY <2>1, <2>2 DEF FieldList
  <2>4. EventFields(kind) = list
    BY <1>6 DEF EventFields
  <2> HIDE DEF list
  <2> QED
    BY <2>3, <2>4
<1>7. CASE kind = "PlayerDied"
  <2> DEFINE list == Fields(4, <<"entityId", "attackerId">>)
                       \o Fields(8, <<"respawnAtMs">>)
  <2>1. Len(list) = 3
    BY DEF Fields
  <2>2. /\ Readable(list[1]) /\ Readable(list[2]) /\ Readable(list[3])
    BY ReadableFields DEF Fields
  <2>3. FieldList(list)
    <3> HIDE DEF list
    <3> QED
      BY <2>1, <2>2 DEF FieldList
  <2>4. EventFields(kind) = list
    BY <1>7 DEF EventFields
  <2> HIDE DEF list
  <2> QED
    BY <2>3, <2>4
<1>8. CASE kind = "PlayerRespawned"
  <2> DEFINE list == Fields(4, <<"entityId", "x", "y">>)
  <2>1. Len(list) = 3
    BY DEF Fields
  <2>2. /\ Readable(list[1]) /\ Readable(list[2]) /\ Readable(list[3])
    BY ReadableFields DEF Fields
  <2>3. FieldList(list)
    <3> HIDE DEF list
    <3> QED
      BY <2>1, <2>2 DEF FieldList
  <2>4. EventFields(kind) = list
    BY <1>8 DEF EventFields
  <2> HIDE DEF list
  <2> QED
    BY <2>3, <2>4
<1>9. CASE kind \in {"EntityEnteredInterest", "EntityLeftInterest"}
  <2> DEFINE list == Fields(4, <<"entityId", "observerClientId">>)
  <2>1. Len(list) = 2
    BY DEF Fields
  <2>2. /\ Readable(list[1]) /\ Readable(list[2])
    BY ReadableFields DEF Fields
  <2>3. FieldList(list)
    <3> HIDE DEF list
    <3> QED
      BY <2>1, <2>2 DEF FieldList
  <2>4. EventFields(kind) = list
    BY <1>9 DEF EventFields
  <2> HIDE DEF list
  <2> QED
    BY <2>3, <2>4
<1> QED
  BY <1>1, <1>2, <1>3, <1>4, <1>5, <1>6, <1>7, <1>8, <1>9 DEF NetworkEventKind, Range

LEMMA OneSplitParts ==
    ASSUME NEW rest \in Seq(Byte), NEW tail \in Seq(Byte), NEW t \in Seq(Byte), NEW f, NEW v,
           OneSplitAs(rest, f, tail, v), NEW fields, NEW name, f.name = name
    PROVE  /\ ReadFields(At(rest, fields), <<f>>) = At(tail, With(NoFields, name, v))
           /\ ReadFields(At(rest \o t, fields), <<f>>) = At(tail \o t, With(NoFields, name, v))
           /\ With(NoFields, name, v)[name] = v
<1> DEFINE one == With(NoFields, name, v)
<1>1. ReadFields(At(rest \o t, fields), <<f>>) = At(tail \o t, one)
  BY DEF OneSplitAs
<1>2. ReadFields(At(rest \o <<>>, fields), <<f>>) = At(tail \o <<>>, one)
  BY EmptySequence, Zenon DEF OneSplitAs
<1>3. rest \o <<>> = rest /\ tail \o <<>> = tail
  BY EmptyConcat
<1>4. one[name] = v
  BY WithOne
<1> HIDE DEF one
<1> QED
  BY <1>1, <1>2, <1>3, <1>4 DEF one

LEMMA FinishFails ==
    ASSUME NEW r, Failed(r), NEW fields
    PROVE  FinishDecode(Having(r, fields)) = Refused
<1>1. Failed(Having(r, fields))
  BY DEF Having, Failed
<1> QED
  BY <1>1 DEF FinishDecode, Failed

(* What decoding a network event makes of the reads of its parts.           *)
EventRead(header, kind, payload) ==
    IF kind.ok
    THEN FinishDecode(Having(payload, With(header.fields, "payload",
                                           With(payload.fields, "kind", kind.fields.kind))))
    ELSE Refused

EventHeader == Fields(4, <<"eventId">>) \o Fields(8, <<"serverTick", "serverTimeMs">>)
KindField == EnumField("kind", NetworkEventKind)

LEMMA EventSteps ==
    ASSUME NEW bytes, NEW header, header = ReadFields(Reader(bytes), EventHeader),
           NEW kind, kind = ReadFields(header, <<KindField>>),
           NEW payload, payload = ReadFields(kind, EventFields(kind.fields.kind))
    PROVE  DeserializeNetworkEvent(bytes) = EventRead(header, kind, payload)
  BY DEF DeserializeNetworkEvent, EventRead, EventHeader, KindField

LEMMA KindValue ==
    ASSUME NEW v, IsValue(KindField, v)
    PROVE  v \in Range(NetworkEventKind)
<1>1. KindField.type # "pod" /\ KindField.values = NetworkEventKind
  BY DEF KindField, EnumField
<1>2. DOMAIN NetworkEventKind = 1..Len(NetworkEventKind)
  BY DEF NetworkEventKind
<1> QED
  BY <1>1, <1>2 DEF IsValue, Range

(* An event decodes from at most one of some bytes and the same with more   *)
(* after them: both have the same kind, so the same fields follow.          *)
LEMMA NetworkEventWhole ==
    ASSUME NEW b \in Seq(Byte), NEW t \in Seq(Byte), t # <<>>
    PROVE  DeserializeNetworkEvent(b) = Refused \/ DeserializeNetworkEvent(b \o t) = Refused
<1>1. PICK h : h = ReadFields(Reader(b), EventHeader)
  OBVIOUS
<1>2. PICK hh : hh = ReadFields(Reader(b \o t), EventHeader)
  OBVIOUS
<1>3. Extends(h, hh, t)
  <2>1. FieldList(EventHeader)
    BY EventHeaderReadable DEF EventHeader
  <2>2. Extends(Reader(b), Reader(b \o t), t)
    BY ReaderExtends
  <2> QED
    BY <1>1, <1>2, <2>1, <2>2, ListExtends
<1>4. PICK k : k = ReadFields(h, <<KindField>>)
  OBVIOUS
<1>5. PICK kk : kk = ReadFields(hh, <<KindField>>)
  OBVIOUS
<1>6. PICK p : p = ReadFields(k, EventFields(k.fields.kind))
  OBVIOUS
<1>7. PICK pp : pp = ReadFields(kk, EventFields(kk.fields.kind))
  OBVIOUS
<1>8. /\ DeserializeNetworkEvent(b) = EventRead(h, k, p)
      /\ DeserializeNetworkEvent(b \o t) = EventRead(hh, kk, pp)
  BY <1>1, <1>2, <1>4, <1>5, <1>6, <1>7, EventSteps
<1>9. CASE Failed(k)
  BY <1>8, <1>9 DEF EventRead, Failed
<1>10. CASE ~ Failed(k)
  <2>1. ~ Failed(h)
    <3>1. Len(<<KindField>>) \in Nat
      OBVIOUS
    <3> QED
      BY <1>4, <1>10, <3>1, ListFails
  <2>2a. PICK rest \in Seq(Byte) : \E hf : h = At(rest, hf) /\ hh = At(rest \o t, hf)
    BY <1>3, <2>1 DEF Extends
  <2>2. PICK hf : h = At(rest, hf) /\ hh = At(rest \o t, hf)
    BY <2>2a
  <2>3. Readable(KindField) /\ KindField.name = "kind"
    BY ReadableFields, FieldNames DEF KindField, Enumerations
  <2>4a. PICK tail \in Seq(Byte) : \E v : IsValue(KindField, v) /\ OneSplitAs(rest, KindField, tail, v)
    BY <1>4, <1>10, <2>2, <2>3, OneSplits
  <2>4. PICK v : IsValue(KindField, v) /\ OneSplitAs(rest, KindField, tail, v)
    BY <2>4a
  <2>5. PICK kf : kf = With(NoFields, "kind", v)
    OBVIOUS
  <2>6. k = At(tail, kf) /\ kk = At(tail \o t, kf) /\ kf["kind"] = v
    BY <1>4, <1>5, <2>2, <2>3, <2>4, <2>5, OneSplitParts
  <2>7. k.fields = kf /\ kk.fields = kf
    BY <2>6, AtParts
  <2>8. k.fields.kind = v /\ kk.fields.kind = v
    BY <2>6, <2>7
  <2>9. FieldList(EventFields(v))
    BY <2>4, KindValue, EventFieldsReadable
  <2>10. Extends(k, kk, t)
    BY <2>6 DEF Extends
  <2>11. Extends(p, pp, t)
    BY <1>6, <1>7, <2>8, <2>9, <2>10, ListExtends
  <2>12. CASE Failed(p)
    BY <1>8, <2>12, FinishFails DEF EventRead
  <2>13. CASE ~ Failed(p)
    <3>1a. PICK pr \in Seq(Byte) : \E pf : p = At(pr, pf) /\ pp = At(pr \o t, pf)
      BY <2>11, <2>13 DEF Extends
    <3>1. PICK pf : p = At(pr, pf) /\ pp = At(pr \o t, pf)
      BY <3>1a
    <3>2. p.fields = pf /\ pp.fields = pf /\ h.fields = hf /\ hh.fields = hf
      BY <2>2, <3>1, AtParts
    <3>3. PICK w : w = With(hf, "payload", With(pf, "kind", v))
      OBVIOUS
    <3>4. Extends(Having(p, w), Having(pp, w), t)
      BY <2>11, HavingExtends
    <3>5. FinishDecode(Having(p, w)) = Refused \/ FinishDecode(Having(pp, w)) = Refused
      BY <3>4, FinishExtends
    <3>6. k.ok /\ kk.ok
      BY <2>6, AtParts
    <3>7. /\ EventRead(h, k, p) = FinishDecode(Having(p, w))
          /\ EventRead(hh, kk, pp) = FinishDecode(Having(pp, w))
      BY <2>8, <3>2, <3>3, <3>6 DEF EventRead
    <3> QED
      BY <1>8, <3>5, <3>7
  <2> QED
    BY <2>12, <2>13
<1> QED
  BY <1>9, <1>10

LEMMA PartFails ==
    /\ \A r : Failed(r) => Failed(ReadMovement(r))
    /\ \A r : Failed(r) => Failed(ReadReplication(r))
    /\ \A r : Failed(r) => Failed(CombatRead(r))
<1>1. ASSUME NEW r, Failed(r) PROVE Failed(ReadMovement(r))
  BY <1>1, MovementList, ListFails DEF FieldList
<1>2. ASSUME NEW r, Failed(r) PROVE Failed(ReadReplication(r))
  BY <1>2, ReplicationList, ListFails DEF FieldList
<1>3. ASSUME NEW r, Failed(r) PROVE Failed(CombatRead(r))
  BY <1>3 DEF CombatRead, Failed
<1> QED
  BY <1>1, <1>2, <1>3

(* A part of an entity is read the same when more bytes follow.             *)
LEMMA PartExtends ==
    ASSUME NEW r, NEW s, NEW t \in Seq(Byte), Extends(r, s, t)
    PROVE  /\ Extends(ReadMovement(r), ReadMovement(s), t)
           /\ Extends(ReadReplication(r), ReadReplication(s), t)
           /\ Extends(ReadCombat(r), ReadCombat(s), t)
<1>1. Extends(ReadMovement(r), ReadMovement(s), t)
  BY MovementList, ListExtends
<1>2. Extends(ReadReplication(r), ReadReplication(s), t)
  BY ReplicationList, ListExtends
<1>3. Extends(ReadCombat(r), ReadCombat(s), t)
  BY CombatList, ListExtends
<1> QED
  BY <1>1, <1>2, <1>3

LEMMA EntityReadFails ==
    ASSUME NEW r, NEW m, NEW h, NEW c, NEW q, Failed(q)
    PROVE  Failed(EntityRead(r, m, h, c, q))
<1>1. EntityRead(r, m, h, c, q) = Fail(r)
  BY DEF EntityRead, Failed
<1> QED
  BY <1>1, FailFails

LEMMA BoolValue ==
    ASSUME NEW v, IsValue(BoolField("hasCombat"), v)
    PROVE  v = TRUE \/ v = FALSE
<1>1. BoolField("hasCombat").type # "pod" /\ BoolField("hasCombat").values = <<FALSE, TRUE>>
  BY Zenon DEF BoolField
<1>2. \E i \in 1..Len(<<FALSE, TRUE>>) : v = <<FALSE, TRUE>>[i]
  BY <1>1, Zenon DEF IsValue
<1> QED
  BY <1>2

(* And so is an entity: the flag that is read tells both readers the same.  *)
LEMMA EntityExtends ==
    ASSUME NEW r, NEW s, NEW t \in Seq(Byte), Extends(r, s, t)
    PROVE  Extends(ReadEntity(r), ReadEntity(s), t)
<1>1. PICK m : m = ReadMovement(r)
  OBVIOUS
<1>2. PICK mm : mm = ReadMovement(s)
  OBVIOUS
<1>3. PICK f : f = BoolField("hasCombat")
  OBVIOUS
<1>4. PICK h : h = ReadFields(m, <<f>>)
  OBVIOUS
<1>5. PICK hh : hh = ReadFields(mm, <<f>>)
  OBVIOUS
<1>6. PICK c : c = CombatRead(h)
  OBVIOUS
<1>7. PICK cc : cc = CombatRead(hh)
  OBVIOUS
<1>8. PICK q : q = ReadReplication(c)
  OBVIOUS
<1>9. PICK qq : qq = ReadReplication(cc)
  OBVIOUS
<1>10. ReadEntity(r) = EntityRead(r, m, h, c, q) /\ ReadEntity(s) = EntityRead(s, mm, hh, cc, qq)
  BY <1>1, <1>2, <1>3, <1>4, <1>5, <1>6, <1>7, <1>8, <1>9, ReadEntitySteps
<1>11. CASE Failed(q)
  BY <1>10, <1>11, EntityReadFails DEF Extends
<1>12. CASE ~ Failed(q)
  <2>1. ~ Failed(c)
    BY <1>8, <1>12, PartFails
  <2>2. ~ Failed(h)
    BY <1>6, <2>1, PartFails
  <2>3. ~ Failed(m)
    <3>1. Len(<<f>>) \in Nat
      OBVIOUS
    <3> QED
      BY <1>4, <2>2, <3>1, ListFails
  <2>4. ~ Failed(r)
    BY <1>1, <2>3, PartFails
  <2>5a. PICK rest \in Seq(Byte) : \E es : r = At(rest, es) /\ s = At(rest \o t, es)
    BY <2>4 DEF Extends
  <2>5. PICK es : r = At(rest, es) /\ s = At(rest \o t, es)
    BY <2>5a
  <2>6. Extends(m, mm, t)
    BY <1>1, <1>2, PartExtends
  <2>7a. PICK mr \in Seq(Byte) : \E mf : m = At(mr, mf) /\ mm = At(mr \o t, mf)
    BY <2>3, <2>6 DEF Extends
  <2>7. PICK mf : m = At(mr, mf) /\ mm = At(mr \o t, mf)
    BY <2>7a
  <2>8. Readable(f) /\ f.name = "hasCombat"
    BY <1>3, ReadableFields, FieldNames
  <2>9a. PICK hr \in Seq(Byte) : \E v : IsValue(f, v) /\ OneSplitAs(mr, f, hr, v)
    BY <1>4, <2>2, <2>7, <2>8, OneSplits
  <2>9. PICK v : IsValue(f, v) /\ OneSplitAs(mr, f, hr, v)
    BY <2>9a
  <2>10. PICK hf : hf = With(NoFields, "hasCombat", v)
    OBVIOUS
  <2>11. h = At(hr, hf) /\ hh = At(hr \o t, hf) /\ hf["hasCombat"] = v
    BY <1>4, <1>5, <2>7, <2>8, <2>9, <2>10, OneSplitParts
  <2>12. /\ h.ok /\ hh.ok /\ h.fields = hf /\ hh.fields = hf
    BY <2>11, AtParts
  <2>13. h.fields.hasCombat = v /\ hh.fields.hasCombat = v
    BY <2>11, <2>12
  <2>14. Extends(h, hh, t)
    BY <2>11 DEF Extends
  <2>15. v = TRUE \/ v = FALSE
    BY <1>3, <2>9, BoolValue
  <2>16. Extends(c, cc, t)
    <3>1. CASE v = TRUE
      <4>1. c = ReadCombat(h) /\ cc = ReadCombat(hh)
        BY <1>6, <1>7, <2>12, <2>13, <3>1 DEF CombatRead
      <4> QED
        BY <2>14, <4>1, PartExtends
    <3>2. CASE v = FALSE
      <4>1. c = h /\ cc = hh
        BY <1>6, <1>7, <2>13, <3>2 DEF CombatRead
      <4> QED
        BY <2>14, <4>1
    <3> QED
      BY <2>15, <3>1, <3>2, Zenon
  <2>17a. PICK cr \in Seq(Byte) : \E cf : c = At(cr, cf) /\ cc = At(cr \o t, cf)
    BY <2>1, <2>16 DEF Extends
  <2>17. PICK cf : c = At(cr, cf) /\ cc = At(cr \o t, cf)
    BY <2>17a
  <2>18. Extends(q, qq, t)
    BY <1>8, <1>9, <2>16, PartExtends
  <2>19a. PICK qr \in Seq(Byte) : \E qf : q = At(qr, qf) /\ qq = At(qr \o t, qf)
    BY <1>12, <2>18 DEF Extends
  <2>19. PICK qf : q = At(qr, qf) /\ qq = At(qr \o t, qf)
    BY <2>19a
  <2>20. /\ r.fields = es /\ s.fields = es /\ m.fields = mf /\ mm.fields = mf
         /\ c.fields = cf /\ cc.fields = cf /\ q.fields = qf /\ qq.fields = qf /\ q.ok /\ qq.ok
    BY <2>5, <2>7, <2>17, <2>19, AtParts
  <2>21. PICK e : e = [movement |-> mf, combat |-> IF v THEN <<cf>> ELSE <<>>, replication |-> qf]
    BY Zenon
  <2>22. /\ EntityRead(r, m, h, c, q) = Having(q, Append(es, e))
         /\ EntityRead(s, mm, hh, cc, qq) = Having(qq, Append(es, e))
    BY <2>13, <2>20, <2>21 DEF EntityRead
  <2> QED
    BY <1>10, <2>18, <2>22, HavingExtends
<1> QED
  BY <1>11, <1>12

(* And so are all of them, for the same count.                              *)
LEMMA EntitiesExtend ==
    ASSUME NEW r, NEW s, NEW t \in Seq(Byte), Extends(r, s, t), NEW n \in Nat
    PROVE  Extends(EntitiesAfter(r, n, n), EntitiesAfter(s, n, n), t)
<1> DEFINE T == {i \in 0..n : Extends(EntitiesAfter(r, n, i), EntitiesAfter(s, n, i), t)}
<1>1. 0 \in T
  <2>1. PICK none : none = <<>>
    OBVIOUS
  <2>2. Extends(Having(r, none), Having(s, none), t)
    BY HavingExtends
  <2>3. EntitiesAfter(r, n, 0) = Having(r, none) /\ EntitiesAfter(s, n, 0) = Having(s, none)
    BY <2>1, EntitiesUnroll
  <2> QED
    BY <2>2, <2>3
<1>2. ASSUME NEW i \in 1..n, i - 1 \in T PROVE i \in T
  <2>1. /\ EntitiesAfter(r, n, i) = ReadEntity(EntitiesAfter(r, n, i - 1))
        /\ EntitiesAfter(s, n, i) = ReadEntity(EntitiesAfter(s, n, i - 1))
    BY EntitiesUnroll, Zenon
  <2>2. Extends(EntitiesAfter(r, n, i - 1), EntitiesAfter(s, n, i - 1), t)
    BY <1>2
  <2>3. Extends(EntitiesAfter(r, n, i), EntitiesAfter(s, n, i), t)
    BY <2>1, <2>2, EntityExtends
  <2> QED
    BY <2>3
<1>3. n \in T
  <2> HIDE DEF T
  <2>1. 0..n \subseteq T
    BY <1>1, <1>2, InductionUpTo, Zenon
  <2> QED
    BY <2>1
<1> QED
  BY <1>3

CountField == PodField("entityCount", 4)

(* A snapshot decodes from at most one of some bytes and the same with more *)
(* after them: both have the same count.                                    *)
LEMMA SnapshotWhole ==
    ASSUME NEW b \in Seq(Byte), NEW t \in Seq(Byte), t # <<>>
    PROVE  DeserializeSnapshot(b) = Refused \/ DeserializeSnapshot(b \o t) = Refused
<1>1. PICK h : h = ReadFields(Reader(b), SnapshotHeader)
  OBVIOUS
<1>2. PICK hh : hh = ReadFields(Reader(b \o t), SnapshotHeader)
  OBVIOUS
<1>3. Extends(h, hh, t)
  <2>1. Extends(Reader(b), Reader(b \o t), t)
    BY ReaderExtends
  <2> QED
    BY <1>1, <1>2, <2>1, SnapshotHeaderReadable, ListExtends
<1>4. PICK k : k = ReadFields(h, <<CountField>>)
  OBVIOUS
<1>5. PICK kk : kk = ReadFields(hh, <<CountField>>)
  OBVIOUS
<1>6. PICK n : n = k.fields.entityCount
  OBVIOUS
<1>7. PICK nn : nn = kk.fields.entityCount
  OBVIOUS
<1>8. PICK p : p = EntitiesAfter(k, n, n)
  OBVIOUS
<1>9. PICK pp : pp = EntitiesAfter(kk, nn, nn)
  OBVIOUS
<1>10. /\ DeserializeSnapshot(b) = SnapshotRead(h, k, n, p)
       /\ DeserializeSnapshot(b \o t) = SnapshotRead(hh, kk, nn, pp)
  BY <1>1, <1>2, <1>4, <1>5, <1>6, <1>7, <1>8, <1>9, SnapshotSteps DEF CountField
<1>11. CASE Failed(k)
  BY <1>10, <1>11 DEF SnapshotRead, Failed
<1>12. CASE ~ Failed(k)
  <2>1. ~ Failed(h)
    <3>1. Len(<<CountField>>) \in Nat
      OBVIOUS
    <3> QED
      BY <1>4, <1>12, <3>1, ListFails
  <2>2a. PICK rest \in Seq(Byte) : \E hf : h = At(rest, hf) /\ hh = At(rest \o t, hf)
    BY <1>3, <2>1 DEF Extends
  <2>2. PICK hf : h = At(rest, hf) /\ hh = At(rest \o t, hf)
    BY <2>2a
  <2>3. Readable(CountField) /\ CountField.name = "entityCount" /\ CountField.type = "pod"
    BY ReadableFields, FieldNames, Zenon DEF CountField, PodField
  <2>4a. PICK tail \in Seq(Byte) : \E v : IsValue(CountField, v) /\ OneSplitAs(rest, CountField, tail, v)
    BY <1>4, <1>12, <2>2, <2>3, OneSplits
  <2>4. PICK v : IsValue(CountField, v) /\ OneSplitAs(rest, CountField, tail, v)
    BY <2>4a
  <2>5. v \in Nat
    BY <2>3, <2>4 DEF IsValue
  <2>6. PICK kf : kf = With(NoFields, "entityCount", v)
    OBVIOUS
  <2>7. k = At(tail, kf) /\ kk = At(tail \o t, kf) /\ kf["entityCount"] = v
    BY <1>4, <1>5, <2>2, <2>3, <2>4, <2>6, OneSplitParts
  <2>8. k.fields = kf /\ kk.fields = kf
    BY <2>7, AtParts
  <2>9. n = v /\ nn = v
    BY <1>6, <1>7, <2>7, <2>8
  <2>10. Extends(k, kk, t)
    BY <2>7 DEF Extends
  <2>11. Extends(p, pp, t)
    BY <1>8, <1>9, <2>5, <2>9, <2>10, EntitiesExtend
  <2>12. CASE Failed(p)
    BY <1>10, <2>12, FinishFails DEF SnapshotRead
  <2>13. CASE ~ Failed(p)
    <3>1a. PICK pr \in Seq(Byte) : \E pf : p = At(pr, pf) /\ pp = At(pr \o t, pf)
      BY <2>11, <2>13 DEF Extends
    <3>1. PICK pf : p = At(pr, pf) /\ pp = At(pr \o t, pf)
      BY <3>1a
    <3>2. p.fields = pf /\ pp.fields = pf /\ h.fields = hf /\ hh.fields = hf
      BY <2>2, <3>1, AtParts
    <3>3. PICK w : w = With(hf, "entities", pf)
      OBVIOUS
    <3>4. Extends(Having(p, w), Having(pp, w), t)
      BY <2>11, HavingExtends
    <3>5. FinishDecode(Having(p, w)) = Refused \/ FinishDecode(Having(pp, w)) = Refused
      BY <3>4, FinishExtends
    <3>6. /\ SnapshotRead(h, k, n, p) \in {Refused, FinishDecode(Having(p, w))}
          /\ SnapshotRead(hh, kk, nn, pp) \in {Refused, FinishDecode(Having(pp, w))}
      BY <3>2, <3>3 DEF SnapshotRead
    <3> QED
      BY <1>10, <3>5, <3>6
  <2> QED
    BY <2>12, <2>13
<1> QED
  BY <1>11, <1>12

(* The messages of every class: what is encoded decodes, and only as a      *)
(* whole.                                                                   *)
LEMMA ItemRoundTrip ==
    ASSUME NEW i \in Item
    PROVE  /\ Serialize(i.class, i.message) \in Seq(Byte)
           /\ Deserialize(i.class, Serialize(i.class, i.message)) = i.message
           /\ i.message # Refused
<1>1. CASE i \in [class : {"LoginRequest"}, message : LoginCommand]
  <2>1. i.class \in {"LoginRequest"} /\ i.message \in LoginCommand
    BY <1>1
  <2>2. i.message # Refused
    BY <2>1 DEF LoginCommand, Refused
  <2> QED
    BY <2>1, <2>2, LoginCommandRoundTrip DEF Serialize, Deserialize
<1>2. CASE i \in [class : {"ClientInput"}, message : ClientInputPacket]
  <2>1. i.class \in {"ClientInput"} /\ i.message \in ClientInputPacket
    BY <1>2
  <2>2. i.message # Refused
    BY <2>1 DEF ClientInputPacket, Refused
  <2> QED
    BY <2>1, <2>2, ClientInputPacketRoundTrip DEF Serialize, Deserialize
<1>3. CASE i \in [class : {"Snapshot"}, message : SnapshotDTO]
  <2>1. i.class \in {"Snapshot"} /\ i.message \in SnapshotDTO
    BY <1>3
  <2>2. i.message # Refused
    BY <2>1 DEF SnapshotDTO, Refused
  <2> QED
    BY <2>1, <2>2, SnapshotRoundTrip DEF Serialize, Deserialize
<1>4. CASE i \in [class : {"SnapshotAck"}, message : SnapshotAckDTO]
  <2>1. i.class \in {"SnapshotAck"} /\ i.message \in SnapshotAckDTO
    BY <1>4
  <2>2. i.message # Refused
    BY <2>1 DEF SnapshotAckDTO, Refused
  <2> QED
    BY <2>1, <2>2, SnapshotAckRoundTrip DEF Serialize, Deserialize
<1>5. CASE i \in [class : {"CombatEvent", "SpawnAccepted", "InterestEvent"}, message : NetworkEventDTO]
  <2>1. i.class \in {"CombatEvent", "SpawnAccepted", "InterestEvent"} /\ i.message \in NetworkEventDTO
    BY <1>5
  <2>2. i.message # Refused
    BY <2>1 DEF NetworkEventDTO, Refused
  <2> QED
    BY <2>1, <2>2, NetworkEventRoundTrip DEF Serialize, Deserialize
<1>6. CASE i \in [class : {"NetworkEventAck"}, message : NetworkEventAckDTO]
  <2>1. i.class \in {"NetworkEventAck"} /\ i.message \in NetworkEventAckDTO
    BY <1>6
  <2>2. i.message # Refused
    BY <2>1 DEF NetworkEventAckDTO, Refused
  <2> QED
    BY <2>1, <2>2, NetworkEventAckRoundTrip DEF Serialize, Deserialize
<1>7. CASE i \in [class : {"TimeSyncRequest"}, message : TimeSyncRequest]
  <2>1. i.class \in {"TimeSyncRequest"} /\ i.message \in TimeSyncRequest
    BY <1>7
  <2>2. i.message # Refused
    BY <2>1 DEF TimeSyncRequest, Refused
  <2> QED
    BY <2>1, <2>2, TimeSyncRequestRoundTrip DEF Serialize, Deserialize
<1>8. CASE i \in [class : {"TimeSyncResponse"}, message : TimeSyncResponse]
  <2>1. i.class \in {"TimeSyncResponse"} /\ i.message \in TimeSyncResponse
    BY <1>8
  <2>2. i.message # Refused
    BY <2>1 DEF TimeSyncResponse, Refused
  <2> QED
    BY <2>1, <2>2, TimeSyncResponseRoundTrip DEF Serialize, Deserialize
<1> QED
  BY <1>1, <1>2, <1>3, <1>4, <1>5, <1>6, <1>7, <1>8 DEF Item

(* In every message class, of some bytes and more at most one decodes.      *)
LEMMA ItemWhole ==
    ASSUME NEW i \in Item, NEW b \in Seq(Byte), NEW t \in Seq(Byte), t # <<>>
    PROVE  Deserialize(i.class, b) = Refused \/ Deserialize(i.class, b \o t) = Refused
<1>1. CASE i.class \in {"LoginRequest"}
  BY <1>1, LoginCommandWhole DEF Deserialize
<1>2. CASE i.class \in {"ClientInput"}
  BY <1>2, ClientInputPacketWhole DEF Deserialize
<1>3. CASE i.class \in {"Snapshot"}
  BY <1>3, SnapshotWhole DEF Deserialize
<1>4. CASE i.class \in {"SnapshotAck"}
  BY <1>4, SnapshotAckWhole DEF Deserialize
<1>5. CASE i.class \in {"CombatEvent", "SpawnAccepted", "InterestEvent"}
  BY <1>5, NetworkEventWhole DEF Deserialize
<1>6. CASE i.class \in {"NetworkEventAck"}
  BY <1>6, NetworkEventAckWhole DEF Deserialize
<1>7. CASE i.class \in {"TimeSyncRequest"}
  BY <1>7, TimeSyncRequestWhole DEF Deserialize
<1>8. CASE i.class \in {"TimeSyncResponse"}
  BY <1>8, TimeSyncResponseWhole DEF Deserialize
<1> QED
  BY <1>1, <1>2, <1>3, <1>4, <1>5, <1>6, <1>7, <1>8 DEF Item

(* So of the prefixes of a payload and one byte more, only the payload      *)
(* decodes.                                                                 *)
LEMMA CutDecodes ==
    ASSUME NEW i \in Item, NEW whole \in Seq(Byte), whole = Serialize(i.class, i.message),
           NEW n \in 0..(Len(whole) + 1), NEW bytes, bytes = SubSeq(Append(whole, 0), 1, n)
    PROVE  Deserialize(i.class, bytes) = IF bytes = whole THEN i.message ELSE Refused
<1>1. Deserialize(i.class, whole) = i.message /\ i.message # Refused
  BY ItemRoundTrip
<1>2. CASE n = Len(whole) + 1
  <2>1. bytes = Append(whole, 0)
    BY <1>2
  <2>2. PICK t \in Seq(Byte) : t = <<0>> /\ t # <<>> /\ bytes = whole \o t
    <3>1. <<0>> \in Seq(Byte) /\ <<0>> # <<>>
      BY DEF Byte
    <3>2. Append(whole, 0) = whole \o <<0>>
      OBVIOUS
    <3> QED
      BY <2>1, <3>1, <3>2, Zenon
  <2>3. Deserialize(i.class, whole \o t) = Refused
    BY <1>1, <2>2, ItemWhole, Zenon
  <2>4. bytes # whole
    <3>1. Len(bytes) = Len(whole) + 1
      BY <2>1
    <3> QED
      BY <3>1
  <2> QED
    BY <2>2, <2>3, <2>4, Zenon
<1>3. CASE n <= Len(whole)
  <2>1. n \in Nat
    OBVIOUS
  <2>2. bytes = SubSeq(whole, 1, n)
    BY <1>3
  <2>3. PICK t \in Seq(Byte) : whole = bytes \o t
    <3>1. ~ (Len(whole) < n)
      BY <1>3, <2>1
    <3>2. PICK front \in Seq(Byte), t \in Seq(Byte) :
            whole = front \o t /\ SubSeq(whole, 1, n) = front
      BY <2>1, <3>1, Splits, Zenon
    <3> QED
      BY <2>2, <3>2, Zenon
  <2>4. bytes \in Seq(Byte)
    BY <1>3, <2>1, <2>2
  <2>5. CASE t = <<>>
    BY <1>1, <2>3, <2>4, <2>5, EmptyConcat, Zenon
  <2>6. CASE t # <<>>
    <3>1. Deserialize(i.class, bytes) = Refused
      <4>1. Deserialize(i.class, bytes \o t) # Refused
        BY <1>1, <2>3, Zenon
      <4> QED
        BY <2>4, <2>6, <4>1, ItemWhole, Zenon
    <3>2. bytes # whole
      BY <1>1, <3>1, Zenon
    <3> QED
      BY <3>1, <3>2
  <2> QED
    BY <2>5, <2>6
<1> QED
  BY <1>2, <1>3

(* What a script sends is typed.                                            *)
LEMMA ScriptItems ==
    ASSUME script \in Script
    PROVE  \A i \in UNION {Range(script[d]) : d \in Direction} : i \in Item
<1>1. script \in [Direction -> Seq(Item)]
  BY ScriptAssumption
<1>2. ASSUME NEW d \in Direction, NEW i \in Range(script[d]) PROVE i \in Item
  <2>1. script[d] \in Seq(Item)
    BY <1>1
  <2> QED
    BY <2>1 DEF Range
<1> QED
  BY <1>2

(* No step changes the script.                                              *)
LEMMA ScriptStays ==
    Spec => [](script \in Script)
<1>1. Init => script \in Script
  BY DEF Init
<1>2. script \in Script /\ [Next]_vars => (script \in Script)'
  BY Zenon
     DEF Next, vars, Connect, Update, Close, Send, Poll, FlushDelayed, SetNetworkConditions
<1> QED
  BY <1>1, <1>2, PTL DEF Spec

(* Whatever message a Send is given, its payload decodes to that message and*)
(* only as a whole: the readers of Serialization.cpp give back what its     *)
(* writers wrote, for every number a field can hold and any number of       *)
(* entities, and BinaryReader refuses a payload that is cut or has bytes    *)
(* after it.                                                                *)
THEOREM PayloadsDecode ==
    Spec => []PayloadsDecodeWhole
<1>1. script \in Script => PayloadsDecodeWhole
  <2> SUFFICES ASSUME script \in Script,
                      NEW i \in UNION {Range(script[d]) : d \in Direction},
                      NEW whole \in {Serialize(i.class, i.message)},
                      NEW n \in 0..(Len(whole) + 1)
               PROVE  Deserialize(i.class, SubSeq(Append(whole, 0), 1, n))
                        = IF SubSeq(Append(whole, 0), 1, n) = whole THEN i.message ELSE Refused
    BY Zenon DEF PayloadsDecodeWhole
  <2>1. i \in Item
    BY ScriptItems
  <2>2. whole \in Seq(Byte) /\ whole = Serialize(i.class, i.message)
    BY <2>1, ItemRoundTrip
  <2>3. PICK bytes : bytes = SubSeq(Append(whole, 0), 1, n)
    BY Zenon
  <2>4. Deserialize(i.class, bytes) = IF bytes = whole THEN i.message ELSE Refused
    BY <2>1, <2>2, <2>3, CutDecodes, Zenon
  <2> QED
    BY <2>3, <2>4
<1> QED
  BY <1>1, ScriptStays, PTL

-----------------------------------------------------------------------------
(* Transport packets and signals.                                           *)

(* Transport packets.  What decodes to an envelope is the envelope it was   *)
(* made from.                                                               *)
PacketHeader ==
    <<PodField("protocolVersion", 2), PodField("peerId", 4),
      EnumField("channel", NetworkChannel),
      EnumField("messageClass", MessageClass),
      PodField("sequence", 4), PodField("payloadSize", 4)>>

Packable ==
    [protocolVersion : {kProtocolVersion}, peerId : Number,
     channel : Range(NetworkChannel), messageClass : Range(MessageClass),
     sequence : Number, payload : Seq(Byte)]

HeaderOf(e) ==
    [protocolVersion |-> e.protocolVersion, peerId |-> e.peerId, channel |-> e.channel,
     messageClass |-> e.messageClass, sequence |-> e.sequence, payloadSize |-> Len(e.payload)]

PacketRead(header, whole) ==
    LET envelope == FinishDecode(whole)
    IN  IF ~header.ok \/ header.fields.payloadSize > kMaxNetworkPayloadBytes
        THEN Refused
        ELSE IF envelope # Refused /\ ValidateEnvelope(envelope) THEN
            [f \in DOMAIN envelope \ {"payloadSize"} |-> envelope[f]]
        ELSE Refused

(* DecodeTransportPacket, one part after another.                           *)
LEMMA PacketSteps ==
    ASSUME NEW bytes, NEW header, header = ReadFields(Reader(bytes), PacketHeader)
    PROVE  DecodeTransportPacket(bytes)
             = PacketRead(header, ReadBytes(header, "payload", header.fields.payloadSize))
  BY DEF DecodeTransportPacket, PacketRead, PacketHeader

(* ReadBytes reads all that is left when that is as many bytes as it is     *)
(* told.                                                                    *)
LEMMA BytesRead ==
    ASSUME NEW p \in Seq(Byte), NEW fields, NEW name
    PROVE  ReadBytes(At(p, fields), name, Len(p)) = At(<<>>, With(fields, name, p))
<1> DEFINE r == At(p, fields)
<1>1. r.ok /\ r.rest = p
  BY AtParts
<1>2. ~ (Len(p) < Len(p)) /\ SubSeq(p, 1, Len(p)) = p /\ SubSeq(p, Len(p) + 1, Len(p)) = <<>>
  OBVIOUS
<1>3. PICK n : n = Len(p)
  OBVIOUS
<1>4. Drop(r, n) = At(<<>>, fields)
  BY <1>2, <1>3, AtDrops, Zenon
<1>5. Put(Drop(r, n), name, p) = At(<<>>, With(fields, name, p))
  BY <1>4, AtPuts
<1> HIDE DEF r
<1>6. ReadBytes(r, name, n) = At(<<>>, With(fields, name, p))
  BY <1>1, <1>2, <1>3, <1>5, Zenon DEF ReadBytes
<1> QED
  BY <1>3, <1>6 DEF r

(* EncodeTransportPacket and DecodeTransportPacket: a valid envelope comes  *)
(* back as it was.                                                          *)
LEMMA PacketRoundTrip ==
    ASSUME NEW e \in Packable, ValidateEnvelope(e)
    PROVE  /\ EncodeTransportPacket(e) \in Seq(Byte)
           /\ DecodeTransportPacket(EncodeTransportPacket(e)) = e
<1> DEFINE list == PacketHeader
           parts == <<Pod(2, e.protocolVersion), Pod(4, e.peerId),
                      WriteEnum(NetworkChannel, e.channel),
                      WriteEnum(MessageClass, e.messageClass), Pod(4, e.sequence),
                      Pod(4, Len(e.payload))>>
           m == HeaderOf(e)
<1>1. Len(list) = 6 /\ Len(parts) = 6
  BY DEF PacketHeader
<1>2. /\ list[1].name = "protocolVersion" /\ list[2].name = "peerId"
      /\ list[3].name = "channel" /\ list[4].name = "messageClass"
      /\ list[5].name = "sequence" /\ list[6].name = "payloadSize"
  BY FieldNames DEF PacketHeader
<1>3. PICK size \in Number : size = Len(e.payload) /\ ~ (size > kMaxNetworkPayloadBytes)
  <2>1. Len(e.payload) \in Nat
    BY DEF Packable
  <2>2. Len(e.payload) <= kMaxNetworkPayloadBytes
    BY DEF ValidateEnvelope
  <2>3. kMaxNetworkPayloadBytes \in Number
    BY TransportAssumption
  <2> QED
    BY <2>1, <2>2, <2>3 DEF Number
<1>4. /\ Codes(Pod(2, e.protocolVersion), PodField("protocolVersion", 2), e.protocolVersion)
      /\ Codes(Pod(4, e.peerId), PodField("peerId", 4), e.peerId)
      /\ Codes(Pod(4, e.sequence), PodField("sequence", 4), e.sequence)
      /\ Codes(Pod(4, size), PodField("payloadSize", 4), size)
  <2>1. e.protocolVersion \in Word /\ e.peerId \in Number /\ e.sequence \in Number
    BY DEF Packable, Word, kProtocolVersion
  <2> QED
    BY <2>1, FieldCodes DEF U16, U32
<1>5. /\ Codes(WriteEnum(NetworkChannel, e.channel), EnumField("channel", NetworkChannel), e.channel)
      /\ Codes(WriteEnum(MessageClass, e.messageClass), EnumField("messageClass", MessageClass),
               e.messageClass)
  BY EnumeratorCodes DEF Packable, Enumerations
<1>6. /\ m.protocolVersion = e.protocolVersion /\ m.peerId = e.peerId /\ m.channel = e.channel
      /\ m.messageClass = e.messageClass /\ m.sequence = e.sequence /\ m.payloadSize = size
  BY <1>3 DEF HeaderOf
<1>7. /\ Codes(parts[1], list[1], m.protocolVersion) /\ Codes(parts[2], list[2], m.peerId)
      /\ Codes(parts[3], list[3], m.channel) /\ Codes(parts[4], list[4], m.messageClass)
      /\ Codes(parts[5], list[5], m.sequence) /\ Codes(parts[6], list[6], m.payloadSize)
  <2> HIDE DEF m
  <2> QED
    BY <1>3, <1>4, <1>5, <1>6 DEF PacketHeader
<1>8. EncodeTransportPacket(e) = Concat(parts) \o e.payload
  BY DEF EncodeTransportPacket
<1>9. FieldsOf(list, m) = m
  <2> HIDE DEF list
  <2> QED
    BY <1>1, <1>2 DEF FieldsOf, Names, HeaderOf
<1>10. /\ With(m, "payload", e.payload) # Refused
       /\ ValidateEnvelope(With(m, "payload", e.payload))
       /\ [f \in DOMAIN With(m, "payload", e.payload) \ {"payloadSize"} |->
             With(m, "payload", e.payload)[f]] = e
  <2> DEFINE w == With(m, "payload", e.payload)
  <2>1. /\ w.protocolVersion = e.protocolVersion /\ w.channel = e.channel
        /\ w.messageClass = e.messageClass /\ w.payload = e.payload
    BY DEF With, HeaderOf
  <2>2. DOMAIN w = {"protocolVersion", "peerId", "channel", "messageClass", "sequence",
                    "payloadSize", "payload"}
    BY DEF With, HeaderOf
  <2>3. DOMAIN Refused = {"refused"}
    BY DEF Refused
  <2>4. w # Refused
    <3>1. "payload" \in DOMAIN w /\ "payload" \notin DOMAIN Refused
      BY <2>2, <2>3
    <3> QED
      BY <3>1
  <2>5. ValidateEnvelope(w)
    <3> HIDE DEF w
    <3> QED
      BY <2>1 DEF ValidateEnvelope
  <2>6. [f \in DOMAIN w \ {"payloadSize"} |-> w[f]] = e
    BY DEF With, HeaderOf, Packable
  <2> QED
    BY <2>4, <2>5, <2>6
<1> HIDE DEF list, parts, m
<1>11. Layout(list, parts, m)
  BY <1>1, <1>2, <1>7 DEF Layout
<1>12. PICK p \in Seq(Byte) : p = e.payload
  BY DEF Packable
<1>13. PICK h \in Seq(Byte) : h = Concat(parts)
  BY <1>11, EmptySequence, LayoutReads
<1>14. ReadFields(Reader(h \o p), PacketHeader) = At(p, m)
  <2>1. ReadFields(At(h \o p, NoFields), list) = At(p, m)
    BY <1>9, <1>11, <1>13, LayoutReads
  <2>2. Reader(h \o p) = At(h \o p, NoFields)
    BY DEF Reader, At
  <2> QED
    BY <2>1, <2>2 DEF list
<1>15. PICK header : header = At(p, m)
  OBVIOUS
<1>16. header.ok /\ header.fields = m
  BY <1>15, AtParts
<1>17. ReadBytes(header, "payload", size) = At(<<>>, With(m, "payload", p))
  BY <1>3, <1>12, <1>15, BytesRead
<1>18. DecodeTransportPacket(h \o p)
         = PacketRead(header, ReadBytes(header, "payload", header.fields.payloadSize))
  BY <1>14, <1>15, PacketSteps
<1>19. PICK w : w = With(m, "payload", p)
  OBVIOUS
<1>20. FinishDecode(At(<<>>, w)) = w
  BY FinishAt
<1>21. PacketRead(header, At(<<>>, w)) = e
  BY <1>3, <1>6, <1>10, <1>12, <1>16, <1>19, <1>20, Zenon DEF PacketRead
<1>22. h \o p \in Seq(Byte) /\ EncodeTransportPacket(e) = h \o p
  BY <1>8, <1>12, <1>13, ConcatInSeq
<1>23. DecodeTransportPacket(h \o p) = e
  BY <1>6, <1>16, <1>17, <1>18, <1>19, <1>21
<1> QED
  BY <1>22, <1>23

LEMMA BytesReadTail ==
    ASSUME NEW s \in Seq(Byte), NEW t \in Seq(Byte), NEW fields, NEW name
    PROVE  ReadBytes(At(s \o t, fields), name, Len(s)) = At(t, With(fields, name, s))
<1> DEFINE r == At(s \o t, fields)
<1>1. r.ok /\ r.rest = s \o t
  BY AtParts, Zenon
<1>2. PICK n \in Nat : n = Len(s)
  OBVIOUS
<1>3. PICK b \in Seq(Byte) : b = s \o t
  BY ConcatInSeq, Zenon
<1>4. ~ (Len(b) < n) /\ SubSeq(b, 1, n) = s /\ SubSeq(b, n + 1, Len(b)) = t
  BY <1>2, <1>3
<1>5. Drop(r, n) = At(t, fields)
  BY <1>3, <1>4, AtDrops, Zenon
<1>6. Put(Drop(r, n), name, s) = At(t, With(fields, name, s))
  BY <1>5, AtPuts
<1> HIDE DEF r
<1>7. ReadBytes(r, name, n) = At(t, With(fields, name, s))
  BY <1>1, <1>3, <1>4, <1>6, Zenon DEF ReadBytes
<1> QED
  BY <1>2, <1>7 DEF r

(* ReadString reads what WriteString wrote, and leaves what follows.        *)
LEMMA StringReads ==
    ASSUME NEW s \in Seq(Byte), Len(s) \in Number, NEW t \in Seq(Byte), NEW fields, NEW name
    PROVE  /\ WriteString(s) \in Seq(Byte)
           /\ ReadString(At(WriteString(s) \o t, fields), name) = At(t, With(fields, name, s))
<1>1. PICK n \in Number : n = Len(s)
  OBVIOUS
<1>2. PICK k \in Seq(Byte) : k = Pod(4, n) /\ Codes(k, PodField("size", 4), n)
  <2>1. Codes(U32(n), PodField("size", 4), n)
    BY FieldCodes
  <2>2. U32(n) \in Seq(Byte)
    BY <2>1 DEF Codes
  <2> QED
    BY <2>1, <2>2 DEF U32
<1>3. WriteString(s) = k \o s /\ k \o s \in Seq(Byte)
  BY <1>1, <1>2, ConcatInSeq DEF WriteString
<1>4. (k \o s) \o t = k \o (s \o t)
  BY SMTT(30)
<1>5. PICK st \in Seq(Byte) : st = s \o t
  BY ConcatInSeq, Zenon
<1> DEFINE r == At(k \o st, fields)
           one == With(NoFields, "size", n)
           size == At(st, one)
<1>6. ReadFields(r, Fields(4, <<"size">>)) = size
  <2>1. PodField("size", 4).name = "size"
    BY FieldNames
  <2> QED
    BY <1>2, <2>1, OneReads, OneField
<1>7. size.ok /\ size.fields.size = n
  <2>1. one["size"] = n
    BY WithOne
  <2> HIDE DEF one
  <2>2. size.fields = one /\ size.ok
    BY AtParts
  <2> HIDE DEF size
  <2> QED
    BY <2>1, <2>2
<1>8. Having(size, r.fields) = At(st, fields)
  <2>1. r.fields = fields
    BY AtParts
  <2> QED
    BY <2>1, AtHaving
<1>9. ReadBytes(At(st, fields), name, n) = At(t, With(fields, name, s))
  BY <1>1, <1>5, BytesReadTail
<1> HIDE DEF size, r
<1>10. ReadString(r, name) = At(t, With(fields, name, s))
  BY <1>6, <1>7, <1>8, <1>9 DEF ReadString, ReadSized
<1> QED
  BY <1>3, <1>4, <1>5, <1>10 DEF r

SignalHeader == <<EnumField("kind", SignalKind)>> \o Fields(4, <<"sender", "target", "sequence">>)

SignalRead(header) ==
    LET m == FinishDecode(ReadString(ReadString(header, "sessionId"), "payload"))
    IN  IF m # Refused /\ ValidateRtcSignalingMessage(m) THEN m ELSE Refused

LEMMA SignalSteps ==
    ASSUME NEW bytes
    PROVE  DeserializeRtcSignalingMessage(bytes) = SignalRead(ReadFields(Reader(bytes), SignalHeader))
  BY DEF DeserializeRtcSignalingMessage, SignalRead, SignalHeader

(* SerializeRtcSignalingMessage and its inverse.                            *)
LEMMA SignalRoundTrip ==
    ASSUME NEW m \in Signal
    PROVE  /\ SerializeRtcSignalingMessage(m) \in Seq(Byte)
           /\ DeserializeRtcSignalingMessage(SerializeRtcSignalingMessage(m)) = m
           /\ m # Refused /\ ValidateRtcSignalingMessage(m)
<1> DEFINE list == SignalHeader
           parts == <<WriteEnum(SignalKind, m.kind), Pod(4, m.sender), Pod(4, m.target),
                      Pod(4, m.sequence)>>
<1>1. Len(list) = 4 /\ Len(parts) = 4
  BY DEF Fields, SignalHeader
<1>2. /\ list[1] = EnumField("kind", SignalKind) /\ list[2] = PodField("sender", 4)
      /\ list[3] = PodField("target", 4) /\ list[4] = PodField("sequence", 4)
  BY DEF Fields, SignalHeader
<1>3. /\ list[1].name = "kind" /\ list[2].name = "sender"
      /\ list[3].name = "target" /\ list[4].name = "sequence"
  BY <1>2, FieldNames
<1>4. m.sender \in Number /\ m.target \in Number /\ m.sequence \in Number
  BY DEF Signal, Pair, Server, Nobody, Number
<1>5. m.kind \in Range(SignalKind)
  BY DEF Signal, SignalKind, Range
<1>6. /\ Codes(parts[1], list[1], m.kind) /\ Codes(parts[2], list[2], m.sender)
      /\ Codes(parts[3], list[3], m.target) /\ Codes(parts[4], list[4], m.sequence)
  <2>1. Codes(WriteEnum(SignalKind, m.kind), EnumField("kind", SignalKind), m.kind)
    BY <1>5, EnumeratorCodes DEF Enumerations
  <2> HIDE DEF list
  <2> QED
    BY <1>2, <1>4, <2>1, FieldCodes DEF U32
<1> HIDE DEF list, parts
<1>7. Layout(list, parts, m)
  BY <1>1, <1>3, <1>6 DEF Layout
<1>8. With(With(FieldsOf(list, m), "sessionId", m.sessionId), "payload", m.payload) = m
  BY <1>1, <1>3 DEF With, FieldsOf, Names, Signal
<1>9. PICK h \in Seq(Byte) :
        /\ h = Concat(parts)
        /\ \A t \in Seq(Byte) : \A fields :
             ReadFields(At(h \o t, fields), list) = At(t, FieldsOf(list, m))
  <2>1. Concat(parts) \in Seq(Byte)
    BY <1>7, EmptySequence, LayoutReads, Zenon
  <2>2. ASSUME NEW t \in Seq(Byte), NEW fields
        PROVE  ReadFields(At(Concat(parts) \o t, fields), list) = At(t, FieldsOf(list, m))
    BY <1>7, LayoutReads
  <2> QED
    BY <2>1, <2>2
<1>10. PICK s \in Seq(Byte) : s = m.sessionId /\ Len(s) \in Number /\ s # <<>>
  <2>1. m.sessionId = <<1>>
    BY DEF Signal
  <2>2. <<1>> \in Seq(Byte) /\ Len(<<1>>) = 1 /\ <<1>> # <<>>
    BY DEF Byte
  <2>3. 1 \in Number
    BY DEF Number
  <2> QED
    BY <2>1, <2>2, <2>3, Zenon
<1>11. PICK l \in Seq(Byte) : l = m.payload /\ Len(l) \in Number
  <2>1. m.payload = <<>> \/ m.payload = <<2, 3>>
    BY DEF Signal
  <2>2. <<2, 3>> \in Seq(Byte) /\ Len(<<2, 3>>) = 2
    BY DEF Byte
  <2>3. 2 \in Number /\ 0 \in Number
    BY DEF Number
  <2> QED
    BY <2>1, <2>2, <2>3, EmptySequence, Zenon
<1>12. PICK a \in Seq(Byte) :
         /\ a = WriteString(s)
         /\ \A t \in Seq(Byte) : \A fields :
              ReadString(At(a \o t, fields), "sessionId") = At(t, With(fields, "sessionId", s))
  <2>1. WriteString(s) \in Seq(Byte)
    BY <1>10, EmptySequence, StringReads, Zenon
  <2> QED
    BY <1>10, <2>1, StringReads
<1>13. PICK b \in Seq(Byte) :
         /\ b = WriteString(l)
         /\ \A t \in Seq(Byte) : \A fields :
              ReadString(At(b \o t, fields), "payload") = At(t, With(fields, "payload", l))
  <2>1. WriteString(l) \in Seq(Byte)
    BY <1>11, EmptySequence, StringReads, Zenon
  <2> QED
    BY <1>11, <2>1, StringReads
<1>14. SerializeRtcSignalingMessage(m) = (h \o a) \o b
  BY <1>9, <1>10, <1>11, <1>12, <1>13 DEF SerializeRtcSignalingMessage, parts
<1>15. (h \o a) \o b = h \o (a \o b) /\ (h \o a) \o b \in Seq(Byte)
  BY SMTT(30)
<1>16. PICK ab \in Seq(Byte) : ab = a \o b
  BY ConcatInSeq, Zenon
<1>17. Reader(h \o ab) = At(h \o ab, NoFields)
  BY DEF Reader, At
<1>18. ReadFields(Reader(h \o ab), SignalHeader) = At(ab, FieldsOf(list, m))
  BY <1>9, <1>17 DEF list
<1> DEFINE f1 == FieldsOf(list, m)
           f2 == With(f1, "sessionId", s)
           f3 == With(f2, "payload", l)
<1>19. f3 = m
  BY <1>8, <1>10, <1>11
<1> HIDE DEF f1, f2, f3
<1>20. ReadString(At(ab, f1), "sessionId") = At(b, f2)
  BY <1>12, <1>16 DEF f2
<1>21. ReadString(At(b, f2), "payload") = At(<<>>, f3)
  <2>1. b \o <<>> = b
    BY EmptyConcat
  <2>2. ReadString(At(b \o <<>>, f2), "payload") = At(<<>>, With(f2, "payload", l))
    BY <1>13, EmptySequence, Zenon
  <2> QED
    BY <2>1, <2>2 DEF f3
<1>22. ValidateRtcSignalingMessage(m)
  <2>1. m.sender # 0
    BY DEF Signal, Pair, Server
  <2> QED
    BY <1>10, <2>1 DEF ValidateRtcSignalingMessage
<1>23. m # Refused
  <2>1. DOMAIN m = {"kind", "sender", "target", "sequence", "sessionId", "payload"}
    BY DEF Signal
  <2>2. DOMAIN Refused = {"refused"}
    BY DEF Refused
  <2>3. "kind" \in DOMAIN m /\ "kind" \notin DOMAIN Refused
    BY <2>1, <2>2
  <2> QED
    BY <2>3
<1>24. SignalRead(At(ab, f1)) = m
  BY <1>19, <1>20, <1>21, <1>22, <1>23, FinishAt DEF SignalRead
<1>25. DeserializeRtcSignalingMessage(h \o ab) = m
  BY <1>18, <1>24, SignalSteps DEF f1
<1> QED
  BY <1>14, <1>15, <1>16, <1>22, <1>23, <1>25

(* A signal comes out of the hub as it went in.                             *)
LEMMA SignalArrives ==
    ASSUME NEW m \in Signal
    PROVE  SignalBytes[m] \in Range(SignalBytes) /\ SignalOf[SignalBytes[m]] = m
<1>1. SignalBytes[m] = SerializeRtcSignalingMessage(m) /\ SignalBytes[m] \in Range(SignalBytes)
  BY DEF SignalBytes, Range
<1>2. SignalOf[SignalBytes[m]] = DeserializeRtcSignalingMessage(SignalBytes[m])
  BY <1>1 DEF SignalOf
<1> QED
  BY <1>1, <1>2, SignalRoundTrip

LEMMA SignalsOnly ==
    ASSUME NEW b \in Range(SignalBytes)
    PROVE  SignalOf[b] \in Signal /\ SignalOf[b] # Refused
<1>1. PICK m \in Signal : b = SignalBytes[m]
  BY DEF Range, SignalBytes
<1> QED
  BY <1>1, SignalArrives, SignalRoundTrip

-----------------------------------------------------------------------------
(* Queues.  The elements at given places, and sequences of envelopes that   *)
(* follow each other.                                                       *)

AppendsToSecond(a, b, e) == Append(a \o b, e) = a \o Append(b, e)

LEMMA AppendConcat ==
    ASSUME NEW S, NEW a \in Seq(S), NEW b \in Seq(S), NEW e \in S
    PROVE  AppendsToSecond(a, b, e)
  BY DEF AppendsToSecond

LEMMA OneElement ==
    ASSUME NEW S, NEW e \in S
    PROVE  <<e>> \in Seq(S) /\ Append(<<>>, e) = <<e>>
  OBVIOUS

(* Sets of places: all of a queue's, none of them, those that stay when the *)
(* queue gets longer, and those that move up when its first element leaves. *)
AllPlaces(queue, places) == \A i \in 1..Len(queue) : i \in places
NoPlaces(queue, places) == \A i \in 1..Len(queue) : i \notin places
SamePlaces(queue, places, more) == \A i \in 1..Len(queue) : i \in more <=> i \in places
MovedPlaces(queue, places, fewer) ==
    \A i \in 1..Len(Tail(queue)) : i \in fewer <=> i + 1 \in places

KeptStart(x) == <<>>
KeptPass(x, i, s) == IF i \in x.places THEN Append(s, x.queue[i]) ELSE s
Keeping == INSTANCE Iteration WITH Start <- KeptStart, Pass <- KeptPass

(* What is kept of the first i elements.                                    *)
Kept(queue, places, i) ==
    (CHOOSE g : Keeping!IsLoop(g, [queue |-> queue, places |-> places], Len(queue)))[i]

(* Each pass, the i-th element being kept or not.                           *)
KeepsNext(queue, places, i) ==
    Kept(queue, places, i) = IF i \in places THEN Append(Kept(queue, places, i - 1), queue[i])
                             ELSE Kept(queue, places, i - 1)

(* The loop of ElementsAt, one pass at a time.                              *)
LEMMA ElementsUnroll ==
    ASSUME NEW queue, NEW places, Len(queue) \in Nat
    PROVE  /\ ElementsAt(queue, places) = Kept(queue, places, Len(queue))
           /\ Kept(queue, places, 0) = <<>>
           /\ \A i \in 1..Len(queue) : KeepsNext(queue, places, i)
<1> DEFINE x == [queue |-> queue, places |-> places]
<1> DEFINE f == CHOOSE g : Keeping!IsLoop(g, x, Len(queue))
<1>1. ElementsAt(queue, places) = f[Len(queue)]
  BY DEF ElementsAt, Keeping!IsLoop, KeptStart, KeptPass
<1>2. f[0] = KeptStart(x) /\ \A i \in 1..Len(queue) : f[i] = KeptPass(x, i, f[i - 1])
  <2> HIDE DEF x
  <2> QED
    BY Keeping!LoopUnrolls
<1>3. \A i : f[i] = Kept(queue, places, i)
  BY DEF Kept
<1> HIDE DEF f
<1> QED
  BY <1>1, <1>2, <1>3, Zenon DEF KeptStart, KeptPass, KeepsNext

LEMMA KeptTyped ==
    ASSUME NEW S, NEW queue \in Seq(S), NEW places
    PROVE  \A i \in 0..Len(queue) : Kept(queue, places, i) \in Seq(S)
<1> Len(queue) \in Nat
  OBVIOUS
<1> DEFINE T == {i \in 0..Len(queue) : Kept(queue, places, i) \in Seq(S)}
<1>1. 0 \in T
  <2>1. Kept(queue, places, 0) = <<>>
    BY ElementsUnroll
  <2>2. Kept(queue, places, 0) \in Seq(S)
    BY <2>1, EmptySequence, Zenon
  <2> QED
    BY <2>2
<1>2. ASSUME NEW i \in 1..Len(queue), i - 1 \in T PROVE i \in T
  <2>1. Kept(queue, places, i - 1) \in Seq(S) /\ queue[i] \in S
    BY <1>2
  <2>2. KeepsNext(queue, places, i)
    BY ElementsUnroll, Zenon
  <2>3. Kept(queue, places, i) \in Seq(S)
    BY <2>1, <2>2 DEF KeepsNext
  <2> QED
    BY <2>3
<1> HIDE DEF T
<1>3. 0..Len(queue) \subseteq T
  BY <1>1, <1>2, InductionUpTo, Zenon
<1> QED
  BY <1>3 DEF T

(* The elements at some places are of the queue's type.                     *)
LEMMA ElementsTyped ==
    ASSUME NEW S, NEW queue \in Seq(S), NEW places
    PROVE  ElementsAt(queue, places) \in Seq(S)
<1> Len(queue) \in Nat /\ Len(queue) \in 0..Len(queue)
  OBVIOUS
<1> QED
  BY ElementsUnroll, KeptTyped

(* The elements at all places are the queue.                                *)
LEMMA ElementsAll ==
    ASSUME NEW S, NEW queue \in Seq(S), NEW places, AllPlaces(queue, places)
    PROVE  ElementsAt(queue, places) = queue
<1> Len(queue) \in Nat
  OBVIOUS
<1> DEFINE T == {i \in 0..Len(queue) : Kept(queue, places, i) = SubSeq(queue, 1, i)}
<1>1. 0 \in T
  <2>1. Kept(queue, places, 0) = <<>>
    BY ElementsUnroll
  <2>2. SubSeq(queue, 1, 0) = <<>>
    BY PrefixEnds
  <2>3. Kept(queue, places, 0) = SubSeq(queue, 1, 0)
    BY <2>1, <2>2, Zenon
  <2> QED
    BY <2>3
<1>2. ASSUME NEW i \in 1..Len(queue), i - 1 \in T PROVE i \in T
  <2>1. Kept(queue, places, i - 1) = SubSeq(queue, 1, i - 1)
    BY <1>2
  <2>2. Kept(queue, places, i) = Append(Kept(queue, places, i - 1), queue[i])
    <3>1. KeepsNext(queue, places, i)
      BY ElementsUnroll, Zenon
    <3> QED
      BY <3>1 DEF KeepsNext, AllPlaces
  <2>3. Kept(queue, places, i) = SubSeq(queue, 1, i)
    BY <2>1, <2>2, PrefixGrows
  <2> QED
    BY <2>3
<1> HIDE DEF T
<1>3. 0..Len(queue) \subseteq T
  BY <1>1, <1>2, InductionUpTo, Zenon
<1>4. Kept(queue, places, Len(queue)) = SubSeq(queue, 1, Len(queue))
  BY <1>3 DEF T
<1> QED
  BY <1>4, ElementsUnroll, PrefixEnds

(* Those at no place are none.                                              *)
LEMMA ElementsNone ==
    ASSUME NEW queue, Len(queue) \in Nat, NEW places, NoPlaces(queue, places)
    PROVE  ElementsAt(queue, places) = <<>>
<1> DEFINE T == {i \in 0..Len(queue) : Kept(queue, places, i) = <<>>}
<1>1. 0 \in T
  BY ElementsUnroll
<1>2. ASSUME NEW i \in 1..Len(queue), i - 1 \in T PROVE i \in T
  <2>1. Kept(queue, places, i - 1) = <<>>
    BY <1>2
  <2>2. Kept(queue, places, i) = Kept(queue, places, i - 1)
    <3>1. KeepsNext(queue, places, i)
      BY ElementsUnroll, Zenon
    <3> QED
      BY <3>1 DEF KeepsNext, NoPlaces
  <2> QED
    BY <2>1, <2>2
<1> HIDE DEF T
<1>3. 0..Len(queue) \subseteq T
  BY <1>1, <1>2, InductionUpTo, Zenon
<1>4. Kept(queue, places, Len(queue)) = <<>>
  BY <1>3 DEF T
<1> QED
  BY <1>4, ElementsUnroll

(* An element appended to the queue is appended to those of a set of places *)
(* that has its place, and to no others.                                    *)
LEMMA ElementsAppend ==
    ASSUME NEW S, NEW queue \in Seq(S), NEW e \in S, NEW places, NEW more,
           SamePlaces(queue, places, more)
    PROVE  ElementsAt(Append(queue, e), more)
             = IF Len(queue) + 1 \in more THEN Append(ElementsAt(queue, places), e)
               ELSE ElementsAt(queue, places)
<1> Len(queue) \in Nat
  OBVIOUS
<1>1. PICK longer \in Seq(S) : longer = Append(queue, e) /\ Len(longer) \in Nat
  <2>1. Append(queue, e) \in Seq(S) /\ Len(Append(queue, e)) \in Nat
    OBVIOUS
  <2> QED
    BY <2>1, Zenon
<1> Len(longer) \in Nat
  BY <1>1
<1>2. /\ Len(longer) = Len(queue) + 1 /\ longer[Len(queue) + 1] = e
      /\ \A i \in 1..Len(queue) : longer[i] = queue[i] /\ i \in 1..Len(longer)
  BY <1>1
<1> DEFINE T == {i \in 0..Len(queue) : Kept(longer, more, i) = Kept(queue, places, i)}
<1>3. 0 \in T
  BY ElementsUnroll
<1>4. ASSUME NEW i \in 1..Len(queue), i - 1 \in T PROVE i \in T
  <2>1. Kept(longer, more, i - 1) = Kept(queue, places, i - 1)
    BY <1>4
  <2>2. longer[i] = queue[i] /\ i \in 1..Len(longer) /\ (i \in more <=> i \in places)
    BY <1>2 DEF SamePlaces
  <2>3. KeepsNext(longer, more, i)
    BY <2>2, ElementsUnroll, Zenon
  <2>4. KeepsNext(queue, places, i)
    BY ElementsUnroll, Zenon
  <2> QED
    BY <2>1, <2>2, <2>3, <2>4, SMTT(30) DEF KeepsNext
<1> HIDE DEF T
<1>5. 0..Len(queue) \subseteq T
  BY <1>3, <1>4, InductionUpTo, Zenon
<1>6. Kept(longer, more, Len(queue)) = Kept(queue, places, Len(queue))
  BY <1>5 DEF T
<1>7. PICK n \in Nat : n = Len(queue) /\ n + 1 \in 1..Len(longer) /\ (n + 1) - 1 = n
  BY <1>2
<1>8. Kept(longer, more, n + 1) = IF n + 1 \in more THEN Append(Kept(longer, more, n), longer[n + 1])
                                  ELSE Kept(longer, more, n)
  <2>1. PICK k \in 1..Len(longer) : k = n + 1 /\ k - 1 = n
    BY <1>7
  <2>2. KeepsNext(longer, more, k)
    BY ElementsUnroll, Zenon
  <2> QED
    BY <2>1, <2>2 DEF KeepsNext
<1>9. ElementsAt(longer, more) = Kept(longer, more, n + 1) /\ ElementsAt(queue, places) = Kept(queue, places, n)
  BY <1>2, <1>7, ElementsUnroll
<1> QED
  BY <1>1, <1>2, <1>6, <1>7, <1>8, <1>9

(* What the first element contributes.                                      *)
FirstAt(queue, places) == IF 1 \in places THEN <<queue[1]>> ELSE <<>>

(* The elements of a queue at some places are its first, if that place is   *)
(* one of them, and those of the rest at the places before.                 *)
LEMMA ElementsTail ==
    ASSUME NEW S, NEW queue \in Seq(S), queue # <<>>, NEW places, NEW fewer,
           MovedPlaces(queue, places, fewer)
    PROVE  ElementsAt(queue, places) = FirstAt(queue, places) \o ElementsAt(Tail(queue), fewer)
<1> Len(queue) \in Nat
  OBVIOUS
<1>1. PICK rest \in Seq(S) : rest = Tail(queue) /\ Len(rest) \in Nat
  <2>1. Tail(queue) \in Seq(S) /\ Len(Tail(queue)) \in Nat
    OBVIOUS
  <2> QED
    BY <2>1, Zenon
<1> Len(rest) \in Nat
  BY <1>1
<1>2. /\ Len(queue) = Len(rest) + 1 /\ 1 \in 1..Len(queue)
      /\ \A i \in 1..Len(rest) : rest[i] = queue[i + 1] /\ i + 1 \in 1..Len(queue)
  BY <1>1
<1>3. PICK first \in Seq(S) : first = FirstAt(queue, places)
  <2>1. queue[1] \in S
    BY <1>2
  <2> QED
    BY <2>1, EmptySequence, OneElement, Zenon DEF FirstAt
<1> DEFINE T == {i \in 0..Len(rest) : Kept(queue, places, i + 1) = first \o Kept(rest, fewer, i)}
<1>4. 0 \in T
  <2>1. Kept(queue, places, 0) = <<>> /\ Kept(rest, fewer, 0) = <<>>
    BY ElementsUnroll
  <2>2. Kept(queue, places, 1) = IF 1 \in places THEN Append(<<>>, queue[1]) ELSE <<>>
    <3>1. KeepsNext(queue, places, 1)
      BY <1>2, ElementsUnroll, Zenon
    <3>2. 1 - 1 = 0
      OBVIOUS
    <3> QED
      BY <2>1, <3>1, <3>2, Zenon DEF KeepsNext
  <2>3. Append(<<>>, queue[1]) = <<queue[1]>>
    OBVIOUS
  <2>4. Kept(queue, places, 1) = first
    BY <1>3, <2>2, <2>3 DEF FirstAt
  <2>5. first \o <<>> = first
    BY EmptyConcat
  <2> QED
    BY <2>1, <2>4, <2>5
<1>5. ASSUME NEW i \in 1..Len(rest), i - 1 \in T PROVE i \in T
  <2>1. Kept(queue, places, i) = first \o Kept(rest, fewer, i - 1)
    BY <1>5
  <2>2. rest[i] = queue[i + 1] /\ (i \in fewer <=> i + 1 \in places) /\ rest[i] \in S
    BY <1>1, <1>2 DEF MovedPlaces
  <2>3. PICK k \in 1..Len(queue) : k = i + 1 /\ k - 1 = i
    BY <1>2
  <2>4. KeepsNext(queue, places, k)
    BY ElementsUnroll, Zenon
  <2>5. KeepsNext(rest, fewer, i)
    BY ElementsUnroll, Zenon
  <2>6. PICK s \in Seq(S) : s = Kept(rest, fewer, i - 1)
    <3>1. i - 1 \in 0..Len(rest)
      OBVIOUS
    <3> QED
      BY <3>1, KeptTyped
  <2>7. Append(first \o s, rest[i]) = first \o Append(s, rest[i])
    <3>1. PICK e \in S : e = rest[i]
      BY <2>2
    <3>2. AppendsToSecond(first, s, e)
      BY AppendConcat
    <3> QED
      BY <3>1, <3>2 DEF AppendsToSecond
  <2>8. Kept(queue, places, i + 1) = first \o Kept(rest, fewer, i)
    BY <2>1, <2>2, <2>3, <2>4, <2>5, <2>6, <2>7, Zenon DEF KeepsNext
  <2> QED
    BY <2>8
<1> HIDE DEF T
<1>6. 0..Len(rest) \subseteq T
  BY <1>4, <1>5, InductionUpTo, Zenon
<1>7. Kept(queue, places, Len(rest) + 1) = first \o Kept(rest, fewer, Len(rest))
  <2>1. Len(rest) \in T
    BY <1>6
  <2> QED
    BY <2>1 DEF T
<1> QED
  BY <1>1, <1>2, <1>3, <1>7, ElementsUnroll, Zenon

(* Sequences of envelopes: `seen` holds some of what `sent` holds, in the   *)
(* same order, each at a place of its own.                                  *)
Matches(seen, sends, place) ==
    /\ place \in [DOMAIN seen -> DOMAIN sends]
    /\ \A i \in DOMAIN seen : Content(sends[place[i]]) = Content(seen[i])
    /\ \A i, j \in DOMAIN seen : i < j => place[i] < place[j]
Follows(seen, sends) == \E place : Matches(seen, sends, place)

(* No content occurs twice.                                                 *)
Apart(s) == \A i, j \in DOMAIN s : i # j => Content(s[i]) # Content(s[j])

(* Nothing follows nothing.                                                 *)
LEMMA FollowsEmpty ==
    Follows(<<>>, <<>>)
<1> DEFINE place == [i \in {} |-> i]
<1>1. place \in [{} -> {}]
  OBVIOUS
<1>2. DOMAIN <<>> = {}
  OBVIOUS
<1> HIDE DEF place
<1>3. Matches(<<>>, <<>>, place)
  BY <1>1, <1>2 DEF Matches
<1> QED
  BY <1>3 DEF Follows

(* What follows still does when the same message is appended to both.       *)
LEMMA FollowsAppend ==
    ASSUME NEW S, NEW seen \in Seq(S), NEW sends \in Seq(S), Follows(seen, sends),
           NEW r \in S, NEW e \in S, Content(r) = Content(e)
    PROVE  Follows(Append(seen, r), Append(sends, e))
<1>1. PICK place : Matches(seen, sends, place)
  BY DEF Follows
<1>2. PICK n \in Nat : n = Len(seen) /\ DOMAIN seen = 1..n
  OBVIOUS
<1>3. PICK m \in Nat : m = Len(sends) /\ DOMAIN sends = 1..m
  OBVIOUS
<1>4. PICK seen2 \in Seq(S) : /\ seen2 = Append(seen, r) /\ DOMAIN seen2 = 1..(n + 1)
                              /\ seen2[n + 1] = r /\ \A i \in 1..n : seen2[i] = seen[i]
  <2>1. /\ Append(seen, r) \in Seq(S) /\ DOMAIN Append(seen, r) = 1..(n + 1)
        /\ Append(seen, r)[n + 1] = r /\ \A i \in 1..n : Append(seen, r)[i] = seen[i]
    BY <1>2
  <2> QED
    BY <2>1, Zenon
<1>5. PICK sends2 \in Seq(S) : /\ sends2 = Append(sends, e) /\ DOMAIN sends2 = 1..(m + 1)
                               /\ sends2[m + 1] = e /\ \A i \in 1..m : sends2[i] = sends[i]
  <2>1. /\ Append(sends, e) \in Seq(S) /\ DOMAIN Append(sends, e) = 1..(m + 1)
        /\ Append(sends, e)[m + 1] = e /\ \A i \in 1..m : Append(sends, e)[i] = sends[i]
    BY <1>3
  <2> QED
    BY <2>1, Zenon
<1> DEFINE place2 == [i \in 1..(n + 1) |-> IF i = n + 1 THEN m + 1 ELSE place[i]]
<1>6. /\ \A i \in 1..n : place[i] \in 1..m /\ Content(sends[place[i]]) = Content(seen[i])
      /\ \A i, j \in 1..n : i < j => place[i] < place[j]
  BY <1>1, <1>2, <1>3, Zenon DEF Matches
<1>7. place2 \in [1..(n + 1) -> 1..(m + 1)]
  BY <1>6
<1>8. place2[n + 1] = m + 1 /\ \A i \in 1..n : place2[i] = place[i]
  OBVIOUS
<1> HIDE DEF place2
<1>9. \A i \in 1..(n + 1) : Content(sends2[place2[i]]) = Content(seen2[i])
  <2> TAKE i \in 1..(n + 1)
  <2>1. CASE i = n + 1
    BY <1>4, <1>5, <1>8, <2>1
  <2>2. CASE i # n + 1
    <3>1. i \in 1..n
      BY <2>2
    <3> QED
      BY <1>4, <1>5, <1>6, <1>8, <3>1
  <2> QED
    BY <2>1, <2>2
<1>10. \A i, j \in 1..(n + 1) : i < j => place2[i] < place2[j]
  <2> SUFFICES ASSUME NEW i \in 1..(n + 1), NEW j \in 1..(n + 1), i < j PROVE place2[i] < place2[j]
    OBVIOUS
  <2>1. i \in 1..n /\ place2[i] = place[i] /\ place[i] \in 1..m
    BY <1>6, <1>8
  <2>2. CASE j = n + 1
    BY <1>8, <2>1, <2>2
  <2>3. CASE j # n + 1
    <3>1. j \in 1..n
      BY <2>3
    <3> QED
      BY <1>6, <1>8, <2>1, <3>1
  <2> QED
    BY <2>2, <2>3
<1>11. Matches(seen2, sends2, place2)
  BY <1>4, <1>5, <1>7, <1>9, <1>10, Zenon DEF Matches
<1> QED
  BY <1>4, <1>5, <1>11 DEF Follows

(* The middle of a sequence is lost.                                        *)
LEMMA FollowsCut ==
    ASSUME NEW S, NEW a \in Seq(S), NEW b \in Seq(S), NEW c \in Seq(S), NEW sends \in Seq(S),
           Follows(a \o b \o c, sends)
    PROVE  Follows(a \o c, sends)
<1>1. PICK place : Matches(a \o b \o c, sends, place)
  BY DEF Follows
<1>2. PICK m \in Nat : m = Len(sends) /\ DOMAIN sends = 1..m
  OBVIOUS
<1>3. PICK na \in Nat, nb \in Nat, nc \in Nat : na = Len(a) /\ nb = Len(b) /\ nc = Len(c)
  OBVIOUS
<1>4. PICK long \in Seq(S) :
        /\ long = a \o b \o c /\ DOMAIN long = 1..(na + nb + nc)
        /\ \A i \in 1..na : long[i] = a[i]
        /\ \A i \in 1..nc : long[na + nb + i] = c[i]
  <2>1. a \o b \o c \in Seq(S) /\ DOMAIN (a \o b \o c) = 1..(na + nb + nc)
    BY <1>3
  <2>2. \A i \in 1..na : (a \o b \o c)[i] = a[i]
    BY <1>3
  <2>3. \A i \in 1..nc : (a \o b \o c)[na + nb + i] = c[i]
    BY <1>3
  <2> QED
    BY <2>1, <2>2, <2>3, Zenon
<1>5. PICK short \in Seq(S) :
        /\ short = a \o c /\ DOMAIN short = 1..(na + nc)
        /\ \A i \in 1..na : short[i] = a[i]
        /\ \A i \in 1..nc : short[na + i] = c[i]
  <2>1. a \o c \in Seq(S) /\ DOMAIN (a \o c) = 1..(na + nc)
    BY <1>3
  <2>2. \A i \in 1..na : (a \o c)[i] = a[i]
    BY <1>3
  <2>3. \A i \in 1..nc : (a \o c)[na + i] = c[i]
    BY <1>3
  <2> QED
    BY <2>1, <2>2, <2>3, Zenon
<1> DEFINE pick == [i \in 1..(na + nc) |-> IF i <= na THEN i ELSE i + nb]
           place2 == [i \in 1..(na + nc) |-> place[pick[i]]]
<1>6. /\ \A i \in 1..(na + nc) : pick[i] \in 1..(na + nb + nc)
      /\ \A i, j \in 1..(na + nc) : i < j => pick[i] < pick[j]
  OBVIOUS
<1>7. \A i \in 1..(na + nc) : short[i] = long[pick[i]]
  <2> TAKE i \in 1..(na + nc)
  <2>1. CASE i <= na
    <3>1. i \in 1..na /\ pick[i] = i
      BY <2>1
    <3> QED
      BY <1>4, <1>5, <3>1, Zenon
  <2>2. CASE ~ (i <= na)
    <3>1. PICK k \in 1..nc : i = na + k /\ pick[i] = na + nb + k
      <4>1. i - na \in 1..nc /\ i = na + (i - na) /\ pick[i] = na + nb + (i - na)
        BY <2>2
      <4> QED
        BY <4>1
    <3> HIDE DEF pick
    <3> QED
      BY <1>4, <1>5, <3>1, Zenon
  <2> QED
    BY <2>1, <2>2
<1>8. \A i \in 1..(na + nc) : place2[i] = place[pick[i]]
  OBVIOUS
<1>9. DOMAIN place2 = 1..(na + nc) /\ place2 = [i \in 1..(na + nc) |-> place2[i]]
  OBVIOUS
<1> HIDE DEF pick, place2
<1>10. /\ \A i \in 1..(na + nb + nc) :
             place[i] \in 1..m /\ Content(sends[place[i]]) = Content(long[i])
       /\ \A i, j \in 1..(na + nb + nc) : i < j => place[i] < place[j]
  BY <1>1, <1>2, <1>4, Zenon DEF Matches
<1>11. place2 \in [1..(na + nc) -> 1..m]
  <2>1. \A i \in 1..(na + nc) : place2[i] \in 1..m
    BY <1>6, <1>8, <1>10, Zenon
  <2> QED
    BY <1>9, <2>1
<1>12. \A i \in 1..(na + nc) : Content(sends[place2[i]]) = Content(short[i])
  BY <1>6, <1>7, <1>8, <1>10, Zenon
<1>13. \A i, j \in 1..(na + nc) : i < j => place2[i] < place2[j]
  BY <1>6, <1>8, <1>10, Zenon
<1>14. Matches(short, sends, place2)
  BY <1>2, <1>5, <1>11, <1>12, <1>13, Zenon DEF Matches
<1> QED
  BY <1>5, <1>14 DEF Follows

(* The contents of sequences.                                               *)
LEMMA ContentsEmpty ==
    Contents(<<>>) = {}
  BY DEF Contents, Range

LEMMA ContentsAppend ==
    ASSUME NEW S, NEW s \in Seq(S), NEW e \in S
    PROVE  Contents(Append(s, e)) = Contents(s) \cup {Content(e)}
<1>1. PICK n \in Nat : n = Len(s) /\ DOMAIN s = 1..n
  OBVIOUS
<1>2. PICK t : /\ t = Append(s, e) /\ DOMAIN t = 1..(n + 1) /\ t[n + 1] = e
               /\ \A i \in 1..n : t[i] = s[i]
  <2>1. /\ DOMAIN Append(s, e) = 1..(n + 1) /\ Append(s, e)[n + 1] = e
        /\ \A i \in 1..n : Append(s, e)[i] = s[i]
    BY <1>1
  <2> QED
    BY <2>1, Zenon
<1>3. \A i \in 1..(n + 1) : i \in 1..n \/ i = n + 1
  OBVIOUS
<1>4. n + 1 \in 1..(n + 1) /\ \A i \in 1..n : i \in 1..(n + 1)
  OBVIOUS
<1>5. Range(t) = Range(s) \cup {e}
  BY <1>1, <1>2, <1>3, <1>4, Zenon DEF Range
<1> QED
  BY <1>2, <1>5 DEF Contents

LEMMA ContentsConcat ==
    ASSUME NEW S, NEW a \in Seq(S), NEW b \in Seq(S)
    PROVE  Contents(a \o b) = Contents(a) \cup Contents(b)
<1>1. Range(a \o b) = Range(a) \cup Range(b)
  <2> DEFINE c == a \o b
  <2>1. /\ DOMAIN c = 1..(Len(a) + Len(b))
        /\ \A i \in 1..Len(a) : c[i] = a[i]
        /\ \A i \in 1..Len(b) : c[Len(a) + i] = b[i]
    OBVIOUS
  <2>2. DOMAIN a = 1..Len(a) /\ DOMAIN b = 1..Len(b) /\ Len(a) \in Nat /\ Len(b) \in Nat
    OBVIOUS
  <2> HIDE DEF c
  <2>3. ASSUME NEW i \in DOMAIN c PROVE c[i] \in Range(a) \cup Range(b)
    <3>1. CASE i <= Len(a)
      BY <2>1, <2>2, <3>1 DEF Range
    <3>2. CASE ~ (i <= Len(a))
      <4>1. i - Len(a) \in 1..Len(b) /\ i = Len(a) + (i - Len(a))
        BY <2>1, <2>2, <3>2
      <4>2. c[i] = b[i - Len(a)]
        BY <2>1, <4>1
      <4> QED
        BY <2>2, <4>1, <4>2 DEF Range
    <3> QED
      BY <3>1, <3>2
  <2>4. ASSUME NEW i \in DOMAIN a PROVE a[i] \in Range(c)
    <3>1. i \in DOMAIN c /\ c[i] = a[i]
      BY <2>1, <2>2
    <3> QED
      BY <3>1 DEF Range
  <2>5. ASSUME NEW i \in DOMAIN b PROVE b[i] \in Range(c)
    <3>1. Len(a) + i \in DOMAIN c /\ c[Len(a) + i] = b[i]
      BY <2>1, <2>2
    <3> QED
      BY <3>1 DEF Range
  <2>6. Range(c) = Range(a) \cup Range(b)
    BY <2>3, <2>4, <2>5 DEF Range
  <2> QED
    BY <2>6 DEF c
<1> QED
  BY <1>1 DEF Contents

LEMMA ContentAt ==
    ASSUME NEW S, NEW s \in Seq(S), NEW x
    PROVE  x \in Contents(s) <=> \E i \in DOMAIN s : x = Content(s[i])
  BY DEF Contents, Range

(* What follows a sequence without repetition has none.                     *)
LEMMA FollowsApart ==
    ASSUME NEW S, NEW seen \in Seq(S), NEW sends \in Seq(S), Follows(seen, sends), Apart(sends)
    PROVE  Apart(seen) /\ Contents(seen) \subseteq Contents(sends)
<1>1. PICK place : Matches(seen, sends, place)
  BY DEF Follows
<1>2. PICK n \in Nat : DOMAIN seen = 1..n
  OBVIOUS
<1>3. PICK m \in Nat : DOMAIN sends = 1..m
  OBVIOUS
<1>4. /\ \A i \in 1..n : place[i] \in 1..m /\ Content(sends[place[i]]) = Content(seen[i])
      /\ \A i, j \in 1..n : i < j => place[i] < place[j]
  BY <1>1, <1>2, <1>3, Zenon DEF Matches
<1>5. \A i, j \in 1..n : i # j => place[i] # place[j]
  <2> SUFFICES ASSUME NEW i \in 1..n, NEW j \in 1..n, i # j PROVE place[i] # place[j]
    OBVIOUS
  <2>1. place[i] \in 1..m /\ place[j] \in 1..m
    BY <1>4
  <2>2. place[i] < place[j] \/ place[j] < place[i]
    BY <1>4
  <2> QED
    BY <2>1, <2>2
<1>6. ASSUME NEW i \in 1..n, NEW j \in 1..n, i # j PROVE Content(seen[i]) # Content(seen[j])
  <2>1. place[i] \in 1..m /\ place[j] \in 1..m /\ place[i] # place[j]
    BY <1>4, <1>5, <1>6
  <2>2. Content(sends[place[i]]) # Content(sends[place[j]])
    BY <1>3, <2>1 DEF Apart
  <2> QED
    BY <1>4, <2>2
<1>7. Apart(seen)
  BY <1>2, <1>6 DEF Apart
<1>8. ASSUME NEW x \in Contents(seen) PROVE x \in Contents(sends)
  <2>1. PICK i \in 1..n : x = Content(seen[i])
    BY <1>2, ContentAt
  <2>2. place[i] \in DOMAIN sends /\ x = Content(sends[place[i]])
    BY <1>3, <1>4, <2>1
  <2> QED
    BY <2>2, ContentAt
<1> QED
  BY <1>7, <1>8

(* One more, of another content, anywhere.                                  *)
LEMMA ApartInsert ==
    ASSUME NEW S, NEW a \in Seq(S), NEW b \in Seq(S), NEW e \in S, Apart(a \o b),
           Content(e) \notin Contents(a \o b)
    PROVE  Apart(Append(a, e) \o b)
<1>1. PICK na \in Nat, nb \in Nat : na = Len(a) /\ nb = Len(b)
  OBVIOUS
<1>2. PICK ab \in Seq(S) : ab = a \o b /\ DOMAIN ab = 1..(na + nb)
  <2>1. a \o b \in Seq(S) /\ DOMAIN (a \o b) = 1..(na + nb)
    BY <1>1
  <2> QED
    BY <2>1, Zenon
<1>3. PICK aeb \in Seq(S) : aeb = Append(a, e) \o b /\ DOMAIN aeb = 1..(na + nb + 1)
  <2>1. Append(a, e) \o b \in Seq(S) /\ DOMAIN (Append(a, e) \o b) = 1..(na + nb + 1)
    BY <1>1
  <2> QED
    BY <2>1, Zenon
<1>4. /\ \A i \in 1..na : aeb[i] = ab[i]
      /\ aeb[na + 1] = e
      /\ \A i \in (na + 2)..(na + nb + 1) : aeb[i] = ab[i - 1]
  BY <1>1, <1>2, <1>3
<1> DEFINE from == [i \in 1..(na + nb + 1) |-> IF i <= na THEN i ELSE i - 1]
<1>5. /\ \A i \in 1..(na + nb + 1) : i # na + 1 => from[i] \in 1..(na + nb) /\ aeb[i] = ab[from[i]]
      /\ \A i, j \in 1..(na + nb + 1) : i # j /\ i # na + 1 /\ j # na + 1 => from[i] # from[j]
  BY <1>4
<1> HIDE DEF from
<1>6. \A i \in 1..(na + nb) : Content(ab[i]) # Content(e)
  BY <1>2, ContentAt, Zenon
<1>7. \A i, j \in 1..(na + nb) : i # j => Content(ab[i]) # Content(ab[j])
  BY <1>2, Zenon DEF Apart
<1>8. ASSUME NEW i \in 1..(na + nb + 1), NEW j \in 1..(na + nb + 1), i # j
      PROVE  Content(aeb[i]) # Content(aeb[j])
  <2>1. CASE i = na + 1
    BY <1>4, <1>5, <1>6, <1>8, <2>1
  <2>2. CASE j = na + 1
    BY <1>4, <1>5, <1>6, <1>8, <2>2
  <2>3. CASE i # na + 1 /\ j # na + 1
    <3>1. /\ from[i] \in 1..(na + nb) /\ aeb[i] = ab[from[i]]
          /\ from[j] \in 1..(na + nb) /\ aeb[j] = ab[from[j]] /\ from[i] # from[j]
      BY <1>5, <1>8, <2>3
    <3> QED
      BY <1>7, <3>1, Zenon
  <2> QED
    BY <2>1, <2>2, <2>3
<1> QED
  BY <1>3, <1>8, Zenon DEF Apart

(* The first that waits is neither among those before it nor behind it.     *)
LEMMA ApartHead ==
    ASSUME NEW S, NEW p \in Seq(S), NEW v \in Seq(S), v # <<>>, Apart(p \o v)
    PROVE  Content(Head(v)) \notin Contents(p) /\ Content(Head(v)) \notin Contents(Tail(v))
<1>1. PICK n \in Nat, k \in Nat : n = Len(p) /\ k = Len(v) /\ DOMAIN p = 1..n
  OBVIOUS
<1>2. PICK pv \in Seq(S) : pv = p \o v /\ DOMAIN pv = 1..(n + k)
  <2>1. p \o v \in Seq(S) /\ DOMAIN (p \o v) = 1..(n + k)
    BY <1>1
  <2> QED
    BY <2>1, Zenon
<1>3. k >= 1 /\ pv[n + 1] = Head(v)
  BY <1>1, <1>2
<1>4. \A i \in 1..n : pv[i] = p[i]
  BY <1>1, <1>2
<1>5. PICK t \in Seq(S) : t = Tail(v) /\ DOMAIN t = 1..(k - 1)
  <2>1. Tail(v) \in Seq(S) /\ DOMAIN Tail(v) = 1..(k - 1)
    BY <1>1
  <2> QED
    BY <2>1, Zenon
<1>6. \A i \in 1..(k - 1) : pv[n + 1 + i] = t[i]
  BY <1>1, <1>2, <1>5
<1>7. \A i, j \in 1..(n + k) : i # j => Content(pv[i]) # Content(pv[j])
  BY <1>2, Zenon DEF Apart
<1>8. ASSUME NEW i \in 1..n PROVE Content(Head(v)) # Content(p[i])
  <2>1. n + 1 \in 1..(n + k) /\ i \in 1..(n + k) /\ i # n + 1
    BY <1>3
  <2> QED
    BY <1>3, <1>4, <1>7, <2>1
<1>9. ASSUME NEW i \in 1..(k - 1) PROVE Content(Head(v)) # Content(t[i])
  <2>1. n + 1 \in 1..(n + k) /\ n + 1 + i \in 1..(n + k) /\ n + 1 + i # n + 1
    BY <1>3
  <2> QED
    BY <1>3, <1>6, <1>7, <2>1, Zenon
<1>10. Content(Head(v)) \notin Contents(p)
  BY <1>1, <1>8, ContentAt
<1>11. Content(Head(v)) \notin Contents(t)
  <2>1. \A i \in DOMAIN t : Content(Head(v)) # Content(t[i])
    BY <1>5, <1>9
  <2>2. PICK x : x = Content(Head(v))
    OBVIOUS
  <2>3. x \notin Contents(t)
    BY <2>1, <2>2, ContentAt
  <2> QED
    BY <2>2, <2>3
<1> QED
  BY <1>5, <1>10, <1>11

Valid == {e \in EnvelopeType : ValidateEnvelope(e)}

(* The header a message gets is typed.                                      *)
LEMMA ItemHeader ==
    ASSUME NEW i \in Item
    PROVE  /\ SequenceOf(i.class, i.message) \in Number
           /\ i.class \in Range(MessageClass)
           /\ ChannelOf(i.class) \in Range(NetworkChannel)
<1>1. CASE i \in [class : {"LoginRequest"}, message : LoginCommand]
  BY <1>1 DEF SequenceOf, ChannelOf, Range, MessageClass, NetworkChannel, LoginCommand
<1>2. CASE i \in [class : {"ClientInput"}, message : ClientInputPacket]
  BY <1>2 DEF SequenceOf, ChannelOf, Range, MessageClass, NetworkChannel, ClientInputPacket
<1>3. CASE i \in [class : {"Snapshot"}, message : SnapshotDTO]
  BY <1>3 DEF SequenceOf, ChannelOf, Range, MessageClass, NetworkChannel, SnapshotDTO
<1>4. CASE i \in [class : {"SnapshotAck"}, message : SnapshotAckDTO]
  BY <1>4 DEF SequenceOf, ChannelOf, Range, MessageClass, NetworkChannel, SnapshotAckDTO
<1>5. CASE i \in [class : {"CombatEvent", "SpawnAccepted", "InterestEvent"},
                  message : NetworkEventDTO]
  BY <1>5 DEF SequenceOf, ChannelOf, Range, MessageClass, NetworkChannel, NetworkEventDTO
<1>6. CASE i \in [class : {"NetworkEventAck"}, message : NetworkEventAckDTO]
  BY <1>6 DEF SequenceOf, ChannelOf, Range, MessageClass, NetworkChannel, NetworkEventAckDTO
<1>7. CASE i \in [class : {"TimeSyncRequest"}, message : TimeSyncRequest]
  BY <1>7 DEF SequenceOf, ChannelOf, Range, MessageClass, NetworkChannel, TimeSyncRequest
<1>8. CASE i \in [class : {"TimeSyncResponse"}, message : TimeSyncResponse]
  BY <1>8 DEF SequenceOf, ChannelOf, Range, MessageClass, NetworkChannel, TimeSyncResponse
<1> QED
  BY <1>1, <1>2, <1>3, <1>4, <1>5, <1>6, <1>7, <1>8 DEF Item

(* So is the envelope.                                                      *)
LEMMA EnvelopeTyped ==
    ASSUME NEW i \in Item, NEW d \in Direction
    PROVE  EnvelopeFor(d, i) \in EnvelopeType /\ EnvelopeFor(d, i) \in Packable
<1>1. PICK number \in Number : number = SequenceOf(i.class, i.message)
  BY ItemHeader
<1>2. PICK class \in Range(MessageClass) : class = i.class
  BY ItemHeader
<1>3. PICK channel \in Range(NetworkChannel) : channel = ChannelOf(i.class)
  BY ItemHeader
<1>4. PICK payload \in Seq(Byte) : payload = Serialize(i.class, i.message)
  BY ItemRoundTrip
<1>5. PICK peer \in Client \cup {0} : peer = IF d[1] = Server THEN d[2] ELSE Nobody
  BY DEF Direction, Client, Server, Nobody
<1>6. EnvelopeFor(d, i) = [protocolVersion |-> kProtocolVersion, peerId |-> peer,
        channel |-> channel, messageClass |-> class, sequence |-> number, payload |-> payload]
  BY <1>1, <1>2, <1>3, <1>4, <1>5 DEF EnvelopeFor, Envelope
<1>7. number \in Nat /\ peer \in Number
  BY DEF Number, Client
<1> QED
  BY <1>6, <1>7 DEF EnvelopeType, Packable

(* And every envelope a script's Send may build.                            *)
LEMMA ScriptTyped ==
    ASSUME NEW s \in Script, NEW d \in Direction, NEW k \in 1..Len(s[d])
    PROVE  /\ s[d] \in Seq(Item) /\ s[d][k] \in Item
           /\ EnvelopeFor(d, s[d][k]) \in EnvelopeType
           /\ EnvelopeFor(d, s[d][k]) \in Packable
           /\ EnvelopeFor(d, s[d][k]) \in Envelopes
<1>1. s[d] \in Seq(Item)
  BY ScriptAssumption
<1>2. s[d][k] \in Item /\ s[d][k] \in Range(s[d])
  BY <1>1 DEF Range
<1>3. EnvelopeFor(d, s[d][k]) \in Envelopes
  BY <1>2 DEF Envelopes
<1> QED
  BY <1>1, <1>2, <1>3, EnvelopeTyped

(* No two of a direction have the same content.                             *)
LEMMA ScriptApart ==
    ASSUME NEW s \in Script, NEW d \in Direction, NEW i \in 1..Len(s[d]), NEW j \in 1..Len(s[d]),
           i # j
    PROVE  Content(EnvelopeFor(d, s[d][i])) # Content(EnvelopeFor(d, s[d][j]))
<1>1. s[d] \in Seq(Item)
  BY ScriptAssumption
<1>2. i \in DOMAIN s[d] /\ j \in DOMAIN s[d]
  BY <1>1
<1> QED
  BY <1>2, ScriptAssumption

(* A frame of a valid envelope decodes to it.                               *)
LEMMA FrameArrives ==
    ASSUME NEW e \in Envelopes, e \in Packable, ValidateEnvelope(e)
    PROVE  FrameDecoded[Frame[e]] = e
<1>1. Frame[e] = EncodeTransportPacket(e)
  BY DEF Frame
<1>2. FrameDecoded[Frame[e]] = DecodeTransportPacket(EncodeTransportPacket(e))
  BY <1>1 DEF FrameDecoded
<1> QED
  BY <1>2, PacketRoundTrip

LEMMA ContentKeeps ==
    ASSUME NEW e \in EnvelopeType, NEW p \in Client \cup {0}
    PROVE  /\ [e EXCEPT !.peerId = p] \in EnvelopeType
           /\ Content([e EXCEPT !.peerId = p]) = Content(e)
           /\ ValidateEnvelope([e EXCEPT !.peerId = p]) <=> ValidateEnvelope(e)
<1>1. [e EXCEPT !.peerId = p] \in EnvelopeType
  BY DEF EnvelopeType
<1>2. Content([e EXCEPT !.peerId = p]) = Content(e)
  BY Zenon DEF EnvelopeType, Content
<1>3. ValidateEnvelope([e EXCEPT !.peerId = p]) <=> ValidateEnvelope(e)
  BY DEF EnvelopeType, ValidateEnvelope
<1> QED
  BY <1>1, <1>2, <1>3

(* A queue that has lost a part of what it held.                            *)
CutOf(w, v) ==
    \E a \in Seq(Valid), b \in Seq(Valid), c \in Seq(Valid) : w = a \o b \o c /\ v = a \o c

LEMMA CutOfItself ==
    ASSUME NEW w \in Seq(Valid)
    PROVE  CutOf(w, w)
<1>1. PICK none \in Seq(Valid) : none = <<>>
  BY EmptySequence, Zenon
<1>2. w \o none \o none = w /\ w \o none = w
  BY <1>1, EmptyConcat
<1> QED
  BY <1>2, Zenon DEF CutOf

LEMMA CutTyped ==
    ASSUME NEW w \in Seq(Valid), NEW v, CutOf(w, v)
    PROVE  v \in Seq(Valid) /\ Contents(v) \subseteq Contents(w)
<1>1. PICK a \in Seq(Valid), b \in Seq(Valid), c \in Seq(Valid) : w = a \o b \o c /\ v = a \o c
  BY Zenon DEF CutOf
<1>2. PICK ab \in Seq(Valid) : ab = a \o b
  BY ConcatInSeq, Zenon
<1>3. Contents(ab) = Contents(a) \cup Contents(b)
  BY <1>2, ContentsConcat
<1>4. Contents(ab \o c) = Contents(ab) \cup Contents(c)
  BY ContentsConcat
<1>5. Contents(a \o c) = Contents(a) \cup Contents(c) /\ a \o c \in Seq(Valid)
  BY ContentsConcat, ConcatInSeq
<1> QED
  BY <1>1, <1>2, <1>3, <1>4, <1>5

(* What is left of a queue after a cut follows what was sent, as all of it  *)
(* did.                                                                     *)
LEMMA CutArrives ==
    ASSUME NEW p \in Seq(Valid), NEW w \in Seq(Valid), NEW v \in Seq(Valid),
           NEW sends \in Seq(Valid), CutOf(w, v), Follows(p \o w, sends)
    PROVE  Follows(p \o v, sends)
<1>1. PICK a \in Seq(Valid), b \in Seq(Valid), c \in Seq(Valid) : w = a \o b \o c /\ v = a \o c
  BY Zenon DEF CutOf
<1>2. PICK pa \in Seq(Valid) : pa = p \o a
  BY ConcatInSeq, Zenon
<1>3. p \o (a \o b \o c) = (p \o a) \o b \o c
  BY SMTT(30)
<1>4. p \o (a \o c) = (p \o a) \o c
  BY SMTT(30)
<1>5. Follows(pa \o b \o c, sends)
  BY <1>1, <1>2, <1>3
<1>6. Follows(pa \o c, sends)
  BY <1>5, FollowsCut
<1> QED
  BY <1>1, <1>2, <1>4, <1>6

(* What was polled and what waits, before and after a poll and a send.      *)
LEMMA PolledSeen ==
    ASSUME NEW p \in Seq(Valid), NEW v \in Seq(Valid), v # <<>>
    PROVE  /\ Append(p, Head(v)) \o Tail(v) = p \o v
           /\ Head(v) \in Valid /\ Tail(v) \in Seq(Valid)
  OBVIOUS

SeenAs(p, a, b, r) ==
    /\ p \o (Append(a, r) \o b) = Append(p \o a, r) \o b
    /\ p \o (a \o b) = (p \o a) \o b
    /\ Append(a, r) \o b \in Seq(Valid)
    /\ Len(p \o (Append(a, r) \o b)) = Len(p \o (a \o b)) + 1

(* What was polled and waits, when an envelope is put among what waits.     *)
LEMMA SentSeen ==
    ASSUME NEW p \in Seq(Valid), NEW a \in Seq(Valid), NEW b \in Seq(Valid), NEW r \in Valid
    PROVE  SeenAs(p, a, b, r)
<1>1. p \o (Append(a, r) \o b) = Append(p \o a, r) \o b
  BY SMTT(30)
<1>2. p \o (a \o b) = (p \o a) \o b
  BY SMTT(30)
<1>3. Append(a, r) \o b \in Seq(Valid)
  OBVIOUS
<1>4. Len(p \o (Append(a, r) \o b)) = Len(p \o (a \o b)) + 1
  OBVIOUS
<1> QED
  BY <1>1, <1>2, <1>3, <1>4 DEF SeenAs

(* A loopback may put an envelope before those it holds back: it is still   *)
(* seen once.                                                               *)
LEMMA InsertArrives ==
    ASSUME NEW p \in Seq(Valid), NEW a \in Seq(Valid), NEW b \in Seq(Valid), NEW r \in Valid,
           NEW e \in Valid, NEW sends \in Seq(Valid), Content(r) = Content(e),
           Apart(p \o (a \o b)), Contents(p \o (a \o b)) \subseteq Contents(sends),
           Content(e) \notin Contents(sends)
    PROVE  /\ Apart(p \o (Append(a, r) \o b))
           /\ Contents(p \o (Append(a, r) \o b)) \subseteq Contents(Append(sends, e))
<1>1. PICK pa \in Seq(Valid) : pa = p \o a
  BY ConcatInSeq, Zenon
<1>2. p \o (Append(a, r) \o b) = Append(pa, r) \o b /\ p \o (a \o b) = pa \o b
  <2>1. SeenAs(p, a, b, r)
    BY SentSeen
  <2> QED
    BY <1>1, <2>1 DEF SeenAs
<1>3. Content(r) \notin Contents(pa \o b)
  BY <1>2
<1>4. Apart(Append(pa, r) \o b)
  BY <1>2, <1>3, ApartInsert
<1>5. PICK par \in Seq(Valid) : par = Append(pa, r)
  <2>1. Append(pa, r) \in Seq(Valid)
    OBVIOUS
  <2> QED
    BY <2>1, Zenon
<1>6. Contents(par) = Contents(pa) \cup {Content(r)}
  BY <1>5, ContentsAppend
<1>7. Contents(Append(sends, e)) = Contents(sends) \cup {Content(e)}
  BY ContentsAppend
<1>8. /\ Contents(par \o b) = Contents(par) \cup Contents(b)
      /\ Contents(pa \o b) = Contents(pa) \cup Contents(b)
  BY ContentsConcat
<1>9. Contents(par \o b) \subseteq Contents(Append(sends, e))
  BY <1>2, <1>6, <1>7, <1>8
<1> QED
  BY <1>2, <1>4, <1>5, <1>9

(* What a Poll returns was waiting, was not polled before and no longer     *)
(* waits.                                                                   *)
LEMMA PollDelivers ==
    ASSUME NEW p \in Seq(Valid), NEW w \in Seq(Valid), NEW v \in Seq(Valid), CutOf(w, v),
           v # <<>>, Apart(p \o v), NEW m, m = Content(Head(v))
    PROVE  /\ m \in Contents(w) \ Contents(p)
           /\ Contents(Append(p, Head(v))) = Contents(p) \cup {m}
           /\ Contents(Tail(v)) \subseteq Contents(w) \ {m}
<1>1. Contents(v) \subseteq Contents(w)
  BY CutTyped
<1>2. m \notin Contents(p) /\ m \notin Contents(Tail(v))
  BY ApartHead
<1>3. PICK h \in Valid : h = Head(v)
  OBVIOUS
<1>4. Contents(Append(p, h)) = Contents(p) \cup {m}
  BY <1>3, ContentsAppend
<1>5. m \in Contents(v)
  <2>1. 1 \in DOMAIN v /\ v[1] = Head(v)
    OBVIOUS
  <2> QED
    BY <2>1, ContentAt
<1>6. Contents(Tail(v)) \subseteq Contents(v)
  <2>1. PICK t \in Seq(Valid) : t = Tail(v)
    <3>1. Tail(v) \in Seq(Valid)
      OBVIOUS
    <3> QED
      BY <3>1, Zenon
  <2>2. PICK one \in Seq(Valid) : one = <<h>>
    BY OneElement, Zenon
  <2>3. one \o t = v
    BY <1>3, <2>1, <2>2
  <2>4. Contents(one \o t) = Contents(one) \cup Contents(t)
    BY ContentsConcat
  <2> QED
    BY <2>1, <2>3, <2>4
<1> QED
  BY <1>1, <1>2, <1>3, <1>4, <1>5, <1>6

-----------------------------------------------------------------------------
(* The directions of a transport.  What a step may do to one, that it keeps *)
(* the invariant, and that it is a step of the lossy channel.               *)

(* A direction of the transport: what was polled and what waits, and what   *)
(* the conditions have dropped.                                             *)
Seen(d) == polled[d] \o Waiting(d)
Dropped(d) ==
    IF impl = "loopback" /\ d[1] \in Peers /\ d[2] \in Peers THEN world.dropped[d[1]] ELSE 0
Counted == impl # "rtc" \/ closes = 0

(* The envelopes accepted are the script's, from its first.                 *)
SentSoFar(d) ==
    /\ sent[d] \in Seq(Valid) /\ Len(sent[d]) <= Len(script[d])
    /\ \A k \in 1..Len(sent[d]) : sent[d][k] = EnvelopeFor(d, script[d][k])

Arrived(d) ==
    /\ polled[d] \in Seq(Valid) /\ Waiting(d) \in Seq(Valid)
    /\ Apart(Seen(d)) /\ Contents(Seen(d)) \subseteq Contents(sent[d])
    /\ impl # "loopback" => Follows(Seen(d), sent[d])
    /\ Counted => Len(Seen(d)) + Dropped(d) >= Len(sent[d])

(* What a step may do to a direction.                                       *)
Stays(d) ==
    /\ sent'[d] = sent[d] /\ polled'[d] = polled[d] /\ Dropped(d)' = Dropped(d)
    /\ CutOf(Waiting(d), Waiting(d)')
    /\ Counted' => Waiting(d)' = Waiting(d)

Takes(d, e, r) ==
    /\ Len(sent[d]) < Len(script[d])
    /\ e = EnvelopeFor(d, script[d][Len(sent[d]) + 1]) /\ Content(r) = Content(e)
    /\ sent'[d] = Append(sent[d], e) /\ polled'[d] = polled[d]

Adds(d, r) == Waiting(d)' = Append(Waiting(d), r) /\ Dropped(d)' = Dropped(d)
Inserts(d, r) ==
    /\ impl = "loopback" /\ Dropped(d)' = Dropped(d)
    /\ \E a \in Seq(Valid), b \in Seq(Valid) :
          Waiting(d) = a \o b /\ Waiting(d)' = Append(a, r) \o b
Drops(d) ==
    /\ impl = "loopback" /\ Waiting(d)' = Waiting(d) /\ Dropped(d)' = Dropped(d) + 1

Puts(d) ==
    \E e \in Valid, r \in Valid : Takes(d, e, r) /\ (Adds(d, r) \/ Inserts(d, r) \/ Drops(d))

Gives(d) ==
    \E v \in Seq(Valid) :
        /\ CutOf(Waiting(d), v) /\ (Counted => v = Waiting(d)) /\ v # <<>>
        /\ sent'[d] = sent[d] /\ polled'[d] = Append(polled[d], Head(v))
        /\ Waiting(d)' = Tail(v) /\ Dropped(d)' = Dropped(d)

Moves(d) == Stays(d) \/ Puts(d) \/ Gives(d)

(* What was accepted in a direction is without repetition, and the next     *)
(* message of the script is a new one.                                      *)
LEMMA SentApart ==
    ASSUME script \in Script, NEW d \in Direction, SentSoFar(d)
    PROVE  /\ Apart(sent[d])
           /\ \A e : Len(sent[d]) < Len(script[d])
                       /\ e = EnvelopeFor(d, script[d][Len(sent[d]) + 1])
                     => Content(e) \notin Contents(sent[d])
<1>1. PICK n \in Nat, m \in Nat :
        n = Len(sent[d]) /\ m = Len(script[d]) /\ n <= m /\ DOMAIN sent[d] = 1..n
  <2>1. script[d] \in Seq(Item)
    BY ScriptAssumption
  <2>2. Len(script[d]) \in Nat
    BY <2>1
  <2>3. Len(sent[d]) \in Nat /\ DOMAIN sent[d] = 1..Len(sent[d])
    BY DEF SentSoFar
  <2> QED
    BY <2>2, <2>3 DEF SentSoFar
<1>2. \A k \in 1..n : sent[d][k] = EnvelopeFor(d, script[d][k])
  BY <1>1 DEF SentSoFar
<1>3. \A i, j \in 1..m : i # j => Content(EnvelopeFor(d, script[d][i])) # Content(EnvelopeFor(d, script[d][j]))
  BY <1>1, ScriptApart
<1>4. Apart(sent[d])
  <2> SUFFICES ASSUME NEW i \in 1..n, NEW j \in 1..n, i # j
               PROVE  Content(sent[d][i]) # Content(sent[d][j])
    BY <1>1 DEF Apart
  <2>1. i \in 1..m /\ j \in 1..m
    BY <1>1
  <2> QED
    BY <1>2, <1>3, <2>1
<1>5. ASSUME NEW e, n < m, e = EnvelopeFor(d, script[d][n + 1])
      PROVE  Content(e) \notin Contents(sent[d])
  <2>1. ASSUME NEW i \in 1..n PROVE Content(sent[d][i]) # Content(e)
    <3>1. i \in 1..m /\ n + 1 \in 1..m /\ i # n + 1
      BY <1>1, <1>5
    <3> QED
      BY <1>2, <1>3, <1>5, <3>1
  <2>2. \A i \in DOMAIN sent[d] : Content(e) # Content(sent[d][i])
    BY <1>1, <2>1
  <2>3. sent[d] \in Seq(Valid)
    BY DEF SentSoFar
  <2>4. PICK x : x = Content(e)
    OBVIOUS
  <2>5. x \notin Contents(sent[d])
    BY <2>2, <2>3, <2>4, ContentAt
  <2> QED
    BY <2>4, <2>5
<1> QED
  BY <1>1, <1>4, <1>5

(* An accepted message is the script's next.                                *)
LEMMA SentGrows ==
    ASSUME script \in Script, script' = script, NEW d \in Direction, SentSoFar(d),
           NEW e \in Valid, NEW r, Takes(d, e, r)
    PROVE  SentSoFar(d)'
<1>1. PICK s \in Seq(Valid) : s = sent[d]
  BY DEF SentSoFar
<1>2. PICK n \in Nat, m \in Nat : n = Len(s) /\ m = Len(script[d]) /\ n < m
  <2>1. script[d] \in Seq(Item)
    BY ScriptAssumption
  <2>2. Len(script[d]) \in Nat
    BY <2>1
  <2> QED
    BY <1>1, <2>2 DEF Takes
<1>3. PICK t \in Seq(Valid) : /\ t = Append(s, e) /\ Len(t) = n + 1 /\ t[n + 1] = e
                              /\ \A k \in 1..n : t[k] = s[k]
  <2>1. /\ Append(s, e) \in Seq(Valid) /\ Len(Append(s, e)) = n + 1 /\ Append(s, e)[n + 1] = e
        /\ \A k \in 1..n : Append(s, e)[k] = s[k]
    BY <1>2
  <2> QED
    BY <2>1, Zenon
<1>4. \A k \in 1..(n + 1) : t[k] = EnvelopeFor(d, script[d][k])
  <2>1. \A k \in 1..n : s[k] = EnvelopeFor(d, script[d][k])
    BY <1>1, <1>2 DEF SentSoFar
  <2>2. e = EnvelopeFor(d, script[d][n + 1])
    BY <1>1, <1>2 DEF Takes
  <2> TAKE k \in 1..(n + 1)
  <2>3. CASE k = n + 1
    BY <1>3, <2>2, <2>3
  <2>4. CASE k # n + 1
    <3>1. k \in 1..n
      BY <2>4
    <3> QED
      BY <1>3, <2>1, <3>1
  <2> QED
    BY <2>3, <2>4
<1>5. sent'[d] = t /\ n + 1 <= m
  BY <1>1, <1>2, <1>3 DEF Takes
<1> QED
  BY <1>2, <1>3, <1>4, <1>5 DEF SentSoFar

(* What every step leaves alone or only increases.                          *)
Frames == impl' = impl /\ script' = script /\ (closes' = 0 => closes = 0)

(* Each kind of step keeps what was said of a direction.                    *)
LEMMA StayKeeps ==
    ASSUME script \in Script, Frames, NEW d \in Direction, SentSoFar(d), Arrived(d), Stays(d)
    PROVE  SentSoFar(d)' /\ Arrived(d)'
<1>1. SentSoFar(d)'
  BY DEF SentSoFar, Stays, Frames
<1>2. PICK p \in Seq(Valid), w \in Seq(Valid), s \in Seq(Valid) :
        p = polled[d] /\ w = Waiting(d) /\ s = sent[d]
  BY DEF Arrived, SentSoFar
<1>3. PICK v \in Seq(Valid) : v = Waiting(d)' /\ CutOf(w, v)
  BY <1>2, CutTyped DEF Stays
<1>4. Seen(d) = p \o w /\ Seen(d)' = p \o v /\ polled'[d] = p /\ sent'[d] = s
  BY <1>2, <1>3 DEF Seen, Stays
<1>5. CASE impl = "loopback"
  <2>1. Counted' /\ Counted /\ impl' = "loopback"
    BY <1>5 DEF Counted, Frames
  <2>2. v = w
    BY <1>2, <1>3, <2>1 DEF Stays
  <2>3. Dropped(d)' = Dropped(d)
    BY DEF Stays
  <2> QED
    BY <1>1, <1>2, <1>3, <1>4, <1>5, <2>1, <2>2, <2>3 DEF Arrived
<1>6. CASE impl # "loopback"
  <2>1. Follows(p \o w, s)
    BY <1>2, <1>4, <1>6 DEF Arrived
  <2>2. Follows(p \o v, s)
    BY <1>3, <2>1, CutArrives
  <2>3. p \o v \in Seq(Valid)
    BY ConcatInSeq
  <2>4. Apart(s)
    BY <1>2, SentApart
  <2>5. Apart(p \o v) /\ Contents(p \o v) \subseteq Contents(s)
    BY <2>2, <2>3, <2>4, FollowsApart, Zenon
  <2>6. ASSUME Counted' PROVE Len(Seen(d)') + Dropped(d)' >= Len(sent'[d])
    <3>1. v = w /\ Counted
      BY <1>2, <1>3, <2>6 DEF Stays, Counted, Frames
    <3>2. Dropped(d)' = Dropped(d)
      BY DEF Stays
    <3> QED
      BY <1>2, <1>4, <3>1, <3>2 DEF Arrived
  <2> QED
    BY <1>1, <1>3, <1>4, <2>2, <2>5, <2>6 DEF Arrived
<1> QED
  BY <1>5, <1>6

LEMMA GiveKeeps ==
    ASSUME script \in Script, Frames, NEW d \in Direction, SentSoFar(d), Arrived(d), Gives(d)
    PROVE  SentSoFar(d)' /\ Arrived(d)'
<1>1. PICK p \in Seq(Valid), w \in Seq(Valid), s \in Seq(Valid) :
        p = polled[d] /\ w = Waiting(d) /\ s = sent[d]
  BY DEF Arrived, SentSoFar
<1>2. PICK v \in Seq(Valid) :
        /\ CutOf(w, v) /\ (Counted => v = w) /\ v # <<>>
        /\ sent'[d] = s /\ polled'[d] = Append(p, Head(v))
        /\ Waiting(d)' = Tail(v) /\ Dropped(d)' = Dropped(d)
  BY <1>1, Zenon DEF Gives
<1>3. SentSoFar(d)'
  BY <1>1, <1>2 DEF SentSoFar, Frames
<1>4. /\ Append(p, Head(v)) \o Tail(v) = p \o v
      /\ Append(p, Head(v)) \in Seq(Valid) /\ Tail(v) \in Seq(Valid)
  <2>1. Append(p, Head(v)) \o Tail(v) = p \o v /\ Head(v) \in Valid /\ Tail(v) \in Seq(Valid)
    BY <1>2, PolledSeen, Zenon
  <2>2. PICK h \in Valid : h = Head(v)
    BY <2>1
  <2>3. Append(p, h) \in Seq(Valid)
    OBVIOUS
  <2> QED
    BY <2>1, <2>2, <2>3, Zenon
<1>5. Seen(d) = p \o w /\ Seen(d)' = p \o v
  BY <1>1, <1>2, <1>4, Zenon DEF Seen
<1>6. Counted' => Counted
  BY DEF Counted, Frames
<1>7. CASE impl = "loopback"
  <2>1. Counted /\ impl' = "loopback"
    BY <1>7 DEF Counted, Frames
  <2>2. v = w
    BY <1>2, <2>1
  <2> QED
    BY <1>1, <1>2, <1>3, <1>4, <1>5, <2>1, <2>2 DEF Arrived
<1>8. CASE impl # "loopback"
  <2>1. Follows(p \o w, s)
    BY <1>1, <1>5, <1>8 DEF Arrived
  <2>2. Follows(p \o v, s)
    BY <1>2, <2>1, CutArrives
  <2>3. p \o v \in Seq(Valid)
    BY ConcatInSeq
  <2>4. Apart(s)
    BY <1>1, SentApart
  <2>5. Apart(p \o v) /\ Contents(p \o v) \subseteq Contents(s)
    BY <2>2, <2>3, <2>4, FollowsApart
  <2>6. ASSUME Counted' PROVE Len(Seen(d)') + Dropped(d)' >= Len(sent'[d])
    <3>1. v = w /\ Counted
      BY <1>2, <1>6, <2>6
    <3> QED
      BY <1>1, <1>2, <1>5, <3>1 DEF Arrived
  <2> QED
    BY <1>2, <1>3, <1>4, <1>5, <2>2, <2>5, <2>6 DEF Arrived
<1> QED
  BY <1>7, <1>8

LEMMA PutKeeps ==
    ASSUME script \in Script, Frames, NEW d \in Direction, SentSoFar(d), Arrived(d), Puts(d),
           Dropped(d) \in Nat
    PROVE  SentSoFar(d)' /\ Arrived(d)'
<1>1. PICK p \in Seq(Valid), w \in Seq(Valid), s \in Seq(Valid) :
        p = polled[d] /\ w = Waiting(d) /\ s = sent[d]
  BY DEF Arrived, SentSoFar
<1>2. PICK e \in Valid, r \in Valid : Takes(d, e, r) /\ (Adds(d, r) \/ Inserts(d, r) \/ Drops(d))
  BY DEF Puts
<1>3. SentSoFar(d)'
  BY <1>2, SentGrows DEF Frames
<1>4. /\ sent'[d] = Append(s, e) /\ polled'[d] = p /\ Content(r) = Content(e)
      /\ Content(e) \notin Contents(s)
  BY <1>1, <1>2, SentApart DEF Takes
<1>5. PICK s2 \in Seq(Valid) : s2 = Append(s, e) /\ Len(s2) = Len(s) + 1
  <2>1. Append(s, e) \in Seq(Valid) /\ Len(Append(s, e)) = Len(s) + 1
    OBVIOUS
  <2> QED
    BY <2>1, Zenon
<1>6. Contents(s2) = Contents(s) \cup {Content(e)}
  BY <1>5, ContentsAppend
<1>7. /\ Apart(p \o w) /\ Contents(p \o w) \subseteq Contents(s) /\ Seen(d) = p \o w
      /\ (impl # "loopback" => Follows(p \o w, s))
      /\ (Counted => Len(p \o w) + Dropped(d) >= Len(s))
  BY <1>1 DEF Arrived, Seen
<1>8. /\ Counted' => Counted
      /\ impl' = impl
  BY DEF Counted, Frames
<1>9. PICK k \in Nat, n \in Nat, g \in Nat : k = Len(s) /\ n = Len(p \o w) /\ g = Dropped(d)
  BY ConcatInSeq
<1>10. CASE Adds(d, r)
  <2>1. PICK v \in Seq(Valid) : v = Append(w, r) /\ Waiting(d)' = v
    <3>1. Append(w, r) \in Seq(Valid)
      OBVIOUS
    <3> QED
      BY <1>1, <1>10, <3>1, Zenon DEF Adds
  <2>2. PICK pw \in Seq(Valid) : pw = p \o w
    BY ConcatInSeq, Zenon
  <2>3. p \o v = Append(pw, r) /\ Len(p \o v) = n + 1
    <3>1. AppendsToSecond(p, w, r)
      BY AppendConcat
    <3>2. p \o v = Append(pw, r)
      BY <2>1, <2>2, <3>1 DEF AppendsToSecond
    <3>3. Len(Append(pw, r)) = Len(pw) + 1
      OBVIOUS
    <3> QED
      BY <1>9, <2>2, <3>2, <3>3
  <2>4. Seen(d)' = p \o v
    BY <1>4, <2>1 DEF Seen
  <2>5. Apart(p \o v) /\ Contents(p \o v) \subseteq Contents(s2)
    <3>1. PICK none \in Seq(Valid) : none = <<>>
      BY EmptySequence, Zenon
    <3>2. w \o none = w /\ Append(w, r) \o none = v
      BY <2>1, <3>1, EmptyConcat
    <3>3. /\ Apart(p \o (w \o none)) /\ Contents(p \o (w \o none)) \subseteq Contents(s)
      BY <1>7, <3>2
    <3>4. /\ Apart(p \o (Append(w, r) \o none))
          /\ Contents(p \o (Append(w, r) \o none)) \subseteq Contents(Append(s, e))
      BY <1>4, <3>3, InsertArrives
    <3> QED
      BY <1>5, <3>2, <3>4
  <2>6. impl # "loopback" => Follows(p \o v, s2)
    BY <1>4, <1>5, <1>7, <2>2, <2>3, FollowsAppend, Zenon
  <2>7. Counted' => Len(p \o v) + Dropped(d)' >= Len(s2)
    <3>1. Dropped(d)' = g
      BY <1>9, <1>10 DEF Adds
    <3> QED
      BY <1>5, <1>7, <1>8, <1>9, <2>3, <3>1, SMTT(30)
  <2> QED
    BY <1>3, <1>4, <1>5, <1>8, <2>1, <2>4, <2>5, <2>6, <2>7 DEF Arrived
<1>11. CASE Inserts(d, r)
  <2>1. PICK a \in Seq(Valid), b \in Seq(Valid) : w = a \o b /\ Waiting(d)' = Append(a, r) \o b
    BY <1>1, <1>11, Zenon DEF Inserts
  <2>2. PICK v \in Seq(Valid) : v = Append(a, r) \o b /\ Len(p \o v) = n + 1
    <3>1. SeenAs(p, a, b, r)
      BY SentSeen
    <3> QED
      BY <1>9, <2>1, <3>1, Zenon DEF SeenAs
  <2>3. Seen(d)' = p \o v /\ Waiting(d)' = v
    BY <1>4, <2>1, <2>2 DEF Seen
  <2>4. Apart(p \o v) /\ Contents(p \o v) \subseteq Contents(s2)
    <3>1. Apart(p \o (a \o b)) /\ Contents(p \o (a \o b)) \subseteq Contents(s)
      BY <1>7, <2>1
    <3>2. /\ Apart(p \o (Append(a, r) \o b))
          /\ Contents(p \o (Append(a, r) \o b)) \subseteq Contents(Append(s, e))
      BY <1>4, <3>1, InsertArrives
    <3> QED
      BY <1>5, <2>2, <3>2
  <2>5. Counted' => Len(p \o v) + Dropped(d)' >= Len(s2)
    <3>1. Dropped(d)' = g
      BY <1>9, <1>11 DEF Inserts
    <3> QED
      BY <1>5, <1>7, <1>8, <1>9, <2>2, <3>1, SMTT(30)
  <2>6. impl' = "loopback"
    BY <1>8, <1>11 DEF Inserts
  <2> QED
    BY <1>3, <1>4, <1>5, <2>2, <2>3, <2>4, <2>5, <2>6, Zenon DEF Arrived
<1>12. CASE Drops(d)
  <2>1. Seen(d)' = p \o w /\ Waiting(d)' = w /\ impl' = "loopback" /\ Dropped(d)' = g + 1
    BY <1>1, <1>4, <1>8, <1>9, <1>12 DEF Seen, Drops
  <2>2. Contents(p \o w) \subseteq Contents(s2)
    BY <1>6, <1>7
  <2>3. Counted' => Len(p \o w) + Dropped(d)' >= Len(s2)
    BY <1>5, <1>7, <1>8, <1>9, <2>1, SMTT(30)
  <2> QED
    BY <1>3, <1>4, <1>5, <1>7, <2>1, <2>2, <2>3 DEF Arrived
<1> QED
  BY <1>2, <1>10, <1>11, <1>12

(* The places the invariant names are kept by every kind of step.           *)
LEMMA MoveKeeps ==
    ASSUME script \in Script, Frames, NEW d \in Direction, SentSoFar(d), Arrived(d), Moves(d),
           Dropped(d) \in Nat
    PROVE  SentSoFar(d)' /\ Arrived(d)'
  BY StayKeeps, GiveKeeps, PutKeeps DEF Moves

(* And every kind of step is a step of the lossy channel.                   *)
LEMMA MoveRefines ==
    ASSUME script \in Script, Frames, NEW d \in Direction, SentSoFar(d), Arrived(d), Moves(d)
    PROVE  Channel!Lose(d) \/ Channel!Send(d) \/ Channel!Deliver(d)
<1>1. PICK p \in Seq(Valid), w \in Seq(Valid), s \in Seq(Valid) :
        p = polled[d] /\ w = Waiting(d) /\ s = sent[d]
  BY DEF Arrived, SentSoFar
<1>2. /\ Apart(p \o w) /\ (impl # "loopback" => Follows(p \o w, s))
      /\ Apart(s)
  BY <1>1, SentApart DEF Arrived, Seen
<1>3. CASE Stays(d)
  <2>1. CutOf(w, Waiting(d)') /\ sent'[d] = s /\ polled'[d] = p
    BY <1>1, <1>3 DEF Stays
  <2>2. Contents(Waiting(d)') \subseteq Contents(w)
    BY <2>1, CutTyped
  <2>3. Channel!Lose(d)
    BY <1>1, <2>1, <2>2 DEF Channel!Lose
  <2> QED
    BY <2>3
<1>4. CASE Puts(d)
  <2>1. PICK e \in Valid, r \in Valid : Takes(d, e, r) /\ (Adds(d, r) \/ Inserts(d, r) \/ Drops(d))
    BY <1>4 DEF Puts
  <2>2. /\ sent'[d] = Append(s, e) /\ polled'[d] = p /\ Content(r) = Content(e)
        /\ Content(e) \notin Contents(s)
    BY <1>1, <2>1, SentApart DEF Takes
  <2>3. PICK m : m = Content(e)
    OBVIOUS
  <2>4. Contents(sent'[d]) = Contents(s) \cup {m} /\ m \notin Contents(s)
    BY <2>2, <2>3, ContentsAppend
  <2>5. Contents(Waiting(d)') \subseteq Contents(w) \cup {m}
    <3>1. CASE Adds(d, r)
      BY <1>1, <2>2, <2>3, <3>1, ContentsAppend DEF Adds
    <3>2. CASE Inserts(d, r)
      <4>1. PICK a \in Seq(Valid), b \in Seq(Valid) : w = a \o b /\ Waiting(d)' = Append(a, r) \o b
        BY <1>1, <3>2, Zenon DEF Inserts
      <4>2. PICK ar \in Seq(Valid) : ar = Append(a, r)
        <5>1. Append(a, r) \in Seq(Valid)
          OBVIOUS
        <5> QED
          BY <5>1, Zenon
      <4>3. Contents(ar) = Contents(a) \cup {m}
        BY <2>2, <2>3, <4>2, ContentsAppend
      <4>4. Contents(ar \o b) = Contents(ar) \cup Contents(b) /\ Contents(a \o b) = Contents(a) \cup Contents(b)
        BY ContentsConcat
      <4> QED
        BY <4>1, <4>2, <4>3, <4>4
    <3>3. CASE Drops(d)
      BY <1>1, <3>3 DEF Drops
    <3> QED
      BY <2>1, <3>1, <3>2, <3>3
  <2>6. Channel!Send(d)
    BY <1>1, <2>2, <2>4, <2>5, Zenon DEF Channel!Send
  <2> QED
    BY <2>6
<1>5. CASE Gives(d)
  <2>1. PICK v \in Seq(Valid) :
          /\ CutOf(w, v) /\ (Counted => v = w) /\ v # <<>>
          /\ sent'[d] = s /\ polled'[d] = Append(p, Head(v)) /\ Waiting(d)' = Tail(v)
    BY <1>1, <1>5, Zenon DEF Gives
  <2>2. Apart(p \o v)
    <3>1. CASE impl = "loopback"
      BY <1>2, <2>1, <3>1 DEF Counted
    <3>2. CASE impl # "loopback"
      <4>1. Follows(p \o v, s)
        BY <1>2, <2>1, <3>2, CutArrives
      <4>2. p \o v \in Seq(Valid)
        BY ConcatInSeq
      <4> QED
        BY <1>2, <4>1, <4>2, FollowsApart, Zenon
    <3> QED
      BY <3>1, <3>2
  <2>3. PICK m : m = Content(Head(v))
    OBVIOUS
  <2>4. /\ m \in Contents(w) \ Contents(p)
        /\ Contents(Append(p, Head(v))) = Contents(p) \cup {m}
        /\ Contents(Tail(v)) \subseteq Contents(w) \ {m}
    BY <2>1, <2>2, <2>3, PollDelivers
  <2>5. Channel!Deliver(d)
    BY <1>1, <2>1, <2>4, Zenon DEF Channel!Deliver
  <2> QED
    BY <2>5
<1> QED
  BY <1>3, <1>4, <1>5 DEF Moves

LEMMA MovesRefine ==
    ASSUME script \in Script, Frames,
           \A d \in Direction : SentSoFar(d) /\ Arrived(d) /\ Moves(d)
    PROVE  Channel!Next
<1>1. \A d \in Direction : Channel!Lose(d) \/ Channel!Send(d) \/ Channel!Deliver(d)
  BY MoveRefines
<1> QED
  BY <1>1 DEF Channel!Next

-----------------------------------------------------------------------------
(* The loopback pair.                                                       *)

(* The loopback pair.                                                       *)
LoopbackWorld ==
    [state : [Pair -> {"Connected", "Disconnected"}],
     incoming : [Pair -> Seq(Valid)], delayed : [Pair -> Seq(Valid)],
     ordinal : [Pair -> Nat], dropped : [Pair -> Nat], conditions : [Pair -> Conditions]]

(* What an end has on its way to the other.                                 *)
OnWay(w, p) == w.incoming[Other(p)] \o w.delayed[p]

(* The queues and counters of v are those of w, but for what is on its way  *)
(* from p.                                                                  *)
SameOther(w, v, p) ==
    /\ v.incoming[p] = w.incoming[p] /\ v.delayed[Other(p)] = w.delayed[Other(p)]
    /\ v.dropped[Other(p)] = w.dropped[Other(p)]

(* The two ends of a pair.                                                  *)
LEMMA Others ==
    ASSUME NEW p \in Pair
    PROVE  Other(p) \in Pair /\ Other(p) # p /\ Other(Other(p)) = p
  BY DEF Pair, Other, Server

LEMMA LoopbackTyped ==
    ASSUME NEW w \in LoopbackWorld, NEW p \in Pair
    PROVE  /\ w.incoming[p] \in Seq(Valid) /\ w.delayed[p] \in Seq(Valid)
           /\ w.dropped[p] \in Nat /\ w.ordinal[p] \in Nat
           /\ OnWay(w, p) \in Seq(Valid)
<1>1. w.incoming[Other(p)] \in Seq(Valid) /\ w.delayed[p] \in Seq(Valid)
  BY Others DEF LoopbackWorld
<1>2. w.incoming[Other(p)] \o w.delayed[p] \in Seq(Valid)
  BY <1>1, ConcatInSeq
<1> QED
  BY <1>1, <1>2 DEF LoopbackWorld, OnWay

(* PushOutgoing, by the parts of the loopback's state; then                 *)
(* ReleaseOneDelayed.                                                       *)
LEMMA PushTyped ==
    ASSUME NEW w \in LoopbackWorld, NEW p \in Pair, NEW e \in Valid
    PROVE  /\ PushOutgoing(w, p, e) \in LoopbackWorld
           /\ PushOutgoing(w, p, e).incoming[Other(p)] = Append(w.incoming[Other(p)], e)
           /\ PushOutgoing(w, p, e).delayed = w.delayed
           /\ PushOutgoing(w, p, e).dropped = w.dropped
           /\ PushOutgoing(w, p, e).incoming[p] = w.incoming[p]
<1>1. PICK q \in Pair : q = Other(p) /\ q # p
  BY Others
<1>2. PICK l \in Seq(Valid) : l = Append(w.incoming[q], e)
  <2>1. PICK i \in Seq(Valid) : i = w.incoming[q]
    BY DEF LoopbackWorld
  <2>2. Append(i, e) \in Seq(Valid)
    OBVIOUS
  <2> QED
    BY <2>1, <2>2, Zenon
<1>3. PushOutgoing(w, p, e) = [w EXCEPT !.incoming[q] = l]
  BY <1>1, <1>2 DEF PushOutgoing
<1>4. PICK v : v = [w EXCEPT !.incoming[q] = l]
  BY Zenon
<1>5. v \in LoopbackWorld
  BY <1>4, Zenon DEF LoopbackWorld
<1>6. /\ v.incoming[q] = l /\ v.delayed = w.delayed /\ v.dropped = w.dropped
      /\ v.incoming[p] = w.incoming[p]
  BY <1>1, <1>4 DEF LoopbackWorld
<1> QED
  BY <1>1, <1>2, <1>3, <1>4, <1>5, <1>6

LEMMA ReleaseTyped ==
    ASSUME NEW w \in LoopbackWorld, NEW p \in Pair
    PROVE  /\ ReleaseOneDelayed(w, p) \in LoopbackWorld
           /\ OnWay(ReleaseOneDelayed(w, p), p) = OnWay(w, p)
           /\ ReleaseOneDelayed(w, p).dropped = w.dropped
           /\ SameOther(w, ReleaseOneDelayed(w, p), p)
<1>1. CASE w.delayed[p] = <<>>
  BY <1>1 DEF ReleaseOneDelayed, SameOther
<1>2. CASE w.delayed[p] # <<>>
  <2>1. PICK q \in Pair : q = Other(p) /\ q # p
    BY Others
  <2>2. PICK i \in Seq(Valid), l \in Seq(Valid) : i = w.incoming[q] /\ l = w.delayed[p]
    BY <2>1, LoopbackTyped
  <2>3. PICK h \in Valid, t \in Seq(Valid) : h = Head(l) /\ t = Tail(l)
    <3>1. Head(l) \in Valid /\ Tail(l) \in Seq(Valid)
      BY <1>2, <2>2
    <3> QED
      BY <3>1, Zenon
  <2>4. PICK u \in LoopbackWorld : /\ u = [w EXCEPT !.delayed[p] = Tail(@)]
                                   /\ u.delayed[p] = t /\ u.incoming = w.incoming
                                   /\ u.delayed[q] = w.delayed[q] /\ u.dropped = w.dropped
    <3>1. [w EXCEPT !.delayed[p] = Tail(@)] = [w EXCEPT !.delayed[p] = t]
      BY <2>2, <2>3 DEF LoopbackWorld
    <3>2. PICK u : u = [w EXCEPT !.delayed[p] = t]
      BY Zenon
    <3>3. u \in LoopbackWorld
      BY <3>2, Zenon DEF LoopbackWorld
    <3>4. u.delayed[p] = t /\ u.incoming = w.incoming /\ u.delayed[q] = w.delayed[q]
          /\ u.dropped = w.dropped
      BY <2>1, <3>2 DEF LoopbackWorld
    <3> QED
      BY <3>1, <3>2, <3>3, <3>4, Zenon
  <2>5. PICK v : v = PushOutgoing(u, p, h)
    OBVIOUS
  <2>6. ReleaseOneDelayed(w, p) = v
    BY <1>2, <2>2, <2>3, <2>4, <2>5 DEF ReleaseOneDelayed
  <2>7. /\ v \in LoopbackWorld /\ v.incoming[q] = Append(i, h) /\ v.delayed = u.delayed
        /\ v.dropped = u.dropped /\ v.incoming[p] = u.incoming[p]
    <3>1. /\ v \in LoopbackWorld /\ v.incoming[Other(p)] = Append(u.incoming[Other(p)], h)
          /\ v.delayed = u.delayed /\ v.dropped = u.dropped /\ v.incoming[p] = u.incoming[p]
      BY <2>5, PushTyped, Zenon
    <3> QED
      BY <2>1, <2>2, <2>4, <3>1
  <2>8. Append(i, h) \o t = i \o l
    BY <1>2, <2>2, <2>3, PolledSeen, Zenon
  <2>9. OnWay(v, p) = OnWay(w, p)
    BY <2>1, <2>2, <2>4, <2>7, <2>8, Zenon DEF OnWay
  <2>10. SameOther(w, v, p)
    BY <2>1, <2>4, <2>7 DEF SameOther
  <2> QED
    BY <2>4, <2>6, <2>7, <2>9, <2>10
<1> QED
  BY <1>1, <1>2

(* Nothing on its way has changed, and nothing was dropped.                 *)
SameQueues(w, v) ==
    \A p \in Pair : v.dropped[p] = w.dropped[p] /\ OnWay(v, p) = OnWay(w, p)

LEMMA LoopbackQuiet ==
    ASSUME NEW w \in LoopbackWorld, NEW p \in Pair, NEW c \in Conditions,
           NEW v \in {LoopbackConnect(w, p), LoopbackClose(w, p),
                      LoopbackSetNetworkConditions(w, p, c)}
    PROVE  v \in LoopbackWorld /\ SameQueues(w, v)
<1> DEFINE Same(u) == u.incoming = w.incoming /\ u.delayed = w.delayed /\ u.dropped = w.dropped
<1>1. LoopbackConnect(w, p) \in LoopbackWorld /\ Same(LoopbackConnect(w, p))
  BY Zenon DEF LoopbackConnect, LoopbackWorld
<1>2. LoopbackClose(w, p) \in LoopbackWorld /\ Same(LoopbackClose(w, p))
  BY Zenon DEF LoopbackClose, LoopbackWorld
<1>3. /\ LoopbackSetNetworkConditions(w, p, c) \in LoopbackWorld
      /\ Same(LoopbackSetNetworkConditions(w, p, c))
  BY Zenon DEF LoopbackSetNetworkConditions, LoopbackWorld
<1>4. v \in LoopbackWorld /\ Same(v)
  BY <1>1, <1>2, <1>3
<1> QED
  BY <1>4 DEF SameQueues, OnWay

(* What changes on the way from one end shows only there.                   *)
LEMMA OtherWay ==
    ASSUME NEW w, NEW v, NEW p \in Pair, SameOther(w, v, p)
    PROVE  v.dropped[Other(p)] = w.dropped[Other(p)] /\ OnWay(v, Other(p)) = OnWay(w, Other(p))
  BY Others, Zenon DEF SameOther, OnWay

LEMMA PairOf ==
    ASSUME NEW p \in Pair, NEW q \in Pair
    PROVE  q = p \/ q = Other(p)
  BY DEF Pair, Other, Server

(* Update and FlushDelayed move envelopes that were held back to the queue, *)
(* which changes nothing of what is on its way.                             *)
LEMMA LoopbackReleases ==
    ASSUME NEW w \in LoopbackWorld, NEW p \in Pair,
           NEW v \in {LoopbackUpdate(w, p), LoopbackFlushDelayed(w, p)}
    PROVE  v \in LoopbackWorld /\ SameQueues(w, v)
<1>1. CASE v = LoopbackUpdate(w, p)
  <2>1. /\ v \in LoopbackWorld /\ OnWay(v, p) = OnWay(w, p) /\ v.dropped = w.dropped
        /\ SameOther(w, v, p)
    BY <1>1, ReleaseTyped DEF LoopbackUpdate
  <2>2. OnWay(v, Other(p)) = OnWay(w, Other(p))
    BY <2>1, OtherWay
  <2> QED
    BY <2>1, <2>2, PairOf DEF SameQueues
<1>2. CASE v = LoopbackFlushDelayed(w, p)
  <2>1. PICK q \in Pair : q = Other(p) /\ q # p /\ Other(q) = p
    BY Others
  <2>2. PICK i \in Seq(Valid), l \in Seq(Valid) : i = w.incoming[q] /\ l = w.delayed[p]
    BY <2>1, LoopbackTyped
  <2>3. PICK il \in Seq(Valid) : il = i \o l
    BY ConcatInSeq, Zenon
  <2>4. v = [w EXCEPT !.delayed[p] = <<>>, !.incoming[q] = il]
    BY <1>2, <2>1, <2>2, <2>3 DEF LoopbackFlushDelayed, LoopbackWorld
  <2>5. v \in LoopbackWorld
    BY <2>4, EmptySequence, Zenon DEF LoopbackWorld
  <2>6. /\ v.delayed[p] = <<>> /\ v.delayed[q] = w.delayed[q] /\ v.incoming[q] = il
        /\ v.incoming[p] = w.incoming[p] /\ v.dropped = w.dropped
    BY <2>1, <2>4 DEF LoopbackWorld
  <2>7. il \o <<>> = il
    BY EmptyConcat
  <2>8. OnWay(v, p) = OnWay(w, p) /\ OnWay(v, q) = OnWay(w, q)
    BY <2>1, <2>2, <2>3, <2>6, <2>7 DEF OnWay
  <2> QED
    BY <2>1, <2>5, <2>6, <2>8, PairOf DEF SameQueues
<1> QED
  BY <1>1, <1>2

(* A Send: e is dropped, held back, or goes ahead of what is held back.     *)
SentOn(w, v, p, e) ==
    /\ v \in LoopbackWorld /\ SameOther(w, v, p)
    /\ \/ OnWay(v, p) = OnWay(w, p) /\ v.dropped[p] = w.dropped[p] + 1
       \/ OnWay(v, p) = Append(OnWay(w, p), e) /\ v.dropped[p] = w.dropped[p]
       \/ /\ OnWay(v, p) = Append(w.incoming[Other(p)], e) \o w.delayed[p]
          /\ v.dropped[p] = w.dropped[p]

(* Send drops an envelope, holds it back, or puts it into the queue and then*)
(* releases one: in no case is another one lost.                            *)
LEMMA LoopbackSends ==
    ASSUME NEW w \in LoopbackWorld, NEW p \in Pair, NEW e \in EnvelopeType,
           NEW result, result = LoopbackSend(w, p, e)
    PROVE  \/ ~ result.accepted /\ result.world = w
           \/ result.accepted /\ e \in Valid /\ SentOn(w, result.world, p, e)
<1>1. CASE w.state[p] # "Connected" \/ ~ValidateEnvelope(e)
  BY <1>1 DEF LoopbackSend
<1>2. CASE ~ (w.state[p] # "Connected" \/ ~ValidateEnvelope(e))
  <2>1. e \in Valid
    BY <1>2 DEF Valid
  <2>2. PICK q \in Pair : q = Other(p) /\ q # p
    BY Others
  <2>3. PICK counted : counted = [w EXCEPT !.ordinal[p] = @ + 1]
    BY Zenon
  <2>4. counted \in LoopbackWorld
    <3>1. PICK n \in Nat : n = w.ordinal[p] + 1
      BY LoopbackTyped
    <3>2. counted = [w EXCEPT !.ordinal[p] = n]
      BY <2>3, <3>1 DEF LoopbackWorld
    <3> QED
      BY <3>2, Zenon DEF LoopbackWorld
  <2>5. /\ counted.incoming = w.incoming /\ counted.delayed = w.delayed
        /\ counted.dropped = w.dropped /\ counted.conditions = w.conditions
    BY <2>3 DEF LoopbackWorld
  <2> DEFINE dropping == EveryNth(w.conditions[p].drop, counted.ordinal[p])
             delaying == EveryNth(w.conditions[p].delay, counted.ordinal[p])
  <2>6. result = IF dropping THEN [accepted |-> TRUE, world |-> [counted EXCEPT !.dropped[p] = @ + 1]]
                 ELSE IF delaying
                 THEN [accepted |-> TRUE, world |-> [counted EXCEPT !.delayed[p] = Append(@, e)]]
                 ELSE [accepted |-> TRUE, world |-> ReleaseOneDelayed(PushOutgoing(counted, p, e), p)]
    BY <1>2, <2>3 DEF LoopbackSend
  <2> HIDE DEF dropping, delaying
  <2>7. CASE dropping
    <3>1. result.accepted /\ result.world = [counted EXCEPT !.dropped[p] = @ + 1]
      BY <2>6, <2>7
    <3>2. PICK v : v = result.world
      OBVIOUS
    <3>3. v \in LoopbackWorld
      <4>1. PICK n \in Nat : n = counted.dropped[p] + 1
        <5>1. counted.dropped[p] \in Nat
          BY <2>4, LoopbackTyped
        <5> QED
          BY <5>1
      <4>2. v = [counted EXCEPT !.dropped[p] = n]
        BY <2>4, <3>1, <3>2, <4>1 DEF LoopbackWorld
      <4> QED
        BY <2>4, <4>2, Zenon DEF LoopbackWorld
    <3>4. /\ v.incoming = w.incoming /\ v.delayed = w.delayed
          /\ v.dropped[p] = w.dropped[p] + 1 /\ v.dropped[q] = w.dropped[q]
      BY <2>2, <2>4, <2>5, <3>1, <3>2 DEF LoopbackWorld
    <3>5. SentOn(w, v, p, e)
      BY <2>2, <3>3, <3>4 DEF SentOn, SameOther, OnWay
    <3> QED
      BY <2>1, <3>1, <3>2, <3>5
  <2>8. CASE ~dropping /\ delaying
    <3>1. result.accepted /\ result.world = [counted EXCEPT !.delayed[p] = Append(@, e)]
      BY <2>6, <2>8
    <3>2. PICK v : v = result.world
      OBVIOUS
    <3>3. PICK l \in Seq(Valid), m \in Seq(Valid) : l = w.delayed[p] /\ m = Append(l, e)
      <4>1. PICK l \in Seq(Valid) : l = w.delayed[p]
        BY LoopbackTyped
      <4>2. Append(l, e) \in Seq(Valid)
        BY <2>1
      <4> QED
        BY <4>1, <4>2, Zenon
    <3>4. v = [counted EXCEPT !.delayed[p] = m]
      BY <2>4, <2>5, <3>1, <3>2, <3>3 DEF LoopbackWorld
    <3>5. v \in LoopbackWorld
      BY <2>4, <3>4, Zenon DEF LoopbackWorld
    <3>6. /\ v.incoming = w.incoming /\ v.delayed[p] = m /\ v.delayed[q] = w.delayed[q]
          /\ v.dropped = w.dropped
      BY <2>2, <2>4, <2>5, <3>4 DEF LoopbackWorld
    <3>7. PICK i \in Seq(Valid) : i = w.incoming[q]
      BY LoopbackTyped
    <3>8. i \o m = Append(i \o l, e)
      <4>1. AppendsToSecond(i, l, e)
        BY <2>1, AppendConcat
      <4> QED
        BY <3>3, <4>1 DEF AppendsToSecond
    <3>9. OnWay(v, p) = Append(OnWay(w, p), e)
      BY <2>2, <3>3, <3>6, <3>7, <3>8 DEF OnWay
    <3>10. SentOn(w, v, p, e)
      BY <2>2, <3>5, <3>6, <3>9 DEF SentOn, SameOther
    <3> QED
      BY <2>1, <3>1, <3>2, <3>10
  <2>9. CASE ~dropping /\ ~delaying
    <3>1. PICK u : u = PushOutgoing(counted, p, e)
      OBVIOUS
    <3>2. PICK v : v = ReleaseOneDelayed(u, p)
      OBVIOUS
    <3>3. result.accepted /\ result.world = v
      BY <2>6, <2>9, <3>1, <3>2
    <3>4. /\ u \in LoopbackWorld /\ u.incoming[Other(p)] = Append(counted.incoming[Other(p)], e)
          /\ u.delayed = counted.delayed /\ u.dropped = counted.dropped
          /\ u.incoming[p] = counted.incoming[p]
      BY <2>1, <2>4, <3>1, PushTyped
    <3>5. /\ v \in LoopbackWorld /\ OnWay(v, p) = OnWay(u, p) /\ v.dropped = u.dropped
          /\ SameOther(u, v, p)
      BY <3>2, <3>4, ReleaseTyped
    <3>6. OnWay(u, p) = Append(w.incoming[Other(p)], e) \o w.delayed[p]
      BY <2>5, <3>4 DEF OnWay
    <3>7. SameOther(w, v, p)
      BY <2>2, <2>5, <3>4, <3>5 DEF SameOther
    <3>8. SentOn(w, v, p, e)
      BY <2>5, <3>4, <3>5, <3>6, <3>7 DEF SentOn
    <3> QED
      BY <2>1, <3>3, <3>8
  <2> QED
    BY <2>7, <2>8, <2>9
<1> QED
  BY <1>1, <1>2

LeavesFirst(a, b) == a \o b # <<>> /\ Head(a \o b) = Head(a) /\ Tail(a \o b) = Tail(a) \o b

LEMMA FirstLeaves ==
    ASSUME NEW a \in Seq(Valid), NEW b \in Seq(Valid), a # <<>>
    PROVE  LeavesFirst(a, b)
<1>1. a \o b # <<>>
  OBVIOUS
<1>2. Head(a \o b) = Head(a)
  OBVIOUS
<1>3. Tail(a \o b) = Tail(a) \o b
  OBVIOUS
<1> QED
  BY <1>1, <1>2, <1>3 DEF LeavesFirst

(* A Poll: the next on its way from the other end, or nothing.              *)
PolledFrom(w, v, p, polledNow) ==
    /\ v \in LoopbackWorld /\ OnWay(v, p) = OnWay(w, p) /\ v.dropped = w.dropped
    /\ OnWay(w, Other(p)) # <<>> /\ OnWay(v, Other(p)) = Tail(OnWay(w, Other(p)))
    /\ polledNow = <<Head(OnWay(w, Other(p)))>>

(* Poll takes the first from the queue.                                     *)
LEMMA LoopbackPolls ==
    ASSUME NEW w \in LoopbackWorld, NEW p \in Pair, NEW result, result = LoopbackPoll(w, p)
    PROVE  \/ result.polled = <<>> /\ result.world = w
           \/ PolledFrom(w, result.world, p, result.polled)
<1>1. CASE w.state[p] # "Connected" \/ w.incoming[p] = <<>>
  BY <1>1 DEF LoopbackPoll
<1>2. CASE ~ (w.state[p] # "Connected" \/ w.incoming[p] = <<>>)
  <2>1. PICK q \in Pair : q = Other(p) /\ q # p /\ Other(q) = p
    BY Others
  <2>2. PICK i \in Seq(Valid), l \in Seq(Valid) : i = w.incoming[p] /\ l = w.delayed[q]
    BY <2>1, LoopbackTyped
  <2>3. PICK h \in Valid, t \in Seq(Valid) : h = Head(i) /\ t = Tail(i)
    <3>1. Head(i) \in Valid /\ Tail(i) \in Seq(Valid)
      BY <1>2, <2>2
    <3> QED
      BY <3>1, Zenon
  <2>4. ValidateEnvelope(h)
    BY DEF Valid
  <2>5. PICK v : v = [w EXCEPT !.incoming[p] = t]
    BY Zenon
  <2>6. [w EXCEPT !.incoming[p] = Tail(@)] = v
    BY <2>2, <2>3, <2>5 DEF LoopbackWorld
  <2>7. result = [world |-> v, polled |-> <<h>>]
    BY <1>2, <2>2, <2>3, <2>4, <2>6, Zenon DEF LoopbackPoll
  <2>8. v \in LoopbackWorld
    BY <2>5, Zenon DEF LoopbackWorld
  <2>9. v.incoming[p] = t /\ v.incoming[q] = w.incoming[q] /\ v.delayed = w.delayed /\ v.dropped = w.dropped
    BY <2>1, <2>5 DEF LoopbackWorld
  <2>10. i \o l # <<>> /\ Head(i \o l) = h /\ Tail(i \o l) = t \o l
    BY <1>2, <2>2, <2>3, FirstLeaves, Zenon DEF LeavesFirst
  <2>11. OnWay(w, q) = i \o l /\ OnWay(v, q) = t \o l /\ OnWay(v, p) = OnWay(w, p)
    BY <2>1, <2>2, <2>9 DEF OnWay
  <2>12. PICK il \in Seq(Valid) : il = i \o l
    BY ConcatInSeq, Zenon
  <2>13. /\ OnWay(w, Other(p)) = il /\ il # <<>> /\ Head(il) = h
         /\ OnWay(v, Other(p)) = Tail(il)
    BY <2>1, <2>10, <2>11, <2>12, Zenon
  <2>14. PolledFrom(w, v, p, <<h>>)
    BY <2>8, <2>9, <2>11, <2>13 DEF PolledFrom
  <2>15. result.world = v /\ result.polled = <<h>>
    BY <2>7
  <2> QED
    BY <2>14, <2>15
<1> QED
  BY <1>1, <1>2

LoopWaiting(w, d) == IF d[1] \in Pair /\ d[2] \in Pair THEN OnWay(w, d[1]) ELSE <<>>
LoopDropped(w, d) == IF d[1] \in Pair /\ d[2] \in Pair THEN w.dropped[d[1]] ELSE 0

(* The directions of a pair.                                                *)
LEMMA PairDirections ==
    /\ \A d \in Direction : d[1] \in Pair /\ d[2] \in Pair => d[2] = Other(d[1]) /\ d = <<d[1], d[2]>>
    /\ \A p \in Pair : <<p, Other(p)>> \in Direction
  BY DEF Direction, Pair, Other, Client, Server

(* Waiting and Dropped for the loopback, in this and in the next state.     *)
LEMMA LoopWaits ==
    ASSUME impl = "loopback", NEW d \in Direction
    PROVE  Waiting(d) = LoopWaiting(world, d) /\ Dropped(d) = LoopDropped(world, d)
<1>1. Peers = Pair
  BY DEF Peers, Pair
<1> QED
  BY <1>1, PairDirections DEF Waiting, Dropped, LoopWaiting, LoopDropped, OnWay

LEMMA LoopWaitsNext ==
    ASSUME impl' = "loopback", NEW d \in Direction
    PROVE  Waiting(d)' = LoopWaiting(world', d) /\ Dropped(d)' = LoopDropped(world', d)
<1>1. Peers' = Pair
  BY DEF Peers, Pair
<1> QED
  BY <1>1, PairDirections DEF Waiting, Dropped, LoopWaiting, LoopDropped, OnWay

LEMMA SameStays ==
    ASSUME NEW d \in Direction, Waiting(d) \in Seq(Valid), Waiting(d)' = Waiting(d),
           Dropped(d)' = Dropped(d), sent'[d] = sent[d], polled'[d] = polled[d]
    PROVE  Moves(d)
<1>1. CutOf(Waiting(d), Waiting(d)')
  BY CutOfItself
<1> QED
  BY <1>1 DEF Moves, Stays

LEMMA LoopQuietMoves ==
    ASSUME impl = "loopback", impl' = impl, sent' = sent, polled' = polled,
           world \in LoopbackWorld, SameQueues(world, world'),
           NEW d \in Direction, Waiting(d) \in Seq(Valid)
    PROVE  Moves(d)
<1>1. /\ Waiting(d) = LoopWaiting(world, d) /\ Dropped(d) = LoopDropped(world, d)
      /\ Waiting(d)' = LoopWaiting(world', d) /\ Dropped(d)' = LoopDropped(world', d)
  BY LoopWaits, LoopWaitsNext
<1>2. LoopWaiting(world', d) = LoopWaiting(world, d) /\ LoopDropped(world', d) = LoopDropped(world, d)
  BY DEF LoopWaiting, LoopDropped, SameQueues
<1> QED
  BY <1>1, <1>2, SameStays

LEMMA LoopSendMoves ==
    ASSUME impl = "loopback", script \in Script, world \in LoopbackWorld,
           sent \in [Direction -> Seq(Valid)], NEW p \in Pair, NEW q \in Pair,
           <<p, q>> \in Direction, Send(p, q),
           NEW d \in Direction, Waiting(d) \in Seq(Valid)
    PROVE  /\ world' \in LoopbackWorld /\ sent' \in [Direction -> Seq(Valid)]
           /\ Moves(d)
<1>1. impl' = "loopback" /\ script' = script /\ polled' = polled
  BY DEF Send
<1>2. /\ Waiting(d) = LoopWaiting(world, d) /\ Dropped(d) = LoopDropped(world, d)
      /\ Waiting(d)' = LoopWaiting(world', d) /\ Dropped(d)' = LoopDropped(world', d)
  BY <1>1, LoopWaits, LoopWaitsNext
<1>3. q = Other(p)
  BY PairDirections, Zenon
<1> DEFINE n == Len(sent[<<p, q>>])
<1>4. n < Len(script[<<p, q>>]) /\ n \in Nat /\ script[<<p, q>>] \in Seq(Item)
  BY ScriptAssumption DEF Send
<1>5. PICK e : /\ e = EnvelopeFor(<<p, q>>, script[<<p, q>>][n + 1])
               /\ \E result \in {LoopbackSend(world, p, e)} :
                    /\ world' = result.world
                    /\ sent' = IF result.accepted THEN [sent EXCEPT ![<<p, q>>] = Append(@, e)]
                               ELSE sent
  BY Zenon DEF Send, Updated
<1>6. e \in EnvelopeType
  <2>1. n + 1 \in 1..Len(script[<<p, q>>])
    BY <1>4
  <2> QED
    BY <1>5, <2>1, ScriptTyped
<1>7. PICK result : /\ result = LoopbackSend(world, p, e) /\ world' = result.world
                    /\ sent' = IF result.accepted THEN [sent EXCEPT ![<<p, q>>] = Append(@, e)]
                               ELSE sent
  BY <1>5
<1>8. CASE ~ result.accepted /\ result.world = world
  <2>1. sent' = sent /\ world' = world
    BY <1>7, <1>8
  <2> QED
    BY <1>1, <1>2, <2>1, SameStays
<1>9. CASE result.accepted /\ e \in Valid /\ SentOn(world, world', p, e)
  <2>1. sent' = [sent EXCEPT ![<<p, q>>] = Append(@, e)]
    BY <1>7, <1>9
  <2>2. sent' \in [Direction -> Seq(Valid)]
    <3>1. PICK s \in Seq(Valid) : s = sent[<<p, q>>]
      OBVIOUS
    <3>2. PICK s2 \in Seq(Valid) : s2 = Append(s, e)
      <4>1. Append(s, e) \in Seq(Valid)
        BY <1>9
      <4> QED
        BY <4>1, Zenon
    <3>3. sent' = [sent EXCEPT ![<<p, q>>] = s2]
      BY <2>1, <3>1, <3>2
    <3> QED
      BY <3>3
  <2>3. world' \in LoopbackWorld
    BY <1>9 DEF SentOn
  <2>4. CASE d = <<p, q>>
    <3>1. d[1] = p /\ d[2] = q
      BY <2>4
    <3>2. Takes(d, e, e)
      BY <1>1, <1>4, <1>5, <2>1, <2>4, Zenon DEF Takes
    <3>3. /\ Waiting(d) = OnWay(world, p) /\ Dropped(d) = world.dropped[p]
          /\ Waiting(d)' = OnWay(world', p) /\ Dropped(d)' = world'.dropped[p]
      BY <1>2, <3>1 DEF LoopWaiting, LoopDropped
    <3>4. Adds(d, e) \/ Inserts(d, e) \/ Drops(d)
      <4>1. CASE OnWay(world', p) = OnWay(world, p) /\ world'.dropped[p] = world.dropped[p] + 1
        BY <3>3, <4>1 DEF Drops
      <4>2. CASE /\ OnWay(world', p) = Append(OnWay(world, p), e)
                 /\ world'.dropped[p] = world.dropped[p]
        BY <3>3, <4>2 DEF Adds
      <4>3. CASE /\ OnWay(world', p) = Append(world.incoming[Other(p)], e) \o world.delayed[p]
                 /\ world'.dropped[p] = world.dropped[p]
        <5>1. world.incoming[Other(p)] \in Seq(Valid) /\ world.delayed[p] \in Seq(Valid)
          BY Others, LoopbackTyped
        <5>2. OnWay(world, p) = world.incoming[Other(p)] \o world.delayed[p]
          BY DEF OnWay
        <5> QED
          BY <3>3, <4>3, <5>1, <5>2, Zenon DEF Inserts
      <4> QED
        BY <1>9, <4>1, <4>2, <4>3, Zenon DEF SentOn
    <3>5. Puts(d)
      BY <1>9, <3>2, <3>4 DEF Puts
    <3> QED
      BY <2>2, <2>3, <3>5 DEF Moves
  <2>5. CASE d # <<p, q>>
    <3>1. sent'[d] = sent[d] /\ polled'[d] = polled[d]
      BY <1>1, <2>1, <2>5
    <3>2. SameOther(world, world', p)
      BY <1>9 DEF SentOn
    <3>3. /\ world'.dropped[q] = world.dropped[q] /\ OnWay(world', q) = OnWay(world, q)
      BY <1>3, <3>2, OtherWay
    <3>4. ASSUME d[1] \in Pair, d[2] \in Pair PROVE d[1] = q
      <4>1. d[1] # p
        BY <1>3, <2>5, <3>4, PairDirections
      <4> QED
        BY <1>3, <3>4, <4>1, PairOf
    <3>5. /\ LoopWaiting(world', d) = LoopWaiting(world, d)
          /\ LoopDropped(world', d) = LoopDropped(world, d)
      BY <3>3, <3>4 DEF LoopWaiting, LoopDropped
    <3>6. Moves(d)
      BY <1>2, <3>1, <3>5, SameStays
    <3> QED
      BY <2>2, <2>3, <3>6
  <2> QED
    BY <2>4, <2>5
<1> QED
  BY <1>6, <1>7, <1>8, <1>9, LoopbackSends

LEMMA AppendOne ==
    ASSUME NEW s \in Seq(Valid), NEW h \in Valid
    PROVE  s \o <<h>> = Append(s, h) /\ <<h>> # <<>> /\ Head(<<h>>) = h
  OBVIOUS

LEMMA LoopPollMoves ==
    ASSUME impl = "loopback", world \in LoopbackWorld, NEW p \in Pair, Poll(p),
           NEW d \in Direction, Waiting(d) \in Seq(Valid), polled[d] \in Seq(Valid)
    PROVE  /\ world' \in LoopbackWorld /\ sent' = sent
           /\ Moves(d)
<1>1. impl' = "loopback" /\ script' = script /\ sent' = sent
  BY DEF Poll
<1>2. /\ Waiting(d) = LoopWaiting(world, d) /\ Dropped(d) = LoopDropped(world, d)
      /\ Waiting(d)' = LoopWaiting(world', d) /\ Dropped(d)' = LoopDropped(world', d)
  BY <1>1, LoopWaits, LoopWaitsNext
<1>3. PICK q \in Pair : q = Other(p) /\ q # p /\ Other(q) = p
  BY Others
<1>4. \A e : From(p, e) = q
  BY <1>3 DEF From, Other, Pair, Server
<1>5. PICK result :
        /\ result = LoopbackPoll(world, p) /\ world' = result.world
        /\ polled' = [c \in Direction |-> IF result.polled # <<>> /\ c = <<q, p>>
                                          THEN polled[c] \o result.polled ELSE polled[c]]
  BY <1>4 DEF Poll, Updated
<1>6. CASE result.polled = <<>> /\ result.world = world
  <2>1. world' = world /\ polled'[d] = polled[d]
    BY <1>5, <1>6
  <2> QED
    BY <1>1, <1>2, <2>1, SameStays
<1>7. CASE PolledFrom(world, world', p, result.polled)
  <2>1. PICK v \in Seq(Valid) : v = OnWay(world, q)
    BY LoopbackTyped
  <2>2. /\ world' \in LoopbackWorld /\ OnWay(world', p) = OnWay(world, p)
        /\ world'.dropped = world.dropped /\ v # <<>> /\ OnWay(world', q) = Tail(v)
        /\ result.polled = <<Head(v)>>
    BY <1>3, <1>7, <2>1 DEF PolledFrom
  <2>3. PICK h \in Valid : h = Head(v)
    BY <2>2
  <2>4. CASE d = <<q, p>>
    <3>1. d[1] = q /\ d[2] = p
      BY <2>4
    <3>2. /\ Waiting(d) = v /\ Waiting(d)' = Tail(v) /\ Dropped(d)' = Dropped(d)
      BY <1>2, <2>1, <2>2, <3>1 DEF LoopWaiting, LoopDropped
    <3>3. polled'[d] = Append(polled[d], Head(v))
      <4>1. PICK s \in Seq(Valid) : s = polled[d]
        OBVIOUS
      <4>2. result.polled = <<h>>
        BY <2>2, <2>3
      <4>3. s \o <<h>> = Append(s, h) /\ <<h>> # <<>>
        BY AppendOne
      <4>4. polled'[d] = s \o <<h>>
        BY <1>5, <2>4, <4>1, <4>2, <4>3, Zenon
      <4> QED
        BY <2>3, <4>1, <4>3, <4>4
    <3>4. CutOf(Waiting(d), v)
      BY <3>2, CutOfItself
    <3>5. Gives(d)
      BY <1>1, <2>2, <3>2, <3>3, <3>4, Zenon DEF Gives
    <3> QED
      BY <1>1, <2>2, <3>5 DEF Moves
  <2>5. CASE d # <<q, p>>
    <3>1. polled'[d] = polled[d]
      BY <1>5, <2>5
    <3>2. ASSUME d[1] \in Pair, d[2] \in Pair PROVE d[1] = p
      <4>1. d[1] # q
        BY <1>3, <2>5, <3>2, PairDirections
      <4> QED
        BY <1>3, <3>2, <4>1, PairOf
    <3>3. /\ LoopWaiting(world', d) = LoopWaiting(world, d)
          /\ LoopDropped(world', d) = LoopDropped(world, d)
      BY <2>2, <3>2 DEF LoopWaiting, LoopDropped
    <3>4. Moves(d)
      BY <1>1, <1>2, <3>1, <3>3, SameStays
    <3> QED
      BY <1>1, <2>2, <3>4
  <2> QED
    BY <2>4, <2>5
<1> QED
  BY <1>5, <1>6, <1>7, LoopbackPolls

(* What the invariant says of any implementation.                           *)
Common ==
    /\ impl \in Implementation /\ script \in Script /\ closes \in 0..MaxCloses
    /\ sent \in [Direction -> Seq(Valid)]
    /\ \A d \in Direction : SentSoFar(d) /\ Arrived(d)

(* Every step of a loopback moves each direction by at most one envelope.   *)
LEMMA LoopbackMoves ==
    ASSUME impl = "loopback", Common, world \in LoopbackWorld, Next
    PROVE  /\ world' \in LoopbackWorld /\ sent' \in [Direction -> Seq(Valid)]
           /\ \A d \in Direction : Moves(d)
<1>1. Peers = Pair
  BY DEF Peers, Pair
<1>2. \A d \in Direction : Waiting(d) \in Seq(Valid) /\ polled[d] \in Seq(Valid)
  BY DEF Common, Arrived
<1>3. sent \in [Direction -> Seq(Valid)] /\ script \in Script
  BY DEF Common
<1>4. PICK p \in Pair :
        \/ Connect(p) \/ Update(p) \/ Close(p) \/ Poll(p) \/ FlushDelayed(p)
        \/ \E q \in Pair : <<p, q>> \in Direction /\ Send(p, q)
        \/ \E c \in Conditions : SetNetworkConditions(p, c)
  BY <1>1, Zenon DEF Next
<1>5. <<p, Other(p)>> \in Direction
  BY PairDirections
<1>6. CASE Poll(p)
  BY <1>2, <1>3, <1>5, <1>6, LoopPollMoves
<1>7. CASE \E q \in Pair : <<p, q>> \in Direction /\ Send(p, q)
  <2>1. PICK q \in Pair : <<p, q>> \in Direction /\ Send(p, q)
    BY <1>7
  <2> QED
    BY <1>2, <1>3, <1>5, <2>1, LoopSendMoves
<1>8. CASE Connect(p) \/ Close(p) \/ \E c \in Conditions : SetNetworkConditions(p, c)
  <2>1. sent' = sent /\ polled' = polled /\ impl' = impl
    BY <1>8 DEF Connect, Close, SetNetworkConditions
  <2>2. PICK c \in Conditions : c = world.conditions[p]
    BY DEF LoopbackWorld
  <2>3. PICK c2 \in Conditions :
          world' \in {LoopbackConnect(world, p), LoopbackClose(world, p),
                      LoopbackSetNetworkConditions(world, p, c2)}
    <3>1. CASE Connect(p) \/ Close(p)
      BY <2>2, <3>1 DEF Connect, Close
    <3>2. CASE \E c2 \in Conditions : SetNetworkConditions(p, c2)
      BY <3>2 DEF SetNetworkConditions
    <3> QED
      BY <1>8, <3>1, <3>2
  <2>4. world' \in LoopbackWorld /\ SameQueues(world, world')
    BY <2>3, LoopbackQuiet
  <2> QED
    BY <1>2, <1>3, <2>1, <2>4, LoopQuietMoves
<1>9. CASE Update(p) \/ FlushDelayed(p)
  <2>1. sent' = sent /\ polled' = polled /\ impl' = impl
    BY <1>9 DEF Update, FlushDelayed
  <2>2. world' \in {LoopbackUpdate(world, p), LoopbackFlushDelayed(world, p)}
    BY <1>9 DEF Update, FlushDelayed
  <2>3. world' \in LoopbackWorld /\ SameQueues(world, world')
    BY <2>2, LoopbackReleases
  <2> QED
    BY <1>2, <1>3, <2>1, <2>3, LoopQuietMoves
<1> QED
  BY <1>4, <1>6, <1>7, <1>8, <1>9

-----------------------------------------------------------------------------
(* The hub.                                                                 *)

(* The hub.                                                                 *)
HubWorld ==
    [state : [Peer -> {"Connected", "Disconnected"}], incoming : [Peer -> Seq(Valid)]]

HubFrom(to, e) == IF to # Server THEN Server ELSE e.peerId

(* What of a queue is on its way in a direction.                            *)
HubPlaces(queue, d) == {i \in DOMAIN queue : HubFrom(d[2], queue[i]) = d[1]}
HubQueue(queue, d) == ElementsAt(queue, HubPlaces(queue, d))

(* The hub's queues hold valid envelopes.                                   *)
LEMMA HubTyped ==
    ASSUME NEW queue \in Seq(Valid), NEW d
    PROVE  HubQueue(queue, d) \in Seq(Valid)
  BY ElementsTyped DEF HubQueue

(* An envelope appended to a queue is appended to those of its sender and to*)
(* no others.                                                               *)
LEMMA HubAppend ==
    ASSUME NEW queue \in Seq(Valid), NEW e \in Valid, NEW d
    PROVE  /\ HubFrom(d[2], e) = d[1] => HubQueue(Append(queue, e), d) = Append(HubQueue(queue, d), e)
           /\ HubFrom(d[2], e) # d[1] => HubQueue(Append(queue, e), d) = HubQueue(queue, d)
<1>1. PICK longer \in Seq(Valid) :
        /\ longer = Append(queue, e) /\ DOMAIN longer = 1..(Len(queue) + 1)
        /\ longer[Len(queue) + 1] = e /\ \A i \in 1..Len(queue) : longer[i] = queue[i]
  <2>1. /\ Append(queue, e) \in Seq(Valid) /\ DOMAIN Append(queue, e) = 1..(Len(queue) + 1)
        /\ Append(queue, e)[Len(queue) + 1] = e
        /\ \A i \in 1..Len(queue) : Append(queue, e)[i] = queue[i]
    OBVIOUS
  <2> QED
    BY <2>1, Zenon
<1>2. PICK n \in Nat : n = Len(queue) /\ DOMAIN queue = 1..n
  OBVIOUS
<1>3. PICK places, more : places = HubPlaces(queue, d) /\ more = HubPlaces(longer, d)
  OBVIOUS
<1>4. SamePlaces(queue, places, more)
  BY <1>1, <1>2, <1>3 DEF SamePlaces, HubPlaces
<1>5. n + 1 \in more <=> HubFrom(d[2], e) = d[1]
  BY <1>1, <1>2, <1>3 DEF HubPlaces
<1>6. ElementsAt(Append(queue, e), more)
        = IF Len(queue) + 1 \in more THEN Append(ElementsAt(queue, places), e)
          ELSE ElementsAt(queue, places)
  BY <1>4, ElementsAppend
<1> QED
  BY <1>1, <1>2, <1>3, <1>5, <1>6 DEF HubQueue

(* The first of a queue is the first of its sender's.                       *)
LEMMA HubHead ==
    ASSUME NEW queue \in Seq(Valid), queue # <<>>, NEW d
    PROVE  /\ HubFrom(d[2], Head(queue)) = d[1] =>
                /\ HubQueue(queue, d) # <<>> /\ Head(HubQueue(queue, d)) = Head(queue)
                /\ Tail(HubQueue(queue, d)) = HubQueue(Tail(queue), d)
           /\ HubFrom(d[2], Head(queue)) # d[1] => HubQueue(Tail(queue), d) = HubQueue(queue, d)
<1>1. PICK n \in Nat : n = Len(queue) /\ DOMAIN queue = 1..n /\ n >= 1
  OBVIOUS
<1>2. PICK rest \in Seq(Valid) :
        /\ rest = Tail(queue) /\ DOMAIN rest = 1..(n - 1) /\ Len(rest) = n - 1
        /\ \A i \in 1..(n - 1) : rest[i] = queue[i + 1]
  <2>1. /\ Tail(queue) \in Seq(Valid) /\ DOMAIN Tail(queue) = 1..(n - 1) /\ Len(Tail(queue)) = n - 1
        /\ \A i \in 1..(n - 1) : Tail(queue)[i] = queue[i + 1]
    BY <1>1
  <2> QED
    BY <2>1, Zenon
<1>3. PICK places, fewer : places = HubPlaces(queue, d) /\ fewer = HubPlaces(rest, d)
  OBVIOUS
<1>4. MovedPlaces(queue, places, fewer)
  BY <1>1, <1>2, <1>3 DEF MovedPlaces, HubPlaces
<1>5. PICK h \in Valid : h = Head(queue) /\ h = queue[1]
  BY <1>1
<1>6. 1 \in places <=> HubFrom(d[2], h) = d[1]
  BY <1>1, <1>3, <1>5 DEF HubPlaces
<1>7. ElementsAt(queue, places) = FirstAt(queue, places) \o ElementsAt(rest, fewer)
  BY <1>2, <1>4, ElementsTail
<1>8. PICK left \in Seq(Valid) : left = ElementsAt(rest, fewer) /\ left = HubQueue(Tail(queue), d)
  BY <1>2, <1>3, HubTyped, Zenon DEF HubQueue
<1>9. ASSUME HubFrom(d[2], h) = d[1]
      PROVE  /\ HubQueue(queue, d) # <<>> /\ Head(HubQueue(queue, d)) = h
             /\ Tail(HubQueue(queue, d)) = left
  <2>1. HubQueue(queue, d) = <<h>> \o left
    BY <1>3, <1>5, <1>6, <1>7, <1>8, <1>9 DEF HubQueue, FirstAt
  <2>2. <<h>> \o left # <<>> /\ Head(<<h>> \o left) = h /\ Tail(<<h>> \o left) = left
    OBVIOUS
  <2> QED
    BY <2>1, <2>2
<1>10. ASSUME HubFrom(d[2], h) # d[1] PROVE HubQueue(queue, d) = left
  <2>1. HubQueue(queue, d) = <<>> \o left
    BY <1>3, <1>6, <1>7, <1>8, <1>10 DEF HubQueue, FirstAt
  <2> QED
    BY <2>1, EmptyConcat
<1> QED
  BY <1>5, <1>8, <1>9, <1>10

(* Waiting and Dropped for the hub, in this and in the next state.          *)
LEMMA HubWaits ==
    ASSUME impl = "hub", NEW d \in Direction
    PROVE  Waiting(d) = HubQueue(world.incoming[d[2]], d) /\ Dropped(d) = 0
<1>1. Peers = Peer /\ d[1] \in Peer /\ d[2] \in Peer
  BY DEF Peers, Direction, Peer
<1>2. \A e : From(d[2], e) = HubFrom(d[2], e)
  BY DEF From, HubFrom
<1>3. {i \in DOMAIN world.incoming[d[2]] : From(d[2], world.incoming[d[2]][i]) = d[1]}
        = HubPlaces(world.incoming[d[2]], d)
  BY <1>2 DEF HubPlaces
<1> QED
  BY <1>1, <1>3, Zenon DEF Waiting, HubQueue, Dropped

LEMMA HubWaitsNext ==
    ASSUME impl' = "hub", NEW d \in Direction
    PROVE  Waiting(d)' = HubQueue(world'.incoming[d[2]], d) /\ Dropped(d)' = 0
<1>1. Peers' = Peer /\ d[1] \in Peer /\ d[2] \in Peer
  BY DEF Peers, Direction, Peer
<1>2. {i \in DOMAIN world'.incoming[d[2]] :
          (IF d[2] # Server THEN Server
           ELSE IF impl' = "hub" THEN world'.incoming[d[2]][i].peerId ELSE 1) = d[1]}
        = HubPlaces(world'.incoming[d[2]], d)
  BY DEF HubPlaces, HubFrom
<1> QED
  BY <1>1, <1>2, Zenon DEF Waiting, HubQueue, Dropped, From

(* What a Send of p to q may have made of the hub.                          *)
HubSent(w, result, p, q, e) ==
    \/ ~ result.accepted /\ result.world = w
    \/ /\ result.accepted /\ e \in Valid
       /\ \E r \in Valid :
            /\ Content(r) = Content(e) /\ HubFrom(q, r) = p
            /\ result.world = [w EXCEPT !.incoming[q] = Append(@, r)]

(* Send puts an envelope under its sender's name into the queue of the peer *)
(* it is for, or refuses it.                                                *)
LEMMA HubSends ==
    ASSUME NEW w \in HubWorld, NEW p \in Peer, NEW q \in Peer, NEW d, d = <<p, q>>,
           d \in Direction, NEW e \in EnvelopeType,
           e.peerId = IF p = Server THEN q ELSE Nobody,
           NEW result, result = HubSend(w, p, e)
    PROVE  HubSent(w, result, p, q, e)
<1> DEFINE routed == IF p = Server THEN e ELSE [e EXCEPT !.peerId = p]
           to == IF p = Server THEN e.peerId ELSE Server
           refused == w.state[p] # "Connected" \/ ~ValidateEnvelope(e) \/ routed.peerId = 0
<1>1. result = IF refused THEN [accepted |-> FALSE, world |-> w]
               ELSE [accepted |-> TRUE, world |-> [w EXCEPT !.incoming[to] = Append(@, routed)]]
  BY DEF HubSend
<1>2. to = q
  BY DEF Direction, Client, Server
<1>3. ASSUME ~refused PROVE e \in Valid
  BY <1>3 DEF Valid
<1>4. ASSUME ~refused PROVE routed \in Valid /\ Content(routed) = Content(e) /\ HubFrom(q, routed) = p
  <2>1. CASE p = Server
    <3>1. q # Server /\ routed = e
      BY <2>1 DEF Direction, Client, Server
    <3> QED
      BY <1>3, <1>4, <2>1, <3>1 DEF HubFrom
  <2>2. CASE p # Server
    <3>1. p \in Client /\ q = Server
      BY <2>2 DEF Direction, Client, Server
    <3>2. p \in Client \cup {0}
      BY <3>1
    <3>3. PICK r : r = [e EXCEPT !.peerId = p]
      BY Zenon
    <3>4. /\ r \in EnvelopeType /\ Content(r) = Content(e)
          /\ ValidateEnvelope(r) <=> ValidateEnvelope(e)
      BY <3>2, <3>3, ContentKeeps
    <3>5. r.peerId = p
      BY <3>3 DEF EnvelopeType
    <3>6. routed = r
      BY <2>2, <3>3
    <3>7. r \in Valid
      BY <1>4, <3>4 DEF Valid
    <3> HIDE DEF routed
    <3> QED
      BY <3>1, <3>4, <3>5, <3>6, <3>7 DEF HubFrom
  <2> QED
    BY <2>1, <2>2
<1> HIDE DEF routed, refused, to
<1>5. CASE refused
  BY <1>1, <1>5 DEF HubSent
<1>6. CASE ~refused
  <2>1. result.accepted /\ result.world = [w EXCEPT !.incoming[q] = Append(@, routed)]
    BY <1>1, <1>2, <1>6
  <2> QED
    BY <1>3, <1>4, <1>6, <2>1, Zenon DEF HubSent
<1> QED
  BY <1>5, <1>6

LEMMA HubQuietMoves ==
    ASSUME impl = "hub", impl' = impl, sent' = sent, polled' = polled,
           world'.incoming = world.incoming, NEW d \in Direction, Waiting(d) \in Seq(Valid)
    PROVE  Moves(d)
<1>1. /\ Waiting(d) = HubQueue(world.incoming[d[2]], d) /\ Dropped(d) = 0
      /\ Waiting(d)' = HubQueue(world'.incoming[d[2]], d) /\ Dropped(d)' = 0
  BY HubWaits, HubWaitsNext
<1> QED
  BY <1>1, SameStays

LEMMA HubSendMoves ==
    ASSUME impl = "hub", script \in Script, world \in HubWorld,
           sent \in [Direction -> Seq(Valid)], NEW p \in Peer, NEW q \in Peer,
           <<p, q>> \in Direction, Send(p, q),
           NEW d \in Direction, Waiting(d) \in Seq(Valid)
    PROVE  /\ world' \in HubWorld /\ sent' \in [Direction -> Seq(Valid)]
           /\ Moves(d)
<1>1. impl' = "hub" /\ script' = script /\ polled' = polled
  BY DEF Send
<1>2. /\ Waiting(d) = HubQueue(world.incoming[d[2]], d) /\ Dropped(d) = 0
      /\ Waiting(d)' = HubQueue(world'.incoming[d[2]], d) /\ Dropped(d)' = 0
  BY <1>1, HubWaits, HubWaitsNext
<1> DEFINE n == Len(sent[<<p, q>>])
<1>3. n < Len(script[<<p, q>>]) /\ n \in Nat /\ script[<<p, q>>] \in Seq(Item)
  BY ScriptAssumption DEF Send
<1>4. PICK e : /\ e = EnvelopeFor(<<p, q>>, script[<<p, q>>][n + 1])
               /\ \E result \in {HubSend(world, p, e)} :
                    /\ world' = result.world
                    /\ sent' = IF result.accepted THEN [sent EXCEPT ![<<p, q>>] = Append(@, e)]
                               ELSE sent
  BY Zenon DEF Send, Updated
<1>5. e \in EnvelopeType
  <2>1. n + 1 \in 1..Len(script[<<p, q>>])
    BY <1>3
  <2> QED
    BY <1>4, <2>1, ScriptTyped
<1>6. PICK result : /\ result = HubSend(world, p, e) /\ world' = result.world
                    /\ sent' = IF result.accepted THEN [sent EXCEPT ![<<p, q>>] = Append(@, e)]
                               ELSE sent
  BY <1>4
<1>7. e.peerId = IF p = Server THEN q ELSE Nobody
  BY <1>4 DEF EnvelopeFor, Envelope
<1>8. CASE ~ result.accepted /\ result.world = world
  <2>1. sent' = sent /\ world' = world
    BY <1>6, <1>8
  <2> QED
    BY <1>1, <1>2, <2>1, SameStays
<1>9. ASSUME result.accepted, e \in Valid, NEW r \in Valid, Content(r) = Content(e),
             HubFrom(q, r) = p, result.world = [world EXCEPT !.incoming[q] = Append(@, r)]
      PROVE  world' \in HubWorld /\ sent' \in [Direction -> Seq(Valid)] /\ Moves(d)
  <2>1. sent' = [sent EXCEPT ![<<p, q>>] = Append(@, e)]
    BY <1>6, <1>9
  <2>2. sent' \in [Direction -> Seq(Valid)]
    <3>1. PICK s \in Seq(Valid) : s = sent[<<p, q>>]
      OBVIOUS
    <3>2. PICK s2 \in Seq(Valid) : s2 = Append(s, e)
      <4>1. Append(s, e) \in Seq(Valid)
        BY <1>9
      <4> QED
        BY <4>1, Zenon
    <3>3. sent' = [sent EXCEPT ![<<p, q>>] = s2]
      BY <2>1, <3>1, <3>2
    <3> QED
      BY <3>3
  <2>3. PICK i \in Seq(Valid) : i = world.incoming[q]
    BY DEF HubWorld
  <2>4. PICK i2 \in Seq(Valid) : i2 = Append(i, r)
    <3>1. Append(i, r) \in Seq(Valid)
      OBVIOUS
    <3> QED
      BY <3>1, Zenon
  <2>5. world' = [world EXCEPT !.incoming[q] = i2]
    BY <1>6, <1>9, <2>3, <2>4 DEF HubWorld
  <2>6. world' \in HubWorld
    BY <2>5, Zenon DEF HubWorld
  <2>7. /\ world'.incoming[q] = i2
        /\ \A k \in Peer : k # q => world'.incoming[k] = world.incoming[k]
    BY <2>5 DEF HubWorld
  <2>8. CASE d = <<p, q>>
    <3>1. d[1] = p /\ d[2] = q
      BY <2>8
    <3>2. Takes(d, e, r)
      BY <1>1, <1>3, <1>4, <1>9, <2>1, <2>8, Zenon DEF Takes
    <3>3. HubQueue(Append(i, r), d) = Append(HubQueue(i, d), r)
      BY <1>9, <3>1, HubAppend
    <3>4. Adds(d, r)
      BY <1>2, <2>3, <2>4, <2>7, <3>1, <3>3, Zenon DEF Adds
    <3>5. Puts(d)
      BY <1>9, <3>2, <3>4 DEF Puts
    <3> QED
      BY <2>2, <2>6, <3>5 DEF Moves
  <2>9. CASE d # <<p, q>>
    <3>1. sent'[d] = sent[d] /\ polled'[d] = polled[d]
      BY <1>1, <2>1, <2>9
    <3>2. d[2] \in Peer
      BY DEF Direction, Peer
    <3>3. HubQueue(world'.incoming[d[2]], d) = HubQueue(world.incoming[d[2]], d)
      <4>1. CASE d[2] # q
        BY <2>7, <3>2, <4>1
      <4>2. CASE d[2] = q
        <5>1. d[1] # p
          BY <2>9, <4>2 DEF Direction
        <5>2. HubQueue(Append(i, r), d) = HubQueue(i, d)
          BY <1>9, <4>2, <5>1, HubAppend
        <5> QED
          BY <2>3, <2>4, <2>7, <4>2, <5>2, Zenon
      <4> QED
        BY <4>1, <4>2
    <3>4. Moves(d)
      BY <1>2, <3>1, <3>3, SameStays
    <3> QED
      BY <2>2, <2>6, <3>4
  <2> QED
    BY <2>8, <2>9
<1>10. HubSent(world, result, p, q, e)
  <2>1. PICK c \in Direction : c = <<p, q>>
    OBVIOUS
  <2>2. result = HubSend(world, p, e)
    BY <1>6
  <2> QED
    BY <1>5, <1>7, <2>1, <2>2, HubSends
<1>11. CASE ~(~ result.accepted /\ result.world = world)
  <2>1. PICK r \in Valid :
          /\ Content(r) = Content(e) /\ HubFrom(q, r) = p
          /\ result.world = [world EXCEPT !.incoming[q] = Append(@, r)]
    BY <1>10, <1>11, Zenon DEF HubSent
  <2>2. result.accepted /\ e \in Valid
    BY <1>10, <1>11 DEF HubSent
  <2> QED
    BY <1>9, <2>1, <2>2, Zenon
<1> QED
  BY <1>8, <1>11

(* Poll takes the first from the queue.                                     *)
LEMMA HubPolls ==
    ASSUME NEW w \in HubWorld, NEW p \in Peer, NEW result, result = HubPoll(w, p)
    PROVE  \/ result.polled = <<>> /\ result.world = w
           \/ /\ w.incoming[p] # <<>> /\ result.polled = <<Head(w.incoming[p])>>
              /\ result.world = [w EXCEPT !.incoming[p] = Tail(w.incoming[p])]
<1>1. CASE w.state[p] # "Connected" \/ w.incoming[p] = <<>>
  BY <1>1 DEF HubPoll
<1>2. CASE ~ (w.state[p] # "Connected" \/ w.incoming[p] = <<>>)
  <2>1. PICK i \in Seq(Valid) : i = w.incoming[p]
    BY DEF HubWorld
  <2>2. Head(i) \in Valid
    BY <1>2, <2>1
  <2>3. ValidateEnvelope(Head(i))
    BY <2>2 DEF Valid
  <2>4. [w EXCEPT !.incoming[p] = Tail(@)] = [w EXCEPT !.incoming[p] = Tail(i)]
    BY <2>1 DEF HubWorld
  <2>5. result = [world |-> [w EXCEPT !.incoming[p] = Tail(i)], polled |-> <<Head(i)>>]
    BY <1>2, <2>1, <2>3, <2>4 DEF HubPoll
  <2> QED
    BY <1>2, <2>1, <2>5
<1> QED
  BY <1>1, <1>2

LEMMA HubPollMoves ==
    ASSUME impl = "hub", world \in HubWorld, NEW p \in Peer, Poll(p),
           NEW d \in Direction, Waiting(d) \in Seq(Valid), polled[d] \in Seq(Valid)
    PROVE  world' \in HubWorld /\ sent' = sent /\ Moves(d)
<1>1. impl' = "hub" /\ script' = script /\ sent' = sent
  BY DEF Poll
<1>2. /\ Waiting(d) = HubQueue(world.incoming[d[2]], d) /\ Dropped(d) = 0
      /\ Waiting(d)' = HubQueue(world'.incoming[d[2]], d) /\ Dropped(d)' = 0
  BY <1>1, HubWaits, HubWaitsNext
<1>3. \A e : From(p, e) = HubFrom(p, e)
  BY DEF From, HubFrom
<1>4. PICK result :
        /\ result = HubPoll(world, p) /\ world' = result.world
        /\ polled' = [c \in Direction |->
              IF result.polled # <<>> /\ c = <<HubFrom(p, Head(result.polled)), p>>
              THEN polled[c] \o result.polled ELSE polled[c]]
  BY <1>3 DEF Poll, Updated
<1>5. CASE result.polled = <<>> /\ result.world = world
  <2>1. world' = world /\ polled'[d] = polled[d]
    BY <1>4, <1>5
  <2> QED
    BY <1>1, <1>2, <2>1, SameStays
<1>6. CASE /\ world.incoming[p] # <<>> /\ result.polled = <<Head(world.incoming[p])>>
           /\ result.world = [world EXCEPT !.incoming[p] = Tail(world.incoming[p])]
  <2>1. PICK i \in Seq(Valid) : i = world.incoming[p] /\ i # <<>>
    BY <1>6 DEF HubWorld
  <2>2. PICK h \in Valid : h = Head(i)
    BY <2>1
  <2>3. PICK rest \in Seq(Valid) : rest = Tail(i)
    <3>1. Tail(i) \in Seq(Valid)
      BY <2>1
    <3> QED
      BY <3>1, Zenon
  <2>4. world' = [world EXCEPT !.incoming[p] = rest]
    BY <1>4, <1>6, <2>1, <2>3
  <2>5. world' \in HubWorld
    BY <2>4, Zenon DEF HubWorld
  <2>6. /\ world'.incoming[p] = rest
        /\ \A k \in Peer : k # p => world'.incoming[k] = world.incoming[k]
    BY <2>4 DEF HubWorld
  <2>7. result.polled = <<h>> /\ <<h>> # <<>> /\ Head(<<h>>) = h
    BY <1>6, <2>1, <2>2, AppendOne
  <2>8. /\ HubFrom(d[2], h) = d[1] =>
             /\ HubQueue(i, d) # <<>> /\ Head(HubQueue(i, d)) = h
             /\ Tail(HubQueue(i, d)) = HubQueue(rest, d)
        /\ HubFrom(d[2], h) # d[1] => HubQueue(rest, d) = HubQueue(i, d)
    BY <2>1, <2>2, <2>3, HubHead
  <2>9. CASE d = <<HubFrom(p, h), p>>
    <3>1. d[1] = HubFrom(p, h) /\ d[2] = p
      BY <2>9
    <3>2. PICK v \in Seq(Valid) : v = HubQueue(i, d)
      BY HubTyped
    <3>3. /\ Waiting(d) = v /\ Waiting(d)' = Tail(v) /\ Dropped(d)' = Dropped(d)
          /\ v # <<>> /\ Head(v) = h
      BY <1>2, <2>1, <2>6, <2>8, <3>1, <3>2
    <3>4. polled'[d] = Append(polled[d], h)
      <4>1. PICK s \in Seq(Valid) : s = polled[d]
        OBVIOUS
      <4>2. s \o <<h>> = Append(s, h)
        BY AppendOne
      <4>3. polled'[d] = s \o <<h>>
        BY <1>4, <2>7, <2>9, <4>1, Zenon
      <4> QED
        BY <4>1, <4>2, <4>3
    <3>5. CutOf(Waiting(d), v)
      BY <3>3, CutOfItself
    <3>6. Gives(d)
      BY <1>1, <3>3, <3>4, <3>5, Zenon DEF Gives
    <3> QED
      BY <1>1, <2>5, <3>6 DEF Moves
  <2>10. CASE d # <<HubFrom(p, h), p>>
    <3>1. polled'[d] = polled[d]
      BY <1>4, <2>7, <2>10
    <3>2. d[2] \in Peer
      BY DEF Direction, Peer
    <3>3. HubQueue(world'.incoming[d[2]], d) = HubQueue(world.incoming[d[2]], d)
      <4>1. CASE d[2] # p
        BY <2>6, <3>2, <4>1
      <4>2. CASE d[2] = p
        <5>1. d[1] # HubFrom(d[2], h)
          BY <2>10, <4>2 DEF Direction
        <5> QED
          BY <2>1, <2>6, <2>8, <4>2, <5>1
      <4> QED
        BY <4>1, <4>2
    <3>4. Moves(d)
      BY <1>1, <1>2, <3>1, <3>3, SameStays
    <3> QED
      BY <1>1, <2>5, <3>4
  <2> QED
    BY <2>9, <2>10
<1>7. result = HubPoll(world, p)
  BY <1>4
<1> QED
  BY <1>1, <1>5, <1>6, <1>7, HubPolls, Zenon

LEMMA HubQuiet ==
    ASSUME NEW w \in HubWorld, NEW p \in Peer, NEW v, v \in {w, HubConnect(w, p), HubClose(w, p)}
    PROVE  v \in HubWorld /\ v.incoming = w.incoming
<1>1. v = w \/ v = [w EXCEPT !.state[p] = "Connected"] \/ v = [w EXCEPT !.state[p] = "Disconnected"]
  BY DEF HubConnect, HubClose
<1> QED
  BY <1>1, Zenon DEF HubWorld

(* Every step of the hub moves each direction by at most one envelope.      *)
LEMMA HubMoves ==
    ASSUME impl = "hub", Common, world \in HubWorld, Next
    PROVE  /\ world' \in HubWorld /\ sent' \in [Direction -> Seq(Valid)]
           /\ \A d \in Direction : Moves(d)
<1>1. Peers = Peer
  BY DEF Peers
<1>2. \A d \in Direction : Waiting(d) \in Seq(Valid) /\ polled[d] \in Seq(Valid)
  BY DEF Common, Arrived
<1>3. sent \in [Direction -> Seq(Valid)] /\ script \in Script
  BY DEF Common
<1>4. PICK p \in Peer :
        \/ Connect(p) \/ Update(p) \/ Close(p) \/ Poll(p) \/ FlushDelayed(p)
        \/ \E q \in Peer : <<p, q>> \in Direction /\ Send(p, q)
        \/ \E c \in Conditions : SetNetworkConditions(p, c)
  BY <1>1, Zenon DEF Next
<1>5. <<Server, 1>> \in Direction
  BY DEF Direction, Client
<1>6. CASE Poll(p)
  BY <1>2, <1>3, <1>5, <1>6, HubPollMoves
<1>7. CASE \E q \in Peer : <<p, q>> \in Direction /\ Send(p, q)
  <2>1. PICK q \in Peer : <<p, q>> \in Direction /\ Send(p, q)
    BY <1>7
  <2> QED
    BY <1>2, <1>3, <1>5, <2>1, HubSendMoves
<1>8. CASE Connect(p) \/ Close(p) \/ Update(p)
  <2>1. sent' = sent /\ polled' = polled /\ impl' = impl
    BY <1>8 DEF Connect, Close, Update
  <2>2. world' \in {world, HubConnect(world, p), HubClose(world, p)}
    BY <1>8 DEF Connect, Close, Update
  <2>3. world' \in HubWorld /\ world'.incoming = world.incoming
    BY <2>2, HubQuiet
  <2> QED
    BY <1>2, <1>3, <2>1, <2>3, HubQuietMoves
<1>9. ~FlushDelayed(p) /\ ~\E c \in Conditions : SetNetworkConditions(p, c)
  BY DEF FlushDelayed, SetNetworkConditions
<1> QED
  BY <1>4, <1>6, <1>7, <1>8, <1>9, Zenon

-----------------------------------------------------------------------------
(* The data channel.                                                        *)

(* The data channel: the signals an end sends, as they are and as bytes, and *)
(* the frames of the envelopes an end may send.                             *)
SignalFrom(p) == {m \in Signal : m.sender = p /\ m.target \in {Nobody, Other(p)}}
WireFrom(p) == {SignalBytes[m] : m \in SignalFrom(p)}
GoodFrame == {Frame[e] : e \in Envelopes \cap Valid}

RtcRecord ==
    [phase : [Pair -> Phase], remote : [Pair -> Pair \cup {Nobody}],
     out : [Pair -> Seq(Signal)], ready : [Pair -> BOOLEAN], notified : [Pair -> BOOLEAN],
     registered : SUBSET Pair, hub : [Pair -> Seq(Range(SignalBytes))],
     channel : [Pair -> Seq(GoodFrame)], incoming : [Pair -> Seq(Valid)]]

(* The two ends talk only to each other.                                    *)
RtcEnd(w, p) ==
    /\ w.remote[p] \in {Nobody, Other(p)} /\ w.out[p] \in Seq(SignalFrom(p))
    /\ w.hub[p] \in Seq(WireFrom(Other(p)))
    /\ p \notin w.registered => w.hub[p] = <<>>
RtcWorld == {w \in RtcRecord : \A p \in Pair : RtcEnd(w, p)}

(* The signals of a queue are of some kinds.                                *)
OfKinds(queue, kinds) == \A i \in 1..Len(queue) : queue[i].kind \in kinds
WireOfKinds(queue, kinds) == \A i \in 1..Len(queue) : SignalOf[queue[i]].kind \in kinds
LastReady(queue) ==
    queue # <<>> /\ SignalOf[queue[Len(queue)]].kind = "DataChannelReady"

(* Before the server is connected: nobody is, no frame is on its way, and   *)
(* the client's offer is in its own queue or the server's.                  *)
NotYet(w) ==
    /\ \A p \in Pair :
          /\ w.phase[p] = IF p \in w.registered THEN "Signaling" ELSE "Disconnected"
          /\ w.channel[p] = <<>> /\ ~ w.ready[p] /\ ~ w.notified[p]
    /\ OfKinds(w.out[Server], {"Join"}) /\ WireOfKinds(w.hub[1], {"Join"})
    /\ OfKinds(w.out[1], {"Join", "Offer"}) /\ WireOfKinds(w.hub[Server], {"Join", "Offer"})
    /\ w.hub[Server] # <<>> => 1 \in w.registered /\ w.out[1] = <<>>

(* From then on: the client is connected too or has its answer to read.     *)
Answered(w) ==
    /\ w.registered = Pair /\ w.out[1] = <<>> /\ w.out[Server] = <<>> /\ w.hub[Server] = <<>>
    /\ \/ w.phase[1] = "Connected" /\ w.hub[1] = <<>>
       \/ w.phase[1] = "Signaling" /\ LastReady(w.hub[1])

Handshake(w) ==
    (w.phase[Server] # "Connected" /\ NotYet(w)) \/ (w.phase[Server] = "Connected" /\ Answered(w))

-----------------------------------------------------------------------------
(* A sequence of some set is one of any larger.                             *)
LEMMA WiderSeq ==
    ASSUME NEW A, NEW B, A \subseteq B, NEW s \in Seq(A)
    PROVE  s \in Seq(B)
  OBVIOUS

(* A signal of an end and its bytes.                                        *)
LEMMA SignalWire ==
    ASSUME NEW p \in Pair, NEW m \in SignalFrom(p)
    PROVE  /\ SignalBytes[m] \in WireFrom(p) /\ SignalOf[SignalBytes[m]] = m
           /\ m # Refused /\ ValidateRtcSignalingMessage(m)
           /\ m.sender = p /\ m.target \in {Nobody, Other(p)}
<1>1. m \in Signal /\ m.sender = p /\ m.target \in {Nobody, Other(p)}
  BY DEF SignalFrom
<1>2. SignalBytes[m] \in WireFrom(p)
  BY DEF WireFrom
<1> QED
  BY <1>1, <1>2, SignalArrives, SignalRoundTrip

LEMMA WireSignals ==
    ASSUME NEW p \in Pair, NEW b \in WireFrom(p)
    PROVE  /\ SignalOf[b] \in SignalFrom(p) /\ b \in Range(SignalBytes)
           /\ SignalOf[b].sender = p /\ SignalOf[b].target \in {Nobody, Other(p)}
           /\ SignalOf[b].kind \in {"Join", "Offer", "Answer", "DataChannelReady"}
<1>1. PICK m \in SignalFrom(p) : b = SignalBytes[m]
  BY DEF WireFrom
<1>2. m \in Signal /\ SignalOf[b] = m
  BY <1>1, SignalWire DEF SignalFrom
<1>3. b \in Range(SignalBytes)
  BY <1>1, <1>2, SignalArrives
<1> QED
  BY <1>2, <1>3 DEF SignalFrom, Signal

(* What the types say of one end.                                           *)
LEMMA RtcTyped ==
    ASSUME NEW w \in RtcWorld, NEW p \in Pair
    PROVE  /\ w.phase[p] \in Phase /\ w.remote[p] \in {Nobody, Other(p)}
           /\ w.out[p] \in Seq(SignalFrom(p)) /\ w.hub[p] \in Seq(WireFrom(Other(p)))
           /\ w.channel[p] \in Seq(GoodFrame) /\ w.incoming[p] \in Seq(Valid)
           /\ w.registered \subseteq Pair
           /\ p \notin w.registered => w.hub[p] = <<>>
<1>1. w \in RtcRecord /\ RtcEnd(w, p)
  BY DEF RtcWorld
<1> QED
  BY <1>1 DEF RtcRecord, RtcEnd

(* Changes of one part of the record, the others being as they were.        *)
SameFrames(w, v) ==
    v.channel = w.channel /\ v.incoming = w.incoming /\ v.registered = w.registered
SameFlags(w, v) == v.ready = w.ready /\ v.notified = w.notified

NewOut(w, v, p, o) ==
    /\ v \in RtcWorld /\ SameFrames(w, v) /\ SameFlags(w, v)
    /\ v.phase = w.phase /\ v.remote = w.remote /\ v.hub = w.hub
    /\ v.out[p] = o /\ \A q \in Pair : q # p => v.out[q] = w.out[q]

(* The changes of one part of the record at one end, each with what it      *)
(* leaves alone: outgoing signals, signals in the hub, phase, remote peer   *)
(* and flags.                                                               *)
LEMMA OutPut ==
    ASSUME NEW w \in RtcWorld, NEW p \in Pair, NEW o \in Seq(SignalFrom(p)),
           NEW v, v = [w EXCEPT !.out[p] = o]
    PROVE  NewOut(w, v, p, o)
<1>1. w \in RtcRecord /\ \A q \in Pair : RtcEnd(w, q)
  BY DEF RtcWorld
<1>2. o \in Seq(Signal)
  BY WiderSeq DEF SignalFrom
<1>3. v \in RtcRecord
  BY <1>1, <1>2, Zenon DEF RtcRecord
<1>4. /\ v.channel = w.channel /\ v.incoming = w.incoming /\ v.registered = w.registered
      /\ v.phase = w.phase /\ v.remote = w.remote /\ v.hub = w.hub
      /\ v.ready = w.ready /\ v.notified = w.notified
  BY <1>1 DEF RtcRecord
<1>5. v.out[p] = o /\ \A q \in Pair : q # p => v.out[q] = w.out[q]
  BY <1>1 DEF RtcRecord
<1>6. \A q \in Pair : RtcEnd(v, q)
  BY <1>1, <1>4, <1>5 DEF RtcEnd
<1> QED
  BY <1>3, <1>4, <1>5, <1>6, Zenon DEF RtcWorld, SameFrames, SameFlags, NewOut

NewHub(w, v, p, h) ==
    /\ v \in RtcWorld /\ SameFrames(w, v) /\ SameFlags(w, v)
    /\ v.phase = w.phase /\ v.remote = w.remote /\ v.out = w.out
    /\ v.hub[p] = h /\ \A q \in Pair : q # p => v.hub[q] = w.hub[q]

LEMMA HubPut ==
    ASSUME NEW w \in RtcWorld, NEW p \in Pair, NEW h \in Seq(WireFrom(Other(p))),
           p \in w.registered \/ h = <<>>, NEW v, v = [w EXCEPT !.hub[p] = h]
    PROVE  NewHub(w, v, p, h)
<1>1. w \in RtcRecord /\ \A q \in Pair : RtcEnd(w, q)
  BY DEF RtcWorld
<1>2. h \in Seq(Range(SignalBytes))
  <2>1. WireFrom(Other(p)) \subseteq Range(SignalBytes)
    BY Others, WireSignals
  <2> QED
    BY <2>1, WiderSeq
<1>3. v \in RtcRecord
  BY <1>1, <1>2, Zenon DEF RtcRecord
<1>4. /\ v.channel = w.channel /\ v.incoming = w.incoming /\ v.registered = w.registered
      /\ v.phase = w.phase /\ v.remote = w.remote /\ v.out = w.out
      /\ v.ready = w.ready /\ v.notified = w.notified
  BY <1>1 DEF RtcRecord
<1>5. v.hub[p] = h /\ \A q \in Pair : q # p => v.hub[q] = w.hub[q]
  BY <1>1 DEF RtcRecord
<1>6. \A q \in Pair : RtcEnd(v, q)
  BY <1>1, <1>4, <1>5 DEF RtcEnd
<1> QED
  BY <1>3, <1>4, <1>5, <1>6 DEF RtcWorld, SameFrames, SameFlags, NewHub

NewPhase(w, v, p, f) ==
    /\ v \in RtcWorld /\ SameFrames(w, v) /\ SameFlags(w, v)
    /\ v.out = w.out /\ v.remote = w.remote /\ v.hub = w.hub
    /\ v.phase[p] = f /\ \A q \in Pair : q # p => v.phase[q] = w.phase[q]

LEMMA PhasePut ==
    ASSUME NEW w \in RtcWorld, NEW p \in Pair, NEW f \in Phase, NEW v, v = [w EXCEPT !.phase[p] = f]
    PROVE  NewPhase(w, v, p, f)
<1>1. w \in RtcRecord /\ \A q \in Pair : RtcEnd(w, q)
  BY DEF RtcWorld
<1>2. v \in RtcRecord
  BY <1>1, Zenon DEF RtcRecord
<1>3. /\ v.channel = w.channel /\ v.incoming = w.incoming /\ v.registered = w.registered
      /\ v.out = w.out /\ v.remote = w.remote /\ v.hub = w.hub
      /\ v.ready = w.ready /\ v.notified = w.notified
  BY <1>1 DEF RtcRecord
<1>4. v.phase[p] = f /\ \A q \in Pair : q # p => v.phase[q] = w.phase[q]
  BY <1>1 DEF RtcRecord
<1>5. \A q \in Pair : RtcEnd(v, q)
  BY <1>1, <1>3 DEF RtcEnd
<1> QED
  BY <1>2, <1>3, <1>4, <1>5 DEF RtcWorld, SameFrames, SameFlags, NewPhase

NewRemote(w, v, p, r) ==
    /\ v \in RtcWorld /\ SameFrames(w, v) /\ SameFlags(w, v)
    /\ v.out = w.out /\ v.phase = w.phase /\ v.hub = w.hub
    /\ v.remote[p] = r /\ \A q \in Pair : q # p => v.remote[q] = w.remote[q]

LEMMA RemotePut ==
    ASSUME NEW w \in RtcWorld, NEW p \in Pair, NEW r \in {Nobody, Other(p)},
           NEW v, v = [w EXCEPT !.remote[p] = r]
    PROVE  NewRemote(w, v, p, r)
<1>1. w \in RtcRecord /\ \A q \in Pair : RtcEnd(w, q)
  BY DEF RtcWorld
<1>2. r \in Pair \cup {Nobody}
  BY Others
<1>3. v \in RtcRecord
  BY <1>1, <1>2, Zenon DEF RtcRecord
<1>4. /\ v.channel = w.channel /\ v.incoming = w.incoming /\ v.registered = w.registered
      /\ v.out = w.out /\ v.phase = w.phase /\ v.hub = w.hub
      /\ v.ready = w.ready /\ v.notified = w.notified
  BY <1>1 DEF RtcRecord
<1>5. v.remote[p] = r /\ \A q \in Pair : q # p => v.remote[q] = w.remote[q]
  BY <1>1 DEF RtcRecord
<1>6. \A q \in Pair : RtcEnd(v, q)
  BY <1>1, <1>4, <1>5 DEF RtcEnd
<1> QED
  BY <1>3, <1>4, <1>5, <1>6 DEF RtcWorld, SameFrames, SameFlags, NewRemote

NewFlag(w, v) ==
    /\ v \in RtcWorld /\ SameFrames(w, v)
    /\ v.out = w.out /\ v.phase = w.phase /\ v.hub = w.hub /\ v.remote = w.remote

LEMMA FlagPut ==
    ASSUME NEW w \in RtcWorld, NEW p \in Pair,
           NEW v, v = [w EXCEPT !.ready[p] = TRUE] \/ v = [w EXCEPT !.notified[p] = TRUE]
    PROVE  NewFlag(w, v)
<1>1. w \in RtcRecord /\ \A q \in Pair : RtcEnd(w, q)
  BY DEF RtcWorld
<1>2. v \in RtcRecord
  <2>1. PICK f : f = [w.ready EXCEPT ![p] = TRUE]
    BY Zenon
  <2>2. PICK g : g = [w.notified EXCEPT ![p] = TRUE]
    BY Zenon
  <2>3. f \in [Pair -> BOOLEAN]
    BY <1>1, <2>1, Zenon DEF RtcRecord
  <2>4. g \in [Pair -> BOOLEAN]
    BY <1>1, <2>2, Zenon DEF RtcRecord
  <2>5. v = [w EXCEPT !.ready = f] \/ v = [w EXCEPT !.notified = g]
    BY <2>1, <2>2
  <2> QED
    BY <1>1, <2>3, <2>4, <2>5, Zenon DEF RtcRecord
<1>3. /\ v.channel = w.channel /\ v.incoming = w.incoming /\ v.registered = w.registered
      /\ v.out = w.out /\ v.phase = w.phase /\ v.hub = w.hub /\ v.remote = w.remote
  BY <1>1 DEF RtcRecord
<1>4. \A q \in Pair : RtcEnd(v, q)
  BY <1>1, <1>3 DEF RtcEnd
<1> QED
  BY <1>2, <1>3, <1>4 DEF RtcWorld, SameFrames, NewFlag

(* Between w and v, end p has put signals into the hub and nothing else.    *)
Carried(w, v, p) ==
    /\ v \in RtcWorld /\ SameFrames(w, v) /\ SameFlags(w, v)
    /\ v.phase = w.phase /\ v.remote = w.remote /\ v.out = w.out /\ v.hub[p] = w.hub[p]

(* The other end's queue in the hub has got m, if both are registered.      *)
Handed(w, v, p, m) ==
    /\ v.hub[Other(p)] \in {w.hub[Other(p)], Append(w.hub[Other(p)], SignalBytes[m])}
    /\ p \in w.registered /\ Other(p) \in w.registered =>
         v.hub[Other(p)] = Append(w.hub[Other(p)], SignalBytes[m])

LEMMA CarriedItself ==
    ASSUME NEW w \in RtcWorld, NEW p
    PROVE  Carried(w, w, p)
  BY DEF Carried, SameFrames, SameFlags

LEMMA CarriedOn ==
    ASSUME NEW w, NEW u, NEW v, NEW p, Carried(w, u, p), Carried(u, v, p)
    PROVE  Carried(w, v, p)
  BY DEF Carried, SameFrames, SameFlags

(* Send of a signaling client puts a signal into the queue of the other end,*)
(* when that is registered, and changes nothing else.                       *)
LEMMA SignalSent ==
    ASSUME NEW w \in RtcWorld, NEW p \in Pair, NEW m \in SignalFrom(p),
           NEW v, v = SendSignal(w, m)
    PROVE  Carried(w, v, p) /\ Handed(w, v, p, m)
<1>1. PICK q \in Pair : q = Other(p) /\ q # p /\ Other(q) = p
  BY Others
<1>2. PICK b \in WireFrom(p) : b = SignalBytes[m] /\ SignalOf[b] = m
  BY SignalWire
<1>3. /\ m # Refused /\ ValidateRtcSignalingMessage(m)
      /\ m.sender = p /\ m.target \in {Nobody, q}
  BY <1>1, SignalWire
<1>4. v = Route(w, b)
  BY <1>2, <1>3 DEF SendSignal
<1> DEFINE receivers == IF m.target # Nobody THEN {m.target} ELSE w.registered \ {p}
<1>5. v = IF p \notin w.registered THEN w
          ELSE [w EXCEPT !.hub = [k \in Pair |->
                  IF k \in receivers \cap w.registered THEN Append(w.hub[k], b) ELSE w.hub[k]]]
  BY <1>2, <1>3, <1>4, Zenon DEF Route, RouteMessage
<1>6. w.registered \subseteq Pair
  BY RtcTyped
<1>7. \A k \in Pair : k \in receivers \cap w.registered <=> (k = q /\ q \in w.registered)
  BY <1>1, <1>3, <1>6, PairOf DEF Pair, Server, Nobody
<1> HIDE DEF receivers
<1>8. CASE p \notin w.registered
  <2>1. v = w
    BY <1>5, <1>8
  <2> QED
    BY <1>1, <1>8, <2>1, CarriedItself DEF Handed
<1>9. CASE p \in w.registered /\ q \notin w.registered
  <2>1. v = [w EXCEPT !.hub = [k \in Pair |-> w.hub[k]]]
    BY <1>5, <1>7, <1>9
  <2>2. w \in RtcRecord
    BY DEF RtcWorld
  <2>3. [k \in Pair |-> w.hub[k]] = w.hub
    BY <2>2 DEF RtcRecord
  <2>4. v = w
    BY <2>1, <2>2, <2>3 DEF RtcRecord
  <2> QED
    BY <1>1, <1>9, <2>4, CarriedItself DEF Handed
<1>10. CASE p \in w.registered /\ q \in w.registered
  <2>1. PICK h \in Seq(WireFrom(p)) : h = w.hub[q]
    BY <1>1, RtcTyped
  <2>2. PICK h2 \in Seq(WireFrom(Other(q))) : h2 = Append(h, b)
    <3>1. Append(h, b) \in Seq(WireFrom(p))
      OBVIOUS
    <3> QED
      BY <1>1, <3>1, Zenon
  <2>3. v = [w EXCEPT !.hub = [k \in Pair |-> IF k = q THEN h2 ELSE w.hub[k]]]
    BY <1>5, <1>7, <1>10, <2>1, <2>2, Zenon
  <2>4. w \in RtcRecord
    BY DEF RtcWorld
  <2>5. [k \in Pair |-> IF k = q THEN h2 ELSE w.hub[k]] = [w.hub EXCEPT ![q] = h2]
    BY <2>4, Zenon DEF RtcRecord
  <2>6. v = [w EXCEPT !.hub[q] = h2]
    BY <2>3, <2>5
  <2>7. /\ v \in RtcWorld /\ SameFrames(w, v) /\ SameFlags(w, v)
        /\ v.phase = w.phase /\ v.remote = w.remote /\ v.out = w.out
        /\ v.hub[q] = h2 /\ \A k \in Pair : k # q => v.hub[k] = w.hub[k]
    <3>1. q \in w.registered \/ h2 = <<>>
      BY <1>10
    <3>2. NewHub(w, v, q, h2)
      BY <2>6, <3>1, HubPut
    <3> QED
      BY <3>2 DEF NewHub
  <2> QED
    BY <1>1, <1>2, <2>1, <2>2, <2>7 DEF Carried, Handed
<1> QED
  BY <1>8, <1>9, <1>10

-----------------------------------------------------------------------------
SendStart(x) == x.w
SendPass(x, i, s) == SendSignal(s, x.signals[i])
Sending == INSTANCE Iteration WITH Start <- SendStart, Pass <- SendPass

(* The pair after the first i signals.                                      *)
AfterSends(w, signals, i) ==
    (CHOOSE g : Sending!IsLoop(g, [w |-> w, signals |-> signals], Len(signals)))[i]
SendsNext(w, signals, i) ==
    AfterSends(w, signals, i) = SendSignal(AfterSends(w, signals, i - 1), signals[i])

(* The loops of PumpKcpRtcSignaling, one pass at a time.                    *)
LEMMA SendsUnroll ==
    ASSUME NEW w, NEW signals, Len(signals) \in Nat
    PROVE  /\ SendSignals(w, signals) = AfterSends(w, signals, Len(signals))
           /\ AfterSends(w, signals, 0) = w
           /\ \A i \in 1..Len(signals) : SendsNext(w, signals, i)
<1> DEFINE x == [w |-> w, signals |-> signals]
<1> DEFINE f == CHOOSE g : Sending!IsLoop(g, x, Len(signals))
<1>1. SendSignals(w, signals) = f[Len(signals)]
  BY DEF SendSignals, Sending!IsLoop, SendStart, SendPass
<1>2. f[0] = SendStart(x) /\ \A i \in 1..Len(signals) : f[i] = SendPass(x, i, f[i - 1])
  <2> HIDE DEF x
  <2> QED
    BY Sending!LoopUnrolls
<1>3. \A i : f[i] = AfterSends(w, signals, i)
  BY DEF AfterSends
<1> HIDE DEF f
<1> QED
  BY <1>1, <1>2, <1>3 DEF SendStart, SendPass, SendsNext

(* The other end's queue after the first i signals.                         *)
QueuedFor(w, v, p, signals, i) ==
    /\ \A kinds : OfKinds(signals, kinds) /\ WireOfKinds(w.hub[Other(p)], kinds)
                    => WireOfKinds(v.hub[Other(p)], kinds)
    /\ i > 0 /\ p \in w.registered /\ Other(p) \in w.registered =>
         /\ v.hub[Other(p)] # <<>>
         /\ SignalOf[v.hub[Other(p)][Len(v.hub[Other(p)])]] = signals[i]

(* The last signal is m, and the kinds are the former ones and its.         *)
EndsWith(h, h2, m) ==
    /\ h2 # <<>> /\ SignalOf[h2[Len(h2)]] = m
    /\ \A kinds : m.kind \in kinds /\ WireOfKinds(h, kinds) => WireOfKinds(h2, kinds)

LEMMA WireAppended ==
    ASSUME NEW p \in Pair, NEW h \in Seq(WireFrom(p)), NEW m \in SignalFrom(p),
           NEW h2, h2 = Append(h, SignalBytes[m])
    PROVE  EndsWith(h, h2, m)
<1>1. PICK b \in WireFrom(p) : b = SignalBytes[m] /\ SignalOf[b] = m
  BY SignalWire
<1>2. PICK n \in Nat : n = Len(h)
  OBVIOUS
<1>3. /\ h2 # <<>> /\ Len(h2) = n + 1 /\ h2[n + 1] = b /\ \A i \in 1..n : h2[i] = h[i]
  BY <1>1, <1>2
<1>4. ASSUME NEW kinds, m.kind \in kinds, WireOfKinds(h, kinds), NEW i \in 1..(n + 1)
      PROVE  SignalOf[h2[i]].kind \in kinds
  <2>1. CASE i = n + 1
    BY <1>1, <1>3, <1>4, <2>1
  <2>2. CASE i # n + 1
    <3>1. i \in 1..n
      BY <2>2
    <3> QED
      BY <1>2, <1>3, <1>4, <3>1 DEF WireOfKinds
  <2> QED
    BY <2>1, <2>2, Zenon
<1> QED
  BY <1>1, <1>2, <1>3, <1>4 DEF WireOfKinds, EndsWith

(* After the first loop an end's signals are in the hub, for the other end  *)
(* if it is registered.                                                     *)
LEMMA SignalsSent ==
    ASSUME NEW w \in RtcWorld, NEW p \in Pair, NEW signals \in Seq(SignalFrom(p)),
           NEW v, v = SendSignals(w, signals)
    PROVE  /\ Carried(w, v, p) /\ QueuedFor(w, v, p, signals, Len(signals))
           /\ signals = <<>> => v = w
<1> Len(signals) \in Nat
  OBVIOUS
<1> DEFINE T == {i \in 0..Len(signals) :
                   /\ Carried(w, AfterSends(w, signals, i), p)
                   /\ QueuedFor(w, AfterSends(w, signals, i), p, signals, i)}
<1>1. 0 \in T
  <2>1. AfterSends(w, signals, 0) = w
    BY SendsUnroll
  <2>2. Carried(w, w, p)
    BY CarriedItself
  <2>3. QueuedFor(w, w, p, signals, 0)
    BY DEF QueuedFor
  <2> QED
    BY <2>1, <2>2, <2>3
<1>2. ASSUME NEW i \in 1..Len(signals), i - 1 \in T PROVE i \in T
  <2>1. PICK u : u = AfterSends(w, signals, i - 1)
    OBVIOUS
  <2>2. PICK x : x = AfterSends(w, signals, i)
    OBVIOUS
  <2>3. Carried(w, u, p) /\ QueuedFor(w, u, p, signals, i - 1)
    BY <1>2, <2>1
  <2>4. PICK m \in SignalFrom(p) : m = signals[i]
    OBVIOUS
  <2>5. x = SendSignal(u, m)
    <3>1. SendsNext(w, signals, i)
      BY SendsUnroll
    <3> QED
      BY <2>1, <2>2, <2>4, <3>1 DEF SendsNext
  <2>6. u \in RtcWorld /\ u.registered = w.registered
    BY <2>3 DEF Carried, SameFrames
  <2>7. Carried(u, x, p) /\ Handed(u, x, p, m)
    BY <2>5, <2>6, SignalSent
  <2>8. Carried(w, x, p)
    BY <2>3, <2>7, CarriedOn
  <2>9. PICK h \in Seq(WireFrom(p)) : h = u.hub[Other(p)]
    <3>1. Other(p) \in Pair /\ Other(Other(p)) = p
      BY Others
    <3> QED
      BY <2>6, <3>1, RtcTyped
  <2>10. PICK h2 : h2 = Append(h, SignalBytes[m])
    BY Zenon
  <2>11. /\ h2 # <<>> /\ SignalOf[h2[Len(h2)]] = m
         /\ \A kinds : m.kind \in kinds /\ WireOfKinds(h, kinds) => WireOfKinds(h2, kinds)
    <3>1. EndsWith(h, h2, m)
      BY <2>10, WireAppended, Zenon
    <3> QED
      BY <3>1 DEF EndsWith
  <2>12. \A kinds : OfKinds(signals, kinds) => m.kind \in kinds
    BY <2>4 DEF OfKinds
  <2>13. /\ x.hub[Other(p)] \in {h, h2}
         /\ p \in w.registered /\ Other(p) \in w.registered => x.hub[Other(p)] = h2
    BY <2>6, <2>7, <2>9, <2>10 DEF Handed
  <2>14. \A kinds : OfKinds(signals, kinds) /\ WireOfKinds(w.hub[Other(p)], kinds)
                      => WireOfKinds(h, kinds)
    BY <2>3, <2>9 DEF QueuedFor
  <2>15. QueuedFor(w, x, p, signals, i)
    <3>1. \A kinds : OfKinds(signals, kinds) /\ WireOfKinds(w.hub[Other(p)], kinds)
                       => WireOfKinds(x.hub[Other(p)], kinds)
      BY <2>11, <2>12, <2>13, <2>14
    <3>2. p \in w.registered /\ Other(p) \in w.registered =>
            /\ x.hub[Other(p)] # <<>>
            /\ SignalOf[x.hub[Other(p)][Len(x.hub[Other(p)])]] = signals[i]
      BY <2>4, <2>11, <2>13
    <3> QED
      BY <3>1, <3>2 DEF QueuedFor
  <2> QED
    BY <2>2, <2>8, <2>15
<1> HIDE DEF T
<1>3. 0..Len(signals) \subseteq T
  BY <1>1, <1>2, InductionUpTo, Zenon
<1>4. Len(signals) \in T
  BY <1>3
<1>5. v = AfterSends(w, signals, Len(signals))
  BY SendsUnroll
<1>6. ASSUME signals = <<>> PROVE v = w
  <2>1. Len(signals) = 0
    BY <1>6
  <2> QED
    BY <1>5, <2>1, SendsUnroll
<1> QED
  BY <1>4, <1>5, <1>6 DEF T

TheSignal(p, kind, target) ==
    [kind |-> kind, sender |-> p, target |-> target, sequence |-> 7, sessionId |-> <<1>>,
     payload |-> IF kind = "DataChannelReady" THEN <<>> ELSE <<2, 3>>]

(* QueueSignal appends a signal of its own to an end's.                     *)
LEMMA SignalQueued ==
    ASSUME NEW w \in RtcWorld, NEW p \in Pair, NEW target \in {Nobody, Other(p)},
           NEW kind \in {"Join", "Offer", "Answer", "DataChannelReady"},
           NEW v, v = QueueSignal(w, p, kind, target)
    PROVE  /\ TheSignal(p, kind, target) \in SignalFrom(p) /\ TheSignal(p, kind, target).kind = kind
           /\ NewOut(w, v, p, Append(w.out[p], TheSignal(p, kind, target)))
           /\ v.out[p] \in Seq(SignalFrom(p))
<1>1. PICK m \in SignalFrom(p) : m = TheSignal(p, kind, target) /\ m.kind = kind
  <2>1. target \in Pair \cup {Nobody}
    BY Others
  <2>2. TheSignal(p, kind, target) \in Signal
    BY <2>1 DEF TheSignal, Signal
  <2>3. /\ TheSignal(p, kind, target).sender = p /\ TheSignal(p, kind, target).target = target
        /\ TheSignal(p, kind, target).kind = kind
    BY DEF TheSignal
  <2> QED
    BY <2>2, <2>3 DEF SignalFrom
<1>2. PICK o \in Seq(SignalFrom(p)) : o = w.out[p]
  BY RtcTyped
<1>3. PICK o2 \in Seq(SignalFrom(p)) : o2 = Append(o, m)
  <2>1. Append(o, m) \in Seq(SignalFrom(p))
    OBVIOUS
  <2> QED
    BY <2>1, Zenon
<1>4. w \in RtcRecord
  BY DEF RtcWorld
<1>5. v = [w EXCEPT !.out[p] = o2]
  <2>1. v = [w EXCEPT !.out[p] = Append(@, TheSignal(p, kind, target))]
    BY DEF QueueSignal, TheSignal
  <2>2. [w EXCEPT !.out[p] = Append(@, m)] = [w EXCEPT !.out[p] = o2]
    BY <1>2, <1>3, <1>4 DEF RtcRecord
  <2> QED
    BY <1>1, <2>1, <2>2
<1>6. NewOut(w, v, p, o2)
  BY <1>5, OutPut
<1>7. v.out[p] = o2
  BY <1>6 DEF NewOut
<1> QED
  BY <1>1, <1>2, <1>3, <1>6, <1>7

(* Between w and v, end p has taken note of signals and perhaps queued some. *)
Noted(w, v, p) ==
    /\ v \in RtcWorld /\ SameFrames(w, v) /\ SameFlags(w, v) /\ v.hub = w.hub
    /\ \A q \in Pair : q # p => v.phase[q] = w.phase[q] /\ v.out[q] = w.out[q]
                                 /\ v.remote[q] = w.remote[q]
    /\ p # Server => v.out = w.out

SameEnd(w, v, p) == v.phase[p] = w.phase[p] /\ v.out[p] = w.out[p]

(* What a signal makes of an end.                                           *)
Heard(w, v, p, m) ==
    /\ m.kind = "DataChannelReady" => v.phase[p] = "Connected"
    /\ m.kind = "Join" => SameEnd(w, v, p)
    /\ m.kind = "Offer" => SameEnd(w, v, p) \/ v.phase[p] = "DataChannelConnecting"

LEMMA NotedItself ==
    ASSUME NEW w \in RtcWorld, NEW p
    PROVE  Noted(w, w, p)
  BY DEF Noted, SameFrames, SameFlags

LEMMA NotedOn ==
    ASSUME NEW w, NEW u, NEW v, NEW p, Noted(w, u, p), Noted(u, v, p)
    PROVE  Noted(w, v, p)
  BY DEF Noted, SameFrames, SameFlags

(* ReceiveSignalingMessage, by the kind of the signal.                      *)
LEMMA SignalHeard ==
    ASSUME NEW w \in RtcWorld, NEW p \in Pair, NEW m \in SignalFrom(Other(p)),
           NEW v, v = ReceiveSignalingMessage(w, p, m)
    PROVE  Noted(w, v, p) /\ Heard(w, v, p, m)
<1>1. PICK q \in Pair : q = Other(p) /\ q # p /\ Other(q) = p
  BY Others
<1>2. m.sender = q /\ m.target \in {Nobody, p}
  BY <1>1, SignalWire
<1>3. m.kind \in {"Join", "Offer", "Answer", "DataChannelReady"}
  BY DEF SignalFrom, Signal
<1>4. PICK known : known = [w EXCEPT !.remote[p] = m.sender]
  BY Zenon
<1>5. NewRemote(w, known, p, q)
  BY <1>1, <1>2, <1>4, RemotePut
<1>6. known \in RtcWorld /\ Noted(w, known, p) /\ SameEnd(w, known, p)
  BY <1>5 DEF NewRemote, Noted, SameEnd
<1>7. PICK connecting : connecting = [known EXCEPT !.phase[p] = "DataChannelConnecting"]
  BY Zenon
<1>8. NewPhase(known, connecting, p, "DataChannelConnecting")
  <2>1. "DataChannelConnecting" \in Phase
    BY DEF Phase
  <2> QED
    BY <1>6, <1>7, <2>1, PhasePut
<1>9. /\ connecting \in RtcWorld /\ Noted(known, connecting, p)
      /\ connecting.phase[p] = "DataChannelConnecting"
  BY <1>8 DEF NewPhase, Noted
<1>10. v = CASE m.kind = "Offer" /\ p = Server -> QueueSignal(connecting, p, "Answer", m.sender)
             [] m.kind = "Answer" /\ p # Server -> connecting
             [] m.kind = "DataChannelReady" -> TransitionToConnected(known, p)
             [] OTHER -> known
  BY <1>1, <1>2, <1>4, <1>7 DEF ReceiveSignalingMessage
<1>11. CASE m.kind = "Offer" /\ p = Server
  <2>1. v = QueueSignal(connecting, p, "Answer", q)
    BY <1>2, <1>10, <1>11
  <2>2. PICK o : NewOut(connecting, v, p, o)
    BY <1>1, <1>9, <2>1, SignalQueued
  <2>3. Noted(connecting, v, p) /\ v.phase[p] = "DataChannelConnecting"
    BY <1>9, <1>11, <2>2 DEF NewOut, Noted
  <2>4. Noted(w, v, p)
    BY <1>6, <1>9, <2>3, NotedOn
  <2> QED
    BY <1>11, <2>3, <2>4 DEF Heard
<1>12. CASE m.kind = "Answer" /\ p # Server
  <2>1. v = connecting
    BY <1>10, <1>12
  <2>2. Noted(w, v, p)
    BY <1>6, <1>9, <2>1, NotedOn
  <2> QED
    BY <1>12, <2>2 DEF Heard
<1>13. CASE m.kind = "DataChannelReady"
  <2>1. v = [known EXCEPT !.phase[p] = "Connected"]
    BY <1>10, <1>13 DEF TransitionToConnected
  <2>2. "Connected" \in Phase
    BY DEF Phase
  <2>3. NewPhase(known, v, p, "Connected")
    BY <1>6, <2>1, <2>2, PhasePut
  <2>4. Noted(known, v, p) /\ v.phase[p] = "Connected"
    BY <2>3 DEF NewPhase, Noted
  <2>5. Noted(w, v, p)
    BY <1>6, <2>4, NotedOn
  <2> QED
    BY <1>13, <2>4, <2>5 DEF Heard
<1>14. CASE ~ (\/ m.kind = "Offer" /\ p = Server
               \/ m.kind = "Answer" /\ p # Server
               \/ m.kind = "DataChannelReady")
  <2>1. v = known
    BY <1>10, <1>14
  <2> QED
    BY <1>6, <1>14, <2>1 DEF Heard
<1> QED
  BY <1>11, <1>12, <1>13, <1>14

-----------------------------------------------------------------------------
ReceiveStart(x) == x.w
ReceivePass(x, i, s) == ReceiveSignalingMessage(s, x.p, SignalOf[x.queue[i]])
Receiving == INSTANCE Iteration WITH Start <- ReceiveStart, Pass <- ReceivePass

(* The pair after end p received the first i signals of a queue.            *)
AfterReceives(w, p, queue, i) ==
    (CHOOSE g : Receiving!IsLoop(g, [w |-> w, p |-> p, queue |-> queue], Len(queue)))[i]
ReceivesNext(w, p, queue, i) ==
    AfterReceives(w, p, queue, i)
      = ReceiveSignalingMessage(AfterReceives(w, p, queue, i - 1), p, SignalOf[queue[i]])

LEMMA ReceivesUnroll ==
    ASSUME NEW w, NEW p, NEW queue, Len(queue) \in Nat
    PROVE  /\ ReceiveSignals(w, p, queue) = AfterReceives(w, p, queue, Len(queue))
           /\ AfterReceives(w, p, queue, 0) = w
           /\ \A i \in 1..Len(queue) : ReceivesNext(w, p, queue, i)
<1> DEFINE x == [w |-> w, p |-> p, queue |-> queue]
<1> DEFINE f == CHOOSE g : Receiving!IsLoop(g, x, Len(queue))
<1>1. ReceiveSignals(w, p, queue) = f[Len(queue)]
  BY DEF ReceiveSignals, Receiving!IsLoop, ReceiveStart, ReceivePass
<1>2. f[0] = ReceiveStart(x) /\ \A i \in 1..Len(queue) : f[i] = ReceivePass(x, i, f[i - 1])
  <2> HIDE DEF x
  <2> QED
    BY Receiving!LoopUnrolls
<1>3. \A i : f[i] = AfterReceives(w, p, queue, i)
  BY DEF AfterReceives
<1> HIDE DEF f
<1> QED
  BY <1>1, <1>2, <1>3 DEF ReceiveStart, ReceivePass, ReceivesNext

(* What the queue has made of end p.                                        *)
HeardAll(w, v, p, queue) ==
    /\ WireOfKinds(queue, {"Join"}) => SameEnd(w, v, p)
    /\ WireOfKinds(queue, {"Join", "Offer"}) =>
         SameEnd(w, v, p) \/ v.phase[p] = "DataChannelConnecting"

(* After the second loop an end has received all its signals; when the last *)
(* was a DataChannelReady it is connected.                                  *)
LEMMA SignalsHeard ==
    ASSUME NEW w \in RtcWorld, NEW p \in Pair, NEW queue \in Seq(WireFrom(Other(p))),
           NEW v, v = ReceiveSignals(w, p, queue)
    PROVE  /\ Noted(w, v, p) /\ HeardAll(w, v, p, queue)
           /\ queue = <<>> => v = w
           /\ LastReady(queue) => v.phase[p] = "Connected"
<1> Len(queue) \in Nat
  OBVIOUS
<1> DEFINE T == {i \in 0..Len(queue) :
                   /\ Noted(w, AfterReceives(w, p, queue, i), p)
                   /\ HeardAll(w, AfterReceives(w, p, queue, i), p, queue)
                   /\ i > 0 /\ SignalOf[queue[i]].kind = "DataChannelReady" =>
                        AfterReceives(w, p, queue, i).phase[p] = "Connected"}
<1>1. 0 \in T
  <2>1. AfterReceives(w, p, queue, 0) = w
    BY ReceivesUnroll
  <2>2. Noted(w, w, p) /\ HeardAll(w, w, p, queue)
    BY NotedItself DEF HeardAll, SameEnd
  <2> QED
    BY <2>1, <2>2
<1>2. ASSUME NEW i \in 1..Len(queue), i - 1 \in T PROVE i \in T
  <2>1. PICK u : u = AfterReceives(w, p, queue, i - 1)
    OBVIOUS
  <2>2. PICK x : x = AfterReceives(w, p, queue, i)
    OBVIOUS
  <2>3. Noted(w, u, p) /\ HeardAll(w, u, p, queue)
    BY <1>2, <2>1
  <2>4. PICK m \in SignalFrom(Other(p)) : m = SignalOf[queue[i]]
    <3>1. queue[i] \in WireFrom(Other(p)) /\ Other(p) \in Pair
      BY Others
    <3> QED
      BY <3>1, WireSignals
  <2>5. x = ReceiveSignalingMessage(u, p, m)
    <3>1. ReceivesNext(w, p, queue, i)
      BY ReceivesUnroll
    <3> QED
      BY <2>1, <2>2, <2>4, <3>1 DEF ReceivesNext
  <2>6. u \in RtcWorld
    BY <2>3 DEF Noted
  <2>7. Noted(u, x, p) /\ Heard(u, x, p, m)
    BY <2>5, <2>6, SignalHeard
  <2>8. Noted(w, x, p)
    BY <2>3, <2>7, NotedOn
  <2>9. /\ WireOfKinds(queue, {"Join"}) => m.kind = "Join"
        /\ WireOfKinds(queue, {"Join", "Offer"}) => m.kind = "Join" \/ m.kind = "Offer"
    BY <2>4 DEF WireOfKinds
  <2>10. HeardAll(w, x, p, queue)
    BY <2>3, <2>7, <2>9 DEF HeardAll, Heard, SameEnd
  <2>11. SignalOf[queue[i]].kind = "DataChannelReady" => x.phase[p] = "Connected"
    BY <2>4, <2>7 DEF Heard
  <2> QED
    BY <2>2, <2>8, <2>10, <2>11
<1> HIDE DEF T
<1>3. 0..Len(queue) \subseteq T
  BY <1>1, <1>2, InductionUpTo, Zenon
<1>4. Len(queue) \in T
  BY <1>3
<1>5. v = AfterReceives(w, p, queue, Len(queue))
  BY ReceivesUnroll
<1>6. ASSUME queue = <<>> PROVE v = w
  <2>1. Len(queue) = 0
    BY <1>6
  <2> QED
    BY <1>5, <2>1, ReceivesUnroll
<1>7. LastReady(queue) => Len(queue) > 0
  BY DEF LastReady
<1> QED
  BY <1>4, <1>5, <1>6, <1>7 DEF T, LastReady

LEMMA OneChoice ==
    ASSUME NEW x, NEW S, S = {x}
    PROVE  (CHOOSE v \in S : TRUE) = x
  OBVIOUS

(* Update in its four calls.                                                *)
LEMMA UpdateCalls ==
    ASSUME NEW w, NEW p
    PROVE  \E w1, w2, w3 :
             /\ w1 = PumpKcpRtcSignaling(w, p) /\ w2 = NotifyReadyIfPossible(w1, p)
             /\ w3 = PumpKcpRtcSignaling(w2, p) /\ RtcUpdate(w, p) = PumpKcpRtcDataChannel(w3, p)
<1>1. PICK w1 : w1 = PumpKcpRtcSignaling(w, p)
  OBVIOUS
<1>2. PICK w2 : w2 = NotifyReadyIfPossible(w1, p)
  OBVIOUS
<1>3. PICK w3 : w3 = PumpKcpRtcSignaling(w2, p)
  OBVIOUS
<1>4. PICK w4 : w4 = PumpKcpRtcDataChannel(w3, p)
  OBVIOUS
<1>5. Then(w, p, PumpKcpRtcSignaling) = w1
  <2>1. {PumpKcpRtcSignaling(u, p) : u \in {w}} = {w1}
    BY <1>1
  <2> QED
    BY <2>1, OneChoice DEF Then
<1>6. Then(w1, p, NotifyReadyIfPossible) = w2
  <2>1. {NotifyReadyIfPossible(u, p) : u \in {w1}} = {w2}
    BY <1>2
  <2> QED
    BY <2>1, OneChoice DEF Then
<1>7. Then(w2, p, PumpKcpRtcSignaling) = w3
  <2>1. {PumpKcpRtcSignaling(u, p) : u \in {w2}} = {w3}
    BY <1>3
  <2> QED
    BY <2>1, OneChoice DEF Then
<1>8. Then(w3, p, PumpKcpRtcDataChannel) = w4
  <2>1. {PumpKcpRtcDataChannel(u, p) : u \in {w3}} = {w4}
    BY <1>4
  <2> QED
    BY <2>1, OneChoice DEF Then
<1>9. RtcUpdate(w, p) = w4
  BY <1>5, <1>6, <1>7, <1>8 DEF RtcUpdate
<1> QED
  BY <1>1, <1>2, <1>3, <1>4, <1>9

-----------------------------------------------------------------------------
(* A call of end p that leaves the frames and the other end's state alone.  *)
OwnCall(w, v, p) ==
    /\ v \in RtcWorld /\ SameFrames(w, v)
    /\ \A q \in Pair : q # p => v.phase[q] = w.phase[q] /\ v.out[q] = w.out[q]

LEMMA OwnCalls ==
    ASSUME NEW w, NEW u, NEW v, NEW p, OwnCall(w, u, p), OwnCall(u, v, p)
    PROVE  OwnCall(w, v, p)
  BY DEF OwnCall, SameFrames

(* What a pass of the signals does: for end p, and for the other's queue.   *)
PumpedSelf(w, v, p) ==
    /\ v.hub[p] = <<>> /\ (p # Server => v.out[p] = <<>>)
    /\ w.hub[p] = <<>> \/ WireOfKinds(w.hub[p], {"Join"}) =>
         v.phase[p] = w.phase[p] /\ v.out[p] = <<>>
    /\ WireOfKinds(w.hub[p], {"Join", "Offer"}) =>
         (v.phase[p] = w.phase[p] /\ v.out[p] = <<>>) \/ v.phase[p] = "DataChannelConnecting"
    /\ LastReady(w.hub[p]) => v.phase[p] = "Connected"

PumpedOther(w, v, p, q) ==
    /\ \A kinds : OfKinds(w.out[p], kinds) /\ WireOfKinds(w.hub[q], kinds)
                    => WireOfKinds(v.hub[q], kinds)
    /\ w.out[p] = <<>> => v.hub[q] = w.hub[q]
    /\ w.out[p] # <<>> /\ p \in w.registered /\ q \in w.registered =>
         /\ v.hub[q] # <<>>
         /\ SignalOf[v.hub[q][Len(v.hub[q])]] = w.out[p][Len(w.out[p])]

(* PumpKcpRtcSignaling: what it takes from the hub and what it leaves there.*)
LEMMA SignalsPumped ==
    ASSUME NEW w \in RtcWorld, NEW p \in Pair, NEW v, v = PumpKcpRtcSignaling(w, p)
    PROVE  /\ OwnCall(w, v, p) /\ SameFlags(w, v)
           /\ PumpedSelf(w, v, p) /\ PumpedOther(w, v, p, Other(p))
<1>1. PICK q \in Pair : q = Other(p) /\ q # p /\ Other(q) = p
  BY Others
<1>2. PICK signals \in Seq(SignalFrom(p)) : signals = w.out[p]
  BY RtcTyped
<1>3. PICK flushed : flushed = [w EXCEPT !.out[p] = <<>>]
  BY Zenon
<1>4. NewOut(w, flushed, p, <<>>)
  <2>1. PICK none \in Seq(SignalFrom(p)) : none = <<>>
    BY EmptySequence, Zenon
  <2> QED
    BY <1>3, <2>1, OutPut, Zenon
<1>5. PICK routed : routed = SendSignals(flushed, signals)
  OBVIOUS
<1>6. /\ Carried(flushed, routed, p) /\ QueuedFor(flushed, routed, p, signals, Len(signals))
      /\ signals = <<>> => routed = flushed
  <2>1. flushed \in RtcWorld
    BY <1>4 DEF NewOut
  <2> QED
    BY <1>5, <2>1, SignalsSent
<1>7. PICK queue \in Seq(WireFrom(Other(p))) : queue = w.hub[p]
  BY RtcTyped
<1>8. routed.hub[p] = queue
  BY <1>4, <1>6, <1>7 DEF NewOut, Carried
<1>9. PICK taken : taken = [routed EXCEPT !.hub[p] = <<>>]
  BY Zenon
<1>10. NewHub(routed, taken, p, <<>>)
  <2>1. PICK none \in Seq(WireFrom(Other(p))) : none = <<>>
    BY EmptySequence, Zenon
  <2>2. routed \in RtcWorld
    BY <1>6 DEF Carried
  <2> QED
    BY <1>9, <2>1, <2>2, HubPut, Zenon
<1>11. v = ReceiveSignals(taken, p, queue)
  BY <1>2, <1>3, <1>5, <1>8, <1>9 DEF PumpKcpRtcSignaling
<1>12. /\ Noted(taken, v, p) /\ HeardAll(taken, v, p, queue)
       /\ queue = <<>> => v = taken
       /\ LastReady(queue) => v.phase[p] = "Connected"
  <2>1. taken \in RtcWorld
    BY <1>10 DEF NewHub
  <2> QED
    BY <1>11, <2>1, SignalsHeard
<1>13. OwnCall(w, v, p) /\ SameFlags(w, v)
  <2>1. SameFrames(w, v) /\ SameFlags(w, v) /\ v \in RtcWorld
    BY <1>4, <1>6, <1>10, <1>12 DEF NewOut, Carried, NewHub, Noted, SameFrames, SameFlags
  <2>2. \A k \in Pair : k # p => v.phase[k] = w.phase[k] /\ v.out[k] = w.out[k]
    BY <1>4, <1>6, <1>10, <1>12 DEF NewOut, Carried, NewHub, Noted
  <2> QED
    BY <2>1, <2>2 DEF OwnCall
<1>14. taken.phase[p] = w.phase[p] /\ taken.out[p] = <<>> /\ taken.hub[p] = <<>>
  BY <1>4, <1>6, <1>10 DEF NewOut, Carried, NewHub
<1>15. PumpedSelf(w, v, p)
  <2>1. v.hub[p] = <<>> /\ (p # Server => v.out[p] = <<>>)
    BY <1>12, <1>14 DEF Noted
  <2>2. queue = <<>> \/ WireOfKinds(queue, {"Join"}) => v.phase[p] = w.phase[p] /\ v.out[p] = <<>>
    BY <1>12, <1>14 DEF HeardAll, SameEnd
  <2>3. WireOfKinds(queue, {"Join", "Offer"}) =>
          (v.phase[p] = w.phase[p] /\ v.out[p] = <<>>) \/ v.phase[p] = "DataChannelConnecting"
    BY <1>12, <1>14 DEF HeardAll, SameEnd
  <2> QED
    BY <1>7, <1>12, <2>1, <2>2, <2>3 DEF PumpedSelf
<1>16. v.hub[q] = routed.hub[q] /\ flushed.hub[q] = w.hub[q] /\ flushed.registered = w.registered
  BY <1>1, <1>4, <1>10, <1>12 DEF NewOut, NewHub, Noted, SameFrames
<1>17. PumpedOther(w, v, p, q)
  <2>1. \A kinds : OfKinds(signals, kinds) /\ WireOfKinds(w.hub[q], kinds)
                     => WireOfKinds(v.hub[q], kinds)
    BY <1>1, <1>6, <1>16 DEF QueuedFor
  <2>2. signals = <<>> => v.hub[q] = w.hub[q]
    BY <1>6, <1>16
  <2>3. signals # <<>> /\ p \in w.registered /\ q \in w.registered =>
          /\ v.hub[q] # <<>>
          /\ SignalOf[v.hub[q][Len(v.hub[q])]] = signals[Len(signals)]
    <3>1. signals # <<>> => Len(signals) > 0
      OBVIOUS
    <3> QED
      BY <1>1, <1>6, <1>16, <3>1 DEF QueuedFor
  <2> QED
    BY <1>2, <2>1, <2>2, <2>3 DEF PumpedOther
<1> QED
  BY <1>1, <1>13, <1>15, <1>17

-----------------------------------------------------------------------------
(* What NotifyReadyIfPossible does.                                         *)
TellsReady(w, v, p) ==
    /\ w.phase[p] # "DataChannelConnecting" => v = w
    /\ w.phase[p] = "DataChannelConnecting" /\ ~ w.notified[p] /\ ~ w.ready[p] =>
         /\ v.phase[p] = "Connected" /\ v.out[p] # <<>>
         /\ v.out[p][Len(v.out[p])].kind = "DataChannelReady"

(* NotifyReadyIfPossible: an end that is connecting and has not said so is  *)
(* connected and tells the other; one that is not connecting does nothing.  *)
LEMMA ReadyTold ==
    ASSUME NEW w \in RtcWorld, NEW p \in Pair, NEW v, v = NotifyReadyIfPossible(w, p)
    PROVE  OwnCall(w, v, p) /\ v.hub = w.hub /\ TellsReady(w, v, p)
<1>1. CASE w.notified[p] \/ w.phase[p] # "DataChannelConnecting"
  <2>1. v = w
    BY <1>1 DEF NotifyReadyIfPossible
  <2> QED
    BY <1>1, <2>1 DEF OwnCall, SameFrames, TellsReady
<1>2. CASE ~ (w.notified[p] \/ w.phase[p] # "DataChannelConnecting")
  <2>1. PICK u : u = [w EXCEPT !.notified[p] = TRUE]
    BY Zenon
  <2>2. NewFlag(w, u)
    BY <2>1, FlagPut
  <2>3. u.ready = w.ready
    <3>1. w \in RtcRecord
      BY DEF RtcWorld
    <3> QED
      BY <2>1, <3>1 DEF RtcRecord
  <2>4. v = NotifyDataChannelReady(u, p)
    BY <1>2, <2>1 DEF NotifyReadyIfPossible
  <2>5. PICK told : told = IF u.ready[p] THEN u
                           ELSE QueueSignal([u EXCEPT !.ready[p] = TRUE], p,
                                            "DataChannelReady", u.remote[p])
    OBVIOUS
  <2>6. v = [told EXCEPT !.phase[p] = "Connected"]
    BY <2>4, <2>5 DEF NotifyDataChannelReady, TransitionToConnected
  <2>7. /\ OwnCall(w, told, p) /\ told.hub = w.hub
        /\ ~ w.ready[p] => /\ told.out[p] # <<>>
                           /\ told.out[p][Len(told.out[p])].kind = "DataChannelReady"
    <3>1. CASE w.ready[p]
      <4>1. told = u
        BY <2>3, <2>5, <3>1
      <4> QED
        BY <2>2, <3>1, <4>1 DEF NewFlag, OwnCall
    <3>2. CASE ~ w.ready[p]
      <4>1. PICK x : x = [u EXCEPT !.ready[p] = TRUE]
        BY Zenon
      <4>2. u \in RtcWorld
        BY <2>2 DEF NewFlag
      <4>3. NewFlag(u, x)
        BY <4>1, <4>2, FlagPut
      <4>4. x \in RtcWorld /\ u.remote[p] \in {Nobody, Other(p)}
        BY <4>2, <4>3, RtcTyped DEF NewFlag
      <4>5. told = QueueSignal(x, p, "DataChannelReady", u.remote[p])
        BY <2>3, <2>5, <3>2, <4>1
      <4>6. PICK m \in SignalFrom(p) : m.kind = "DataChannelReady" /\ NewOut(x, told, p, Append(x.out[p], m))
        BY <4>4, <4>5, SignalQueued
      <4>7. OwnCall(w, told, p) /\ told.hub = w.hub
        BY <2>2, <4>3, <4>6 DEF NewFlag, NewOut, OwnCall, SameFrames
      <4>8. PICK o \in Seq(SignalFrom(p)) : o = x.out[p]
        BY <4>4, RtcTyped
      <4>9. Append(o, m) # <<>> /\ Append(o, m)[Len(Append(o, m))] = m
        OBVIOUS
      <4>10. told.out[p] = Append(o, m)
        BY <4>6, <4>8 DEF NewOut
      <4> QED
        BY <4>6, <4>7, <4>9, <4>10
    <3> QED
      BY <3>1, <3>2
  <2>8. NewPhase(told, v, p, "Connected")
    <3>1. told \in RtcWorld /\ "Connected" \in Phase
      BY <2>7 DEF OwnCall, Phase
    <3> QED
      BY <2>6, <3>1, PhasePut
  <2>9. OwnCall(told, v, p)
    BY <2>8 DEF NewPhase, OwnCall
  <2>10. OwnCall(w, v, p)
    BY <2>7, <2>9, OwnCalls
  <2>11. TellsReady(w, v, p)
    BY <1>2, <2>7, <2>8 DEF NewPhase, TellsReady
  <2> QED
    BY <2>7, <2>8, <2>10, <2>11 DEF NewPhase
<1> QED
  BY <1>1, <1>2

LEMMA PairEnds ==
    /\ 1 \in Pair /\ Server \in Pair /\ 1 # Server /\ Other(1) = Server /\ Other(Server) = 1
    /\ \A p \in Pair : p = 1 \/ p = Server
  BY DEF Pair, Server, Other

LEMMA NoKinds ==
    ASSUME NEW kinds
    PROVE  OfKinds(<<>>, kinds) /\ WireOfKinds(<<>>, kinds)
  BY DEF OfKinds, WireOfKinds

(* Before the server is connected, a client that pumps sends its offer if it*)
(* has not, and meets no frame.                                             *)
LEMMA ClientPumpsEarly ==
    ASSUME NEW w \in RtcWorld, NotYet(w), 1 \in w.registered, NEW v, v = PumpKcpRtcSignaling(w, 1)
    PROVE  NotYet(v) /\ v.registered = w.registered /\ v \in RtcWorld
<1>1. /\ OwnCall(w, v, 1) /\ SameFlags(w, v)
      /\ PumpedSelf(w, v, 1) /\ PumpedOther(w, v, 1, Server)
  BY PairEnds, SignalsPumped
<1>2. /\ v.registered = w.registered /\ v.channel = w.channel /\ v \in RtcWorld
      /\ v.phase[Server] = w.phase[Server] /\ v.out[Server] = w.out[Server]
  BY <1>1, PairEnds DEF OwnCall, SameFrames
<1>3. v.phase[1] = w.phase[1] /\ v.out[1] = <<>> /\ v.hub[1] = <<>>
  BY <1>1 DEF NotYet, PumpedSelf
<1>4. WireOfKinds(v.hub[Server], {"Join", "Offer"})
  BY <1>1 DEF NotYet, PumpedOther
<1>5. \A p \in Pair :
          /\ v.phase[p] = IF p \in v.registered THEN "Signaling" ELSE "Disconnected"
          /\ v.channel[p] = <<>>
  BY <1>2, <1>3, PairEnds DEF NotYet
<1>6. \A p \in Pair : ~ v.ready[p] /\ ~ v.notified[p]
  BY <1>1 DEF NotYet, SameFlags
<1>7. OfKinds(v.out[Server], {"Join"}) /\ WireOfKinds(v.hub[1], {"Join"}) /\ OfKinds(v.out[1], {"Join", "Offer"})
  BY <1>2, <1>3, NoKinds DEF NotYet
<1> QED
  BY <1>2, <1>3, <1>4, <1>5, <1>6, <1>7 DEF NotYet

(* A server that pumps the client's offer is connecting, and the client     *)
(* still signaling; one that finds no offer is not.                         *)
LEMMA ServerPumpsEarly ==
    ASSUME NEW w \in RtcWorld, NotYet(w), NEW v, v = PumpKcpRtcSignaling(w, Server)
    PROVE  /\ v.hub[Server] = <<>> /\ v.registered = w.registered /\ v \in RtcWorld
           /\ v.phase[Server] # "DataChannelConnecting" => NotYet(v)
           /\ v.phase[Server] = "DataChannelConnecting" =>
                /\ 1 \in v.registered /\ v.phase[1] = "Signaling" /\ v.out[1] = <<>>
                /\ ~ v.ready[Server] /\ ~ v.notified[Server]
           /\ w.hub[Server] = <<>> => v.phase[Server] # "DataChannelConnecting"
<1>1. /\ OwnCall(w, v, Server) /\ SameFlags(w, v)
      /\ PumpedSelf(w, v, Server) /\ PumpedOther(w, v, Server, 1)
  BY PairEnds, SignalsPumped
<1>2. /\ v.registered = w.registered /\ v.channel = w.channel /\ v \in RtcWorld
      /\ v.phase[1] = w.phase[1] /\ v.out[1] = w.out[1]
  BY <1>1, PairEnds DEF OwnCall, SameFrames
<1>3. v.hub[Server] = <<>>
  BY <1>1 DEF PumpedSelf
<1>4. WireOfKinds(v.hub[1], {"Join"})
  BY <1>1 DEF NotYet, PumpedOther
<1>5. \A p \in Pair : ~ v.ready[p] /\ ~ v.notified[p]
  BY <1>1 DEF NotYet, SameFlags
<1>6. w.phase[Server] # "DataChannelConnecting"
  BY PairEnds DEF NotYet
<1>7. w.hub[Server] = <<>> => v.phase[Server] # "DataChannelConnecting"
  BY <1>1, <1>6 DEF PumpedSelf
<1>8. ASSUME v.phase[Server] # "DataChannelConnecting" PROVE NotYet(v)
  <2>1. v.phase[Server] = w.phase[Server] /\ v.out[Server] = <<>>
    BY <1>1, <1>8 DEF NotYet, PumpedSelf
  <2>2. \A p \in Pair :
          /\ v.phase[p] = IF p \in v.registered THEN "Signaling" ELSE "Disconnected"
          /\ v.channel[p] = <<>>
    BY <1>2, <2>1, PairEnds DEF NotYet
  <2>3. /\ OfKinds(v.out[Server], {"Join"}) /\ OfKinds(v.out[1], {"Join", "Offer"})
        /\ WireOfKinds(v.hub[Server], {"Join", "Offer"})
    BY <1>2, <1>3, <2>1, NoKinds DEF NotYet
  <2> QED
    BY <1>3, <1>4, <1>5, <2>2, <2>3 DEF NotYet
<1>9. ASSUME v.phase[Server] = "DataChannelConnecting"
      PROVE  1 \in v.registered /\ v.phase[1] = "Signaling" /\ v.out[1] = <<>>
  <2>1. 1 \in w.registered /\ w.out[1] = <<>>
    BY <1>7, <1>9 DEF NotYet
  <2> QED
    BY <1>2, <2>1, PairEnds DEF NotYet
<1> QED
  BY <1>2, <1>3, <1>5, <1>7, <1>8, <1>9, PairEnds

(* Once the server is connected, so is an end after it has pumped: for the  *)
(* client the server's DataChannelReady is in the hub before any frame is on*)
(* the channel.                                                             *)
LEMMA PumpsAnswered ==
    ASSUME NEW w \in RtcWorld, w.phase[Server] = "Connected", Answered(w), NEW p \in Pair,
           NEW v, v = PumpKcpRtcSignaling(w, p)
    PROVE  /\ v \in RtcWorld /\ v.phase[Server] = "Connected" /\ Answered(v)
           /\ v.phase[p] = "Connected"
<1>1. PICK q \in Pair : q = Other(p) /\ q # p
  BY Others
<1>2. /\ OwnCall(w, v, p) /\ PumpedSelf(w, v, p) /\ PumpedOther(w, v, p, q)
  BY <1>1, SignalsPumped
<1>3. /\ v \in RtcWorld /\ v.registered = w.registered
      /\ v.phase[q] = w.phase[q] /\ v.out[q] = w.out[q]
  BY <1>1, <1>2 DEF OwnCall, SameFrames
<1>4. w.out[p] = <<>> /\ v.hub[q] = w.hub[q] /\ v.hub[p] = <<>>
  BY <1>2, PairEnds DEF Answered, PumpedSelf, PumpedOther
<1>5. CASE p = 1
  <2>1. q = Server
    BY <1>1, <1>5, PairEnds
  <2>2. v.out[1] = <<>> /\ v.phase[1] = "Connected"
    BY <1>2, <1>5, PairEnds DEF Answered, PumpedSelf
  <2> QED
    BY <1>3, <1>4, <1>5, <2>1, <2>2 DEF Answered
<1>6. CASE p = Server
  <2>1. q = 1
    BY <1>1, <1>6, PairEnds
  <2>2. v.out[Server] = <<>> /\ v.phase[Server] = "Connected"
    BY <1>2, <1>6 DEF Answered, PumpedSelf
  <2> QED
    BY <1>3, <1>4, <1>6, <2>1, <2>2 DEF Answered
<1> QED
  BY <1>5, <1>6, PairEnds

(* Through the signaling part of an update.                                 *)
LEMMA HandshakeGoesOn ==
    ASSUME NEW w \in RtcWorld, Handshake(w), NEW p \in Pair, p \in w.registered,
           NEW w1, w1 = PumpKcpRtcSignaling(w, p), NEW w2, w2 = NotifyReadyIfPossible(w1, p),
           NEW w3, w3 = PumpKcpRtcSignaling(w2, p)
    PROVE  Handshake(w3) /\ (w3.phase[p] = "Connected" \/ NotYet(w3))
<1>1. CASE w.phase[Server] = "Connected" /\ Answered(w)
  <2>1. /\ w1 \in RtcWorld /\ w1.phase[Server] = "Connected" /\ Answered(w1)
        /\ w1.phase[p] = "Connected"
    BY <1>1, PumpsAnswered
  <2>2. w2 = w1
    BY <2>1, ReadyTold DEF TellsReady
  <2>3. /\ w3.phase[Server] = "Connected" /\ Answered(w3) /\ w3.phase[p] = "Connected"
    BY <2>1, <2>2, PumpsAnswered
  <2> QED
    BY <2>3 DEF Handshake
<1>2. CASE NotYet(w) /\ p = 1
  <2>1. NotYet(w1) /\ w1.registered = w.registered /\ w1 \in RtcWorld
    BY <1>2, ClientPumpsEarly
  <2>2. w2 = w1
    <3>1. w1.phase[1] # "DataChannelConnecting"
      BY <2>1, PairEnds DEF NotYet
    <3> QED
      BY <1>2, <2>1, <3>1, ReadyTold DEF TellsReady
  <2>3. NotYet(w3)
    BY <1>2, <2>1, <2>2, ClientPumpsEarly
  <2>4. w3.phase[Server] # "Connected"
    BY <2>3, PairEnds DEF NotYet
  <2> QED
    BY <2>3, <2>4 DEF Handshake
<1>3. CASE NotYet(w) /\ p = Server
  <2>1. /\ w1.hub[Server] = <<>> /\ w1.registered = w.registered /\ w1 \in RtcWorld
        /\ w1.phase[Server] # "DataChannelConnecting" => NotYet(w1)
        /\ w1.phase[Server] = "DataChannelConnecting" =>
             /\ 1 \in w1.registered /\ w1.phase[1] = "Signaling" /\ w1.out[1] = <<>>
             /\ ~ w1.ready[Server] /\ ~ w1.notified[Server]
    BY <1>3, ServerPumpsEarly
  <2>2. OwnCall(w1, w2, Server) /\ w2.hub = w1.hub /\ TellsReady(w1, w2, Server)
    BY <1>3, <2>1, PairEnds, ReadyTold
  <2>3. CASE w1.phase[Server] # "DataChannelConnecting"
    <3>1. w2 = w1
      BY <2>2, <2>3 DEF TellsReady
    <3>2. NotYet(w3)
      BY <1>3, <2>1, <2>3, <3>1, ServerPumpsEarly
    <3>3. w3.phase[Server] # "Connected"
      BY <3>2, PairEnds DEF NotYet
    <3> QED
      BY <3>2, <3>3 DEF Handshake
  <2>4. CASE w1.phase[Server] = "DataChannelConnecting"
    <3>1. /\ w2.phase[Server] = "Connected" /\ w2.out[Server] # <<>>
          /\ w2.out[Server][Len(w2.out[Server])].kind = "DataChannelReady"
      BY <2>1, <2>2, <2>4 DEF TellsReady
    <3>2. /\ w2 \in RtcWorld /\ w2.registered = w.registered /\ w2.hub[Server] = <<>>
          /\ w2.phase[1] = "Signaling" /\ w2.out[1] = <<>> /\ 1 \in w2.registered
      BY <2>1, <2>2, <2>4, PairEnds DEF OwnCall, SameFrames
    <3>3. Server \in w2.registered /\ w2.registered = Pair
      <4>1. w2.registered \subseteq Pair
        BY <3>2, PairEnds, RtcTyped
      <4> QED
        BY <1>3, <3>2, <4>1, PairEnds, Zenon
    <3>4. OwnCall(w2, w3, Server) /\ PumpedSelf(w2, w3, Server) /\ PumpedOther(w2, w3, Server, 1)
      BY <1>3, <3>2, PairEnds, SignalsPumped
    <3>5. w3.registered = Pair /\ w3.phase[1] = "Signaling" /\ w3.out[1] = <<>>
      BY <3>2, <3>3, <3>4, PairEnds DEF OwnCall, SameFrames
    <3>6. w3.phase[Server] = "Connected" /\ w3.out[Server] = <<>> /\ w3.hub[Server] = <<>>
      BY <3>1, <3>2, <3>4 DEF PumpedSelf
    <3>7. LastReady(w3.hub[1])
      BY <3>1, <3>2, <3>3, <3>4 DEF PumpedOther, LastReady
    <3> QED
      BY <1>3, <3>5, <3>6, <3>7 DEF Handshake, Answered
  <2> QED
    BY <2>3, <2>4
<1> QED
  BY <1>1, <1>2, <1>3, PairEnds DEF Handshake

(* What frames decode to, and what is on its way to an end.                 *)
Decoded(frames) == [i \in DOMAIN frames |-> FrameDecoded[frames[i]]]
RtcWaiting(w, p) == w.incoming[p] \o Decoded(w.channel[p])

(* A valid envelope fits a transport packet.                                *)
LEMMA EnvelopePackable ==
    ASSUME NEW e \in Envelopes
    PROVE  e \in Packable
<1>1. PICK s \in Script : \E d \in Direction : \E i \in Range(s[d]) : e = EnvelopeFor(d, i)
  BY DEF Envelopes
<1>2. PICK d \in Direction : \E i \in Range(s[d]) : e = EnvelopeFor(d, i)
  BY <1>1
<1>3. PICK i \in Range(s[d]) : e = EnvelopeFor(d, i)
  BY <1>2
<1>4. i \in Item
  <2>1. s[d] \in Seq(Item)
    BY ScriptAssumption
  <2> QED
    BY <2>1 DEF Range
<1> QED
  BY <1>3, <1>4, EnvelopeTyped

LEMMA GoodFrames ==
    ASSUME NEW f \in GoodFrame
    PROVE  FrameDecoded[f] \in Valid /\ FrameDecoded[f] # Refused
<1>1. PICK e \in Envelopes \cap Valid : f = Frame[e]
  BY DEF GoodFrame
<1>2. e \in Packable /\ ValidateEnvelope(e)
  BY EnvelopePackable DEF Valid
<1>3. FrameDecoded[f] = e
  BY <1>1, <1>2, FrameArrives
<1>4. e # Refused
  BY <1>2, SMTT(30) DEF Packable, Refused
<1> QED
  BY <1>3, <1>4

(* What the frames of a channel decode to.                                  *)
LEMMA DecodedTyped ==
    ASSUME NEW frames \in Seq(GoodFrame)
    PROVE  /\ Decoded(frames) \in Seq(Valid) /\ Len(Decoded(frames)) = Len(frames)
           /\ DOMAIN Decoded(frames) = 1..Len(frames)
           /\ \A i \in 1..Len(frames) : Decoded(frames)[i] = FrameDecoded[frames[i]]
<1>1. PICK n \in Nat : n = Len(frames) /\ DOMAIN frames = 1..n
  OBVIOUS
<1>2. \A i \in 1..n : FrameDecoded[frames[i]] \in Valid
  BY <1>1, GoodFrames
<1>3. Decoded(frames) = [i \in 1..n |-> FrameDecoded[frames[i]]]
  BY <1>1 DEF Decoded
<1>4. PICK s : s = Decoded(frames)
  OBVIOUS
<1>5. /\ s \in Seq(Valid) /\ Len(s) = n /\ DOMAIN s = 1..n
      /\ \A i \in 1..n : s[i] = FrameDecoded[frames[i]]
  BY <1>2, <1>3, <1>4
<1> QED
  BY <1>1, <1>4, <1>5

LEMMA DecodedEmpty ==
    Decoded(<<>>) = <<>>
<1>1. DOMAIN <<>> = 1..0
  OBVIOUS
<1> QED
  BY <1>1 DEF Decoded

LEMMA DecodedAppend ==
    ASSUME NEW frames \in Seq(GoodFrame), NEW f \in GoodFrame
    PROVE  Decoded(Append(frames, f)) = Append(Decoded(frames), FrameDecoded[f])
<1>1. PICK n \in Nat : n = Len(frames) /\ DOMAIN frames = 1..n
  OBVIOUS
<1>2. PICK more \in Seq(GoodFrame) :
        /\ more = Append(frames, f) /\ Len(more) = n + 1 /\ more[n + 1] = f
        /\ \A i \in 1..n : more[i] = frames[i]
  <2>1. /\ Append(frames, f) \in Seq(GoodFrame) /\ Len(Append(frames, f)) = n + 1
        /\ Append(frames, f)[n + 1] = f /\ \A i \in 1..n : Append(frames, f)[i] = frames[i]
    BY <1>1
  <2> QED
    BY <2>1, Zenon
<1>3. PICK e \in Valid : e = FrameDecoded[f]
  BY GoodFrames
<1>4. PICK s \in Seq(Valid) : /\ s = Decoded(frames) /\ Len(s) = n
                              /\ \A i \in 1..n : s[i] = FrameDecoded[frames[i]]
  BY <1>1, DecodedTyped
<1>5. PICK t \in Seq(Valid) : /\ t = Decoded(more) /\ Len(t) = n + 1
                              /\ \A i \in 1..(n + 1) : t[i] = FrameDecoded[more[i]]
  <2>1. /\ Decoded(more) \in Seq(Valid) /\ Len(Decoded(more)) = Len(more)
        /\ \A i \in 1..Len(more) : Decoded(more)[i] = FrameDecoded[more[i]]
    BY DecodedTyped, Zenon
  <2> QED
    BY <1>2, <2>1, Zenon
<1>6. PICK r \in Seq(Valid) : /\ r = Append(s, e) /\ Len(r) = n + 1 /\ r[n + 1] = e
                              /\ \A i \in 1..n : r[i] = s[i]
  <2>1. /\ Append(s, e) \in Seq(Valid) /\ Len(Append(s, e)) = n + 1
        /\ Append(s, e)[n + 1] = e /\ \A i \in 1..n : Append(s, e)[i] = s[i]
    BY <1>4
  <2> QED
    BY <2>1, Zenon
<1>7. \A i \in 1..(n + 1) : t[i] = r[i]
  <2> TAKE i \in 1..(n + 1)
  <2>1. CASE i = n + 1
    BY <1>2, <1>3, <1>5, <1>6, <2>1
  <2>2. CASE i # n + 1
    <3>1. i \in 1..n
      BY <2>2
    <3>2. t[i] = FrameDecoded[more[i]]
      BY <1>5
    <3>3. more[i] = frames[i] /\ s[i] = FrameDecoded[frames[i]] /\ r[i] = s[i]
      BY <1>2, <1>4, <1>6, <3>1
    <3> QED
      BY <3>2, <3>3
  <2> QED
    BY <2>1, <2>2
<1>8. t = r
  BY <1>5, <1>6, <1>7
<1> QED
  BY <1>2, <1>3, <1>4, <1>5, <1>6, <1>8

LEMMA RtcWaitingTyped ==
    ASSUME NEW w \in RtcWorld, NEW p \in Pair
    PROVE  RtcWaiting(w, p) \in Seq(Valid)
<1>1. w.incoming[p] \in Seq(Valid) /\ w.channel[p] \in Seq(GoodFrame)
  BY RtcTyped
<1>2. Decoded(w.channel[p]) \in Seq(Valid)
  BY <1>1, DecodedTyped
<1> QED
  BY <1>1, <1>2, ConcatInSeq DEF RtcWaiting

-----------------------------------------------------------------------------
SameSignaling(w, v) ==
    /\ v.registered = w.registered /\ v.phase = w.phase /\ v.remote = w.remote
    /\ v.out = w.out /\ v.hub = w.hub /\ SameFlags(w, v)

(* The frames and envelopes on their way to p are c and i now.              *)
NewFrames(w, v, p, c, i) ==
    /\ v \in RtcWorld /\ SameSignaling(w, v)
    /\ v.channel[p] = c /\ v.incoming[p] = i
    /\ \A q \in Pair : q # p => v.channel[q] = w.channel[q] /\ v.incoming[q] = w.incoming[q]

LEMMA FramesPut ==
    ASSUME NEW w \in RtcWorld, NEW p \in Pair, NEW c \in Seq(GoodFrame), NEW i \in Seq(Valid),
           NEW v, v = [w EXCEPT !.channel[p] = c, !.incoming[p] = i]
    PROVE  NewFrames(w, v, p, c, i)
<1>1. w \in RtcRecord /\ \A q \in Pair : RtcEnd(w, q)
  BY DEF RtcWorld
<1>2. v \in RtcRecord
  BY <1>1, Zenon DEF RtcRecord
<1>3. /\ v.registered = w.registered /\ v.phase = w.phase /\ v.remote = w.remote
      /\ v.out = w.out /\ v.hub = w.hub /\ v.ready = w.ready /\ v.notified = w.notified
  BY <1>1 DEF RtcRecord
<1>4. /\ v.channel[p] = c /\ v.incoming[p] = i
      /\ \A q \in Pair : q # p => v.channel[q] = w.channel[q] /\ v.incoming[q] = w.incoming[q]
  BY <1>1 DEF RtcRecord
<1>5. \A q \in Pair : RtcEnd(v, q)
  BY <1>1, <1>3 DEF RtcEnd
<1> QED
  BY <1>2, <1>3, <1>4, <1>5 DEF RtcWorld, NewFrames, SameSignaling, SameFlags

(* PumpKcpRtcDataChannel moves the frames of a channel, decoded, to the end *)
(* of the queue when the end is connected, and loses them when it is not.   *)
LEMMA FramesPumped ==
    ASSUME NEW w \in RtcWorld, NEW p \in Pair, NEW v, v = PumpKcpRtcDataChannel(w, p)
    PROVE  \E i \in Seq(Valid) :
             /\ NewFrames(w, v, p, <<>>, i)
             /\ i = IF w.phase[p] = "Connected" THEN RtcWaiting(w, p) ELSE w.incoming[p]
<1>1. PICK frames \in Seq(GoodFrame) : frames = w.channel[p]
  BY RtcTyped
<1>2. PICK before \in Seq(Valid) : before = w.incoming[p]
  BY RtcTyped
<1>3. PICK n \in Nat : n = Len(frames) /\ DOMAIN frames = 1..n
  OBVIOUS
<1>4. PICK envelopes : envelopes = [i \in DOMAIN frames |-> ReceiveFrame(w.phase[p], frames[i])]
  BY Zenon
<1>5. PICK places : places = {i \in DOMAIN envelopes : envelopes[i] # Refused}
  BY Zenon
<1>6. PICK kept : kept = ElementsAt(envelopes, places)
  OBVIOUS
<1>7. w \in RtcRecord
  BY DEF RtcWorld
<1>8. v = [w EXCEPT !.channel[p] = <<>>, !.incoming[p] = @ \o kept]
  BY <1>1, <1>4, <1>5, <1>6 DEF PumpKcpRtcDataChannel
<1>9. v = [w EXCEPT !.channel[p] = <<>>, !.incoming[p] = before \o kept]
  BY <1>2, <1>7, <1>8 DEF RtcRecord
<1>10. PICK none \in Seq(GoodFrame) : none = <<>>
  BY EmptySequence, Zenon
<1>11. CASE w.phase[p] = "Connected"
  <2>1. envelopes = Decoded(frames)
    BY <1>4, <1>11 DEF ReceiveFrame, Decoded
  <2>2. /\ envelopes \in Seq(Valid) /\ Len(envelopes) = n /\ DOMAIN envelopes = 1..n
        /\ \A i \in 1..n : envelopes[i] = FrameDecoded[frames[i]]
    BY <1>3, <2>1, DecodedTyped
  <2>3. \A i \in 1..n : envelopes[i] # Refused
    BY <1>3, <2>2, GoodFrames
  <2>4. AllPlaces(envelopes, places)
    BY <1>5, <2>2, <2>3 DEF AllPlaces
  <2>5. kept = envelopes
    BY <1>6, <2>2, <2>4, ElementsAll
  <2>6. PICK after \in Seq(Valid) : after = before \o kept /\ after = RtcWaiting(w, p)
    BY <1>1, <1>2, <2>1, <2>5, RtcWaitingTyped, Zenon DEF RtcWaiting
  <2>7. NewFrames(w, v, p, none, after)
    BY <1>9, <1>10, <2>6, FramesPut
  <2> QED
    BY <1>10, <1>11, <2>6, <2>7
<1>12. CASE w.phase[p] # "Connected"
  <2>1. envelopes = [i \in 1..n |-> Refused]
    BY <1>3, <1>4, <1>12 DEF ReceiveFrame
  <2>2. Len(envelopes) = n /\ \A i \in 1..n : envelopes[i] = Refused
    BY <2>1
  <2>3. NoPlaces(envelopes, places)
    BY <1>5, <2>2 DEF NoPlaces
  <2>4. kept = <<>>
    BY <1>6, <2>2, <2>3, ElementsNone
  <2>5. before \o kept = before
    BY <2>4, EmptyConcat
  <2>6. NewFrames(w, v, p, none, before)
    BY <1>9, <1>10, <2>5, FramesPut
  <2> QED
    BY <1>2, <1>10, <1>12, <2>6
<1> QED
  BY <1>11, <1>12

LEMMA CutEnds ==
    ASSUME NEW a \in Seq(Valid), NEW b \in Seq(Valid)
    PROVE  CutOf(a \o b, a) /\ CutOf(a \o b, b)
<1>1. PICK none \in Seq(Valid) : none = <<>>
  BY EmptySequence, Zenon
<1>2. PICK ab \in Seq(Valid) : ab = a \o b
  BY ConcatInSeq, Zenon
<1>3. ab \o none = ab /\ a \o none = a /\ none \o a = a /\ none \o b = b
  BY <1>1, EmptyConcat
<1>4. CutOf(a \o b, a)
  <2>1. a \o b = a \o b \o none /\ a = a \o none
    BY <1>2, <1>3
  <2> QED
    BY <2>1, Zenon DEF CutOf
<1>5. CutOf(a \o b, b)
  <2>1. a \o b = none \o a \o b /\ b = none \o b
    BY <1>3
  <2> QED
    BY <2>1, Zenon DEF CutOf
<1> QED
  BY <1>4, <1>5

(* What an update of p does to the frames, and that it loses none as long   *)
(* as the handshake goes as it should.                                      *)
UpdatedTo(w, v, p) ==
    /\ v \in RtcWorld /\ v.registered = w.registered /\ v.channel[p] = <<>>
    /\ \A q \in Pair : q # p => v.channel[q] = w.channel[q] /\ v.incoming[q] = w.incoming[q]
    /\ CutOf(RtcWaiting(w, p), v.incoming[p])

(* When no frame is on the channel, only the queue waits.                   *)
LEMMA NothingOnChannel ==
    ASSUME NEW w \in RtcWorld, NEW p \in Pair, w.channel[p] = <<>>
    PROVE  RtcWaiting(w, p) = w.incoming[p]
<1>1. PICK i \in Seq(Valid) : i = w.incoming[p]
  BY RtcTyped
<1>2. i \o <<>> = i
  BY EmptyConcat
<1> QED
  BY <1>1, <1>2, DecodedEmpty DEF RtcWaiting

(* Update may lose the frames on the channel and keeps the order of the     *)
(* rest; while the invariant of the handshake holds it loses none.          *)
LEMMA RtcUpdated ==
    ASSUME NEW w \in RtcWorld, NEW p \in Pair, NEW v, v = RtcUpdate(w, p)
    PROVE  /\ UpdatedTo(w, v, p)
           /\ Handshake(w) /\ p \in w.registered => Handshake(v) /\ v.incoming[p] = RtcWaiting(w, p)
<1>1. PICK w1, w2, w3 :
        /\ w1 = PumpKcpRtcSignaling(w, p) /\ w2 = NotifyReadyIfPossible(w1, p)
        /\ w3 = PumpKcpRtcSignaling(w2, p) /\ v = PumpKcpRtcDataChannel(w3, p)
  BY UpdateCalls
<1>2. OwnCall(w, w1, p)
  BY <1>1, SignalsPumped
<1>3. OwnCall(w1, w2, p)
  <2>1. w1 \in RtcWorld
    BY <1>2 DEF OwnCall
  <2> QED
    BY <1>1, <2>1, ReadyTold
<1>4. OwnCall(w2, w3, p)
  <2>1. w2 \in RtcWorld
    BY <1>3 DEF OwnCall
  <2> QED
    BY <1>1, <2>1, SignalsPumped
<1>5. OwnCall(w, w3, p)
  BY <1>2, <1>3, <1>4, OwnCalls
<1>6. /\ w3 \in RtcWorld /\ w3.channel = w.channel /\ w3.incoming = w.incoming
      /\ w3.registered = w.registered
  BY <1>5 DEF OwnCall, SameFrames
<1>7. RtcWaiting(w3, p) = RtcWaiting(w, p)
  BY <1>6 DEF RtcWaiting
<1>8. PICK i \in Seq(Valid) :
        /\ NewFrames(w3, v, p, <<>>, i)
        /\ i = IF w3.phase[p] = "Connected" THEN RtcWaiting(w3, p) ELSE w3.incoming[p]
  BY <1>1, <1>6, FramesPumped
<1>9. CutOf(RtcWaiting(w, p), i)
  <2>1. CASE w3.phase[p] = "Connected"
    BY <1>7, <1>8, <2>1, RtcWaitingTyped, CutOfItself
  <2>2. CASE w3.phase[p] # "Connected"
    <3>1. PICK a \in Seq(Valid), b \in Seq(Valid) : a = w.incoming[p] /\ b = Decoded(w.channel[p])
      BY RtcTyped, DecodedTyped
    <3>2. CutOf(a \o b, a)
      BY CutEnds
    <3> QED
      BY <1>6, <1>8, <2>2, <3>1, <3>2 DEF RtcWaiting
  <2> QED
    BY <2>1, <2>2
<1>10. UpdatedTo(w, v, p)
  BY <1>6, <1>8, <1>9 DEF NewFrames, SameSignaling, UpdatedTo
<1>11. ASSUME Handshake(w), p \in w.registered
       PROVE  Handshake(v) /\ v.incoming[p] = RtcWaiting(w, p)
  <2>1. Handshake(w3) /\ (w3.phase[p] = "Connected" \/ NotYet(w3))
    BY <1>1, <1>11, HandshakeGoesOn
  <2>2. SameSignaling(w3, v) /\ v.channel[p] = <<>> /\ v.incoming[p] = i
        /\ \A q \in Pair : q # p => v.channel[q] = w3.channel[q]
    BY <1>8 DEF NewFrames
  <2>3. NotYet(w3) => NotYet(v)
    <3>1. NotYet(w3) => \A q \in Pair : v.channel[q] = <<>>
      BY <2>2 DEF NotYet
    <3> QED
      BY <2>2, <3>1 DEF NotYet, SameSignaling, SameFlags
  <2>4. Answered(w3) => Answered(v)
    BY <2>2 DEF Answered, SameSignaling
  <2>5. Handshake(v)
    BY <2>1, <2>2, <2>3, <2>4 DEF Handshake, SameSignaling
  <2>6. CASE w3.phase[p] = "Connected"
    BY <1>7, <1>8, <2>2, <2>5, <2>6
  <2>7. CASE w3.phase[p] # "Connected"
    <3>1. w3.channel[p] = <<>>
      BY <2>1, <2>7 DEF NotYet
    <3>2. RtcWaiting(w3, p) = w3.incoming[p]
      BY <1>6, <3>1, NothingOnChannel
    <3> QED
      BY <1>7, <1>8, <2>2, <2>5, <2>7, <3>2
  <2> QED
    BY <2>6, <2>7
<1> QED
  BY <1>10, <1>11

-----------------------------------------------------------------------------
RtcWay(w, d) == IF d[1] \in Pair /\ d[2] \in Pair THEN RtcWaiting(w, d[2]) ELSE <<>>

(* Waiting and Dropped for the data channel, in this and in the next state. *)
LEMMA RtcWaits ==
    ASSUME impl = "rtc", NEW d \in Direction
    PROVE  Waiting(d) = RtcWay(world, d) /\ Dropped(d) = 0
<1>1. Peers = Pair
  BY DEF Peers, Pair
<1> QED
  BY <1>1 DEF Waiting, RtcWay, RtcWaiting, Decoded, Dropped

LEMMA RtcWaitsNext ==
    ASSUME impl' = "rtc", NEW d \in Direction
    PROVE  Waiting(d)' = RtcWay(world', d) /\ Dropped(d)' = 0
<1>1. Peers' = Pair
  BY DEF Peers, Pair
<1> QED
  BY <1>1 DEF Waiting, RtcWay, RtcWaiting, Decoded, Dropped

(* What is on its way to p may be cut, and is not before any client closed.  *)
Shrinks(w, v, p) ==
    /\ CutOf(RtcWaiting(w, p), RtcWaiting(v, p))
    /\ closes' = 0 => RtcWaiting(v, p) = RtcWaiting(w, p)

(* A step that only loses frames leaves a direction as it was.              *)
LEMMA RtcStays ==
    ASSUME impl = "rtc", impl' = "rtc", world \in RtcWorld, NEW d \in Direction,
           sent'[d] = sent[d], polled'[d] = polled[d],
           d[1] \in Pair /\ d[2] \in Pair => Shrinks(world, world', d[2])
    PROVE  Moves(d)
<1>1. /\ Waiting(d) = RtcWay(world, d) /\ Dropped(d) = 0
      /\ Waiting(d)' = RtcWay(world', d) /\ Dropped(d)' = 0
  BY RtcWaits, RtcWaitsNext
<1>2. Counted' => closes' = 0
  BY DEF Counted
<1>3. CASE d[1] \in Pair /\ d[2] \in Pair
  <2>1. Stays(d)
    BY <1>1, <1>2, <1>3 DEF RtcWay, Shrinks, Stays
  <2> QED
    BY <2>1 DEF Moves
<1>4. CASE ~ (d[1] \in Pair /\ d[2] \in Pair)
  <2>1. Waiting(d) = <<>> /\ Waiting(d)' = <<>>
    BY <1>1, <1>4 DEF RtcWay
  <2>2. CutOf(<<>>, <<>>)
    <3>1. PICK none \in Seq(Valid) : none = <<>>
      BY EmptySequence, Zenon
    <3> QED
      BY <3>1, CutOfItself, Zenon
  <2>3. Stays(d)
    BY <1>1, <2>1, <2>2 DEF Stays
  <2> QED
    BY <2>3 DEF Moves
<1> QED
  BY <1>3, <1>4

(* The changes of a channel and of a queue at one end.                      *)
LEMMA ChannelPut ==
    ASSUME NEW w \in RtcWorld, NEW p \in Pair, NEW c \in Seq(GoodFrame),
           NEW v, v = [w EXCEPT !.channel[p] = c]
    PROVE  NewFrames(w, v, p, c, w.incoming[p])
<1>1. w \in RtcRecord /\ w.incoming[p] \in Seq(Valid)
  BY RtcTyped DEF RtcWorld
<1>2. v = [w EXCEPT !.channel[p] = c, !.incoming[p] = w.incoming[p]]
  BY <1>1, Zenon DEF RtcRecord
<1> QED
  BY <1>1, <1>2, FramesPut

LEMMA IncomingPut ==
    ASSUME NEW w \in RtcWorld, NEW p \in Pair, NEW i \in Seq(Valid),
           NEW v, v = [w EXCEPT !.incoming[p] = i]
    PROVE  NewFrames(w, v, p, w.channel[p], i)
<1>1. w \in RtcRecord /\ w.channel[p] \in Seq(GoodFrame)
  BY RtcTyped DEF RtcWorld
<1>2. v = [w EXCEPT !.channel[p] = w.channel[p], !.incoming[p] = i]
  BY <1>1, Zenon DEF RtcRecord
<1> QED
  BY <1>1, <1>2, FramesPut

LEMMA KindsAppended ==
    ASSUME NEW p, NEW o \in Seq(SignalFrom(p)), NEW m \in SignalFrom(p), NEW kinds,
           m.kind \in kinds, OfKinds(o, kinds)
    PROVE  OfKinds(Append(o, m), kinds)
<1>1. PICK n \in Nat : n = Len(o)
  OBVIOUS
<1>2. PICK o2 : /\ o2 = Append(o, m) /\ Len(o2) = n + 1 /\ o2[n + 1] = m
                /\ \A i \in 1..n : o2[i] = o[i]
  <2>1. /\ Len(Append(o, m)) = n + 1 /\ Append(o, m)[n + 1] = m
        /\ \A i \in 1..n : Append(o, m)[i] = o[i]
    BY <1>1
  <2> QED
    BY <2>1, Zenon
<1>3. ASSUME NEW i \in 1..(n + 1) PROVE o2[i].kind \in kinds
  <2>1. CASE i = n + 1
    BY <1>2, <2>1
  <2>2. CASE i # n + 1
    <3>1. i \in 1..n
      BY <2>2
    <3> QED
      BY <1>1, <1>2, <3>1 DEF OfKinds
  <2> QED
    BY <2>1, <2>2
<1> QED
  BY <1>2, <1>3 DEF OfKinds

(* An end that registers.                                                   *)
LEMMA EndRegistered ==
    ASSUME NEW w \in RtcWorld, NEW p \in Pair, NEW v, v = Registered(w, p)
    PROVE  /\ v \in RtcWorld /\ v.channel = w.channel /\ v.incoming = w.incoming
           /\ v.registered = w.registered \cup {p} /\ SameFlags(w, v) /\ v.out = w.out
           /\ v.hub[p] = <<>> /\ v.phase[p] = "Signaling"
           /\ \A q \in Pair : q # p => v.hub[q] = w.hub[q] /\ v.phase[q] = w.phase[q]
<1>1. w \in RtcRecord /\ \A q \in Pair : RtcEnd(w, q)
  BY DEF RtcWorld
<1>2. PICK g \in SUBSET Pair : g = w.registered \cup {p}
  <2>1. w.registered \subseteq Pair
    BY RtcTyped
  <2>2. w.registered \cup {p} \in SUBSET Pair
    BY <2>1
  <2> QED
    BY <2>2, Zenon
<1>3. v = [w EXCEPT !.registered = g, !.hub[p] = <<>>, !.phase[p] = "Signaling"]
  BY <1>1, <1>2 DEF Registered, RtcRecord
<1>4. <<>> \in Seq(Range(SignalBytes)) /\ "Signaling" \in Phase /\ <<>> \in Seq(WireFrom(Other(p)))
  BY EmptySequence DEF Phase
<1>5. v \in RtcRecord
  <2>1. PICK none \in Seq(Range(SignalBytes)) : none = <<>>
    BY <1>4, Zenon
  <2>2. PICK u : u = [w EXCEPT !.hub[p] = none, !.phase[p] = "Signaling"]
    OBVIOUS
  <2>3. u \in RtcRecord
    BY <1>1, <1>4, <2>2, Zenon DEF RtcRecord
  <2>4. v = [u EXCEPT !.registered = g]
    BY <1>1, <1>3, <2>1, <2>2, Zenon DEF RtcRecord
  <2> QED
    BY <2>3, <2>4, Zenon DEF RtcRecord
<1>6. /\ v.channel = w.channel /\ v.incoming = w.incoming /\ v.registered = g
      /\ v.ready = w.ready /\ v.notified = w.notified /\ v.out = w.out /\ v.remote = w.remote
  BY <1>1, <1>3 DEF RtcRecord
<1>7. /\ v.hub[p] = <<>> /\ v.phase[p] = "Signaling"
      /\ \A q \in Pair : q # p => v.hub[q] = w.hub[q] /\ v.phase[q] = w.phase[q]
  BY <1>1, <1>3 DEF RtcRecord
<1>8. ASSUME NEW q \in Pair PROVE RtcEnd(v, q)
  <2>1. CASE q = p
    BY <1>1, <1>4, <1>6, <1>7, <2>1, Zenon DEF RtcEnd
  <2>2. CASE q # p
    BY <1>1, <1>2, <1>6, <1>7, <2>2 DEF RtcEnd
  <2> QED
    BY <2>1, <2>2
<1> QED
  BY <1>2, <1>5, <1>6, <1>7, <1>8 DEF RtcWorld, SameFlags

(* Connect keeps the invariant of the handshake.                            *)
LEMMA EndConnected ==
    ASSUME NEW w \in RtcWorld, NEW p \in Pair, p \notin w.registered,
           NEW v, v = RtcConnect(w, p)
    PROVE  /\ v \in RtcWorld /\ v.channel = w.channel /\ v.incoming = w.incoming
           /\ Handshake(w) => Handshake(v)
<1>1. PICK r : r = Registered(w, p)
  OBVIOUS
<1>2. /\ r \in RtcWorld /\ r.channel = w.channel /\ r.incoming = w.incoming
      /\ r.registered = w.registered \cup {p} /\ SameFlags(w, r) /\ r.out = w.out
      /\ r.hub[p] = <<>> /\ r.phase[p] = "Signaling"
      /\ \A q \in Pair : q # p => r.hub[q] = w.hub[q] /\ r.phase[q] = w.phase[q]
  BY <1>1, EndRegistered
<1>3. PICK joined : joined = QueueSignal(r, p, "Join", Nobody)
  OBVIOUS
<1>4. PICK o \in Seq(SignalFrom(p)) : o = w.out[p]
  BY RtcTyped
<1>5. PICK j \in SignalFrom(p) : j.kind = "Join" /\ NewOut(r, joined, p, Append(o, j))
  BY <1>2, <1>3, <1>4, SignalQueued
<1>6. PICK oj \in Seq(SignalFrom(p)) : oj = Append(o, j)
  <2>1. Append(o, j) \in Seq(SignalFrom(p))
    OBVIOUS
  <2> QED
    BY <2>1, Zenon
<1>7. PICK n : /\ NewOut(joined, v, p, n) \/ (v = joined /\ n = oj)
               /\ OfKinds(o, {"Join"}) /\ p = Server => OfKinds(n, {"Join"})
               /\ OfKinds(o, {"Join", "Offer"}) => OfKinds(n, {"Join", "Offer"})
  <2>1. /\ OfKinds(o, {"Join"}) => OfKinds(oj, {"Join"})
        /\ OfKinds(o, {"Join", "Offer"}) => OfKinds(oj, {"Join", "Offer"})
    BY <1>5, <1>6, KindsAppended
  <2>2. CASE p = Server
    <3>1. v = joined
      BY <1>1, <1>3, <2>2 DEF RtcConnect
    <3> QED
      BY <2>1, <3>1
  <2>3. CASE p # Server
    <3>1. v = QueueSignal(joined, p, "Offer", Nobody)
      BY <1>1, <1>3, <2>3 DEF RtcConnect
    <3>2. joined \in RtcWorld /\ joined.out[p] = oj
      BY <1>5, <1>6 DEF NewOut
    <3>3. PICK f \in SignalFrom(p) : f.kind = "Offer" /\ NewOut(joined, v, p, Append(oj, f))
      BY <3>1, <3>2, SignalQueued
    <3>4. OfKinds(oj, {"Join", "Offer"}) => OfKinds(Append(oj, f), {"Join", "Offer"})
      BY <3>3, KindsAppended
    <3> QED
      BY <2>1, <2>3, <3>3, <3>4
  <2> QED
    BY <2>2, <2>3
<1>8. /\ joined \in RtcWorld /\ SameFrames(r, joined) /\ SameFlags(r, joined)
      /\ joined.phase = r.phase /\ joined.hub = r.hub
      /\ joined.out[p] = oj /\ \A q \in Pair : q # p => joined.out[q] = r.out[q]
  BY <1>5, <1>6 DEF NewOut
<1>9. /\ v \in RtcWorld /\ SameFrames(r, v) /\ SameFlags(r, v) /\ v.phase = r.phase /\ v.hub = r.hub
      /\ v.out[p] = n /\ \A q \in Pair : q # p => v.out[q] = r.out[q]
  BY <1>7, <1>8 DEF NewOut, SameFrames, SameFlags
<1>10. ASSUME Handshake(w) PROVE Handshake(v)
  <2>1. NotYet(w)
    BY <1>10 DEF Handshake, Answered
  <2>2. v.registered = w.registered \cup {p} /\ v.channel = w.channel
    BY <1>2, <1>9 DEF SameFrames
  <2>3. \A q \in Pair :
          /\ v.phase[q] = IF q \in v.registered THEN "Signaling" ELSE "Disconnected"
          /\ v.channel[q] = <<>>
    BY <1>2, <1>9, <2>1, <2>2 DEF NotYet
  <2>4. \A q \in Pair : ~ v.ready[q] /\ ~ v.notified[q]
    BY <1>2, <1>9, <2>1 DEF NotYet, SameFlags
  <2>5. v.hub[Server] = <<>>
    <3>1. CASE p = Server
      BY <1>2, <1>9, <3>1
    <3>2. CASE p # Server
      <4>1. p = 1
        BY <3>2, PairEnds
      <4>2. w.hub[Server] = <<>>
        BY <2>1, <4>1 DEF NotYet
      <4> QED
        BY <1>2, <1>9, <3>2, <4>2, PairEnds
    <3> QED
      BY <3>1, <3>2
  <2>6. /\ OfKinds(v.out[Server], {"Join"}) /\ OfKinds(v.out[1], {"Join", "Offer"})
        /\ WireOfKinds(v.hub[1], {"Join"})
    <3>1. CASE p = 1
      <4>1. /\ v.out[Server] = w.out[Server] /\ v.hub[1] = <<>> /\ v.out[1] = n /\ o = w.out[1]
        BY <1>2, <1>4, <1>9, <3>1, PairEnds
      <4> QED
        BY <1>7, <2>1, <4>1, NoKinds DEF NotYet
    <3>2. CASE p = Server
      <4>1. /\ v.out[1] = w.out[1] /\ v.hub[1] = w.hub[1] /\ v.out[Server] = n /\ o = w.out[Server]
        BY <1>2, <1>4, <1>9, <3>2, PairEnds
      <4> QED
        BY <1>7, <2>1, <3>2, <4>1 DEF NotYet
    <3> QED
      BY <3>1, <3>2, PairEnds
  <2>7. NotYet(v)
    BY <2>3, <2>4, <2>5, <2>6, NoKinds DEF NotYet
  <2>8. v.phase[Server] # "Connected"
    BY <2>7, PairEnds DEF NotYet
  <2> QED
    BY <2>7, <2>8 DEF Handshake
<1> QED
  BY <1>2, <1>9, <1>10 DEF SameFrames

(* Close empties the end's queues; the frames on their way to it stay.      *)
LEMMA EndClosed ==
    ASSUME NEW w \in RtcWorld, NEW p \in Pair, NEW v, v = RtcClose(w, p)
    PROVE  /\ v \in RtcWorld /\ v.channel = w.channel /\ v.incoming[p] = <<>>
           /\ \A q \in Pair : q # p => v.incoming[q] = w.incoming[q]
<1>1. w \in RtcRecord /\ \A q \in Pair : RtcEnd(w, q)
  BY DEF RtcWorld
<1>2. PICK g \in SUBSET Pair : g = w.registered \ {p}
  <2>1. w.registered \subseteq Pair
    BY RtcTyped
  <2>2. w.registered \ {p} \in SUBSET Pair
    BY <2>1
  <2> QED
    BY <2>2, Zenon
<1>3. PICK f : f = [w.ready EXCEPT ![p] = FALSE]
  BY Zenon
<1>4. PICK h : h = [w.notified EXCEPT ![p] = FALSE]
  BY Zenon
<1>5. f \in [Pair -> BOOLEAN]
  BY <1>1, <1>3, Zenon DEF RtcRecord
<1>6. h \in [Pair -> BOOLEAN]
  BY <1>1, <1>4, Zenon DEF RtcRecord
<1>7. v = [w EXCEPT !.phase[p] = "Disconnected", !.remote[p] = Nobody, !.out[p] = <<>>,
                    !.ready = f, !.notified = h, !.incoming[p] = <<>>, !.registered = g,
                    !.hub[p] = <<>>]
  BY <1>1, <1>2, <1>3, <1>4 DEF RtcClose, RtcRecord
<1>8. /\ <<>> \in Seq(Range(SignalBytes)) /\ <<>> \in Seq(Signal) /\ <<>> \in Seq(Valid)
      /\ "Disconnected" \in Phase /\ <<>> \in Seq(WireFrom(Other(p))) /\ <<>> \in Seq(SignalFrom(p))
  BY EmptySequence DEF Phase
<1>9. v \in RtcRecord
  <2>1. PICK a \in Seq(Range(SignalBytes)), b \in Seq(Signal), c \in Seq(Valid) :
          a = <<>> /\ b = <<>> /\ c = <<>>
    BY <1>8, Zenon
  <2>2. PICK u : u = [w EXCEPT !.phase[p] = "Disconnected", !.remote[p] = Nobody,
                               !.out[p] = b, !.incoming[p] = c, !.hub[p] = a]
    OBVIOUS
  <2>3. u \in RtcRecord
    BY <1>1, <1>8, <2>2, Zenon DEF RtcRecord
  <2>4. v = [u EXCEPT !.registered = g, !.ready = f, !.notified = h]
    BY <1>1, <1>7, <2>1, <2>2, ZenonT(60) DEF RtcRecord
  <2> QED
    BY <1>5, <1>6, <2>3, <2>4, Zenon DEF RtcRecord
<1>10. /\ v.channel = w.channel /\ v.registered = g
       /\ v.incoming[p] = <<>> /\ v.hub[p] = <<>> /\ v.out[p] = <<>> /\ v.remote[p] = Nobody
       /\ \A q \in Pair : q # p => /\ v.incoming[q] = w.incoming[q] /\ v.hub[q] = w.hub[q]
                                   /\ v.out[q] = w.out[q] /\ v.remote[q] = w.remote[q]
  BY <1>1, <1>7 DEF RtcRecord
<1>11. ASSUME NEW q \in Pair PROVE RtcEnd(v, q)
  <2>1. CASE q = p
    BY <1>8, <1>10, <2>1, Zenon DEF RtcEnd
  <2>2. CASE q # p
    BY <1>1, <1>2, <1>10, <2>2 DEF RtcEnd
  <2> QED
    BY <2>1, <2>2
<1> QED
  BY <1>9, <1>10, <1>11 DEF RtcWorld

(* The data channel's part of the invariant.                                *)
RtcInv == world \in RtcWorld /\ (closes = 0 => Handshake(world))

LEMMA PairWay ==
    ASSUME NEW p \in Pair, NEW q \in Pair, <<p, q>> \in Direction
    PROVE  q = Other(p) /\ q # p
  BY DEF Direction, Client, Pair, Other, Server

LEMMA PairWays ==
    ASSUME NEW d \in Direction, d[1] \in Pair, d[2] \in Pair, NEW p \in Pair, NEW q \in Pair,
           <<p, q>> \in Direction, d # <<p, q>>
    PROVE  d[2] = p
  BY DEF Direction, Client, Pair, Server

WithFrame(u, p, q, e) ==
    PumpKcpRtcDataChannel([u EXCEPT !.channel[q] = Append(@, Frame[e])], p)

(* An end that sends: the frame joins those on their way to the other end.  *)
LEMMA FrameSent ==
    ASSUME NEW u \in RtcWorld, NEW p \in Pair, NEW q \in Pair, q # p, u.channel[p] = <<>>,
           NEW e \in Envelopes \cap Valid, u.phase[p] = "Connected",
           NEW v, v = WithFrame(u, p, q, e)
    PROVE  /\ v \in RtcWorld /\ RtcWaiting(v, q) = Append(RtcWaiting(u, q), e)
           /\ RtcWaiting(v, p) = u.incoming[p] /\ SameSignaling(u, v)
<1>1. PICK f \in GoodFrame : f = Frame[e] /\ FrameDecoded[f] = e
  <2>1. e \in Packable /\ ValidateEnvelope(e)
    BY EnvelopePackable DEF Valid
  <2>2. Frame[e] \in GoodFrame
    BY DEF GoodFrame
  <2> QED
    BY <2>1, <2>2, FrameArrives
<1>2. PICK c \in Seq(GoodFrame) : c = u.channel[q]
  BY RtcTyped
<1>3. PICK c2 \in Seq(GoodFrame) : c2 = Append(c, f)
  <2>1. Append(c, f) \in Seq(GoodFrame)
    OBVIOUS
  <2> QED
    BY <2>1, Zenon
<1>4. PICK x : x = [u EXCEPT !.channel[q] = c2]
  BY Zenon
<1>5. v = PumpKcpRtcDataChannel(x, p)
  <2>1. u \in RtcRecord
    BY DEF RtcWorld
  <2>2. [u EXCEPT !.channel[q] = Append(@, f)] = x
    BY <1>2, <1>3, <1>4, <2>1 DEF RtcRecord
  <2> QED
    BY <1>1, <2>2, Zenon DEF WithFrame
<1>6. NewFrames(u, x, q, c2, u.incoming[q])
  BY <1>4, ChannelPut, Zenon
<1>7. /\ x \in RtcWorld /\ SameSignaling(u, x) /\ x.channel[q] = c2 /\ x.incoming[q] = u.incoming[q]
      /\ x.channel[p] = <<>> /\ x.incoming[p] = u.incoming[p]
  BY <1>6 DEF NewFrames
<1>8. RtcWaiting(x, p) = x.incoming[p]
  BY <1>7, NothingOnChannel
<1>9. PICK i \in Seq(Valid) : NewFrames(x, v, p, <<>>, i) /\ i = x.incoming[p]
  BY <1>5, <1>7, <1>8, FramesPumped
<1>10. /\ v \in RtcWorld /\ SameSignaling(x, v) /\ v.channel[p] = <<>> /\ v.incoming[p] = u.incoming[p]
       /\ v.channel[q] = c2 /\ v.incoming[q] = u.incoming[q]
  BY <1>7, <1>9 DEF NewFrames
<1>11. RtcWaiting(v, p) = u.incoming[p]
  BY <1>10, NothingOnChannel
<1>12. RtcWaiting(v, q) = Append(RtcWaiting(u, q), e)
  <2>1. PICK a \in Seq(Valid), b \in Seq(Valid) : a = u.incoming[q] /\ b = Decoded(c)
    BY RtcTyped, DecodedTyped
  <2>2. Decoded(c2) = Append(b, e)
    BY <1>1, <1>3, <2>1, DecodedAppend
  <2>3. AppendsToSecond(a, b, e)
    BY AppendConcat
  <2>4. RtcWaiting(v, q) = a \o Append(b, e) /\ RtcWaiting(u, q) = a \o b
    BY <1>2, <1>10, <2>1, <2>2 DEF RtcWaiting
  <2> QED
    BY <2>3, <2>4, Zenon DEF AppendsToSecond
<1> QED
  BY <1>7, <1>10, <1>11, <1>12 DEF SameSignaling, SameFlags

(* An update on its own.                                                    *)
LEMMA UpdateShrinks ==
    ASSUME impl = "rtc", RtcInv, closes' = closes, NEW p \in Pair, p \in world.registered,
           NEW u, u = RtcUpdate(world, p)
    PROVE  /\ u \in RtcWorld /\ (closes = 0 => Handshake(u)) /\ u.channel[p] = <<>>
           /\ RtcWaiting(u, p) = u.incoming[p]
           /\ \A q \in Pair : Shrinks(world, u, q) /\ (q # p => RtcWaiting(u, q) = RtcWaiting(world, q))
<1>1. world \in RtcWorld /\ (closes = 0 => Handshake(world))
  BY DEF RtcInv
<1>2. /\ UpdatedTo(world, u, p)
      /\ Handshake(world) => Handshake(u) /\ u.incoming[p] = RtcWaiting(world, p)
  BY <1>1, RtcUpdated
<1>3. u \in RtcWorld /\ u.channel[p] = <<>>
  BY <1>2 DEF UpdatedTo
<1>4. RtcWaiting(u, p) = u.incoming[p]
  BY <1>3, NothingOnChannel
<1>5. Shrinks(world, u, p)
  BY <1>1, <1>2, <1>4 DEF UpdatedTo, Shrinks
<1>6. ASSUME NEW q \in Pair, q # p PROVE RtcWaiting(u, q) = RtcWaiting(world, q) /\ Shrinks(world, u, q)
  <2>1. RtcWaiting(u, q) = RtcWaiting(world, q)
    BY <1>2, <1>6, Zenon DEF UpdatedTo, RtcWaiting
  <2>2. CutOf(RtcWaiting(world, q), RtcWaiting(world, q))
    BY <1>1, RtcWaitingTyped, CutOfItself
  <2> QED
    BY <2>1, <2>2 DEF Shrinks
<1> QED
  BY <1>1, <1>2, <1>3, <1>4, <1>5, <1>6

(* Send, with the Update before it, moves a direction by at most one        *)
(* envelope.                                                                *)
LEMMA RtcSendMoves ==
    ASSUME impl = "rtc", script \in Script, RtcInv, sent \in [Direction -> Seq(Valid)],
           NEW p \in Pair, NEW q \in Pair, <<p, q>> \in Direction, Send(p, q)
    PROVE  /\ RtcInv' /\ sent' \in [Direction -> Seq(Valid)]
           /\ \A d \in Direction : Moves(d)
<1>1. /\ impl' = "rtc" /\ script' = script /\ polled' = polled /\ closes' = closes
      /\ p \in world.registered /\ world \in RtcWorld
  BY DEF Send, Started, RtcInv
<1>2. q = Other(p) /\ q # p
  BY PairWay
<1> DEFINE n == Len(sent[<<p, q>>])
<1>3. n < Len(script[<<p, q>>]) /\ n \in Nat /\ script[<<p, q>>] \in Seq(Item)
  BY ScriptAssumption DEF Send
<1>4. PICK e : /\ e = EnvelopeFor(<<p, q>>, script[<<p, q>>][n + 1])
               /\ \E w \in {Updated(p)} : \E result \in {RtcSend(w, p, q, e)} :
                    /\ world' = result.world
                    /\ sent' = IF result.accepted THEN [sent EXCEPT ![<<p, q>>] = Append(@, e)]
                               ELSE sent
  BY Zenon DEF Send
<1>5. e \in EnvelopeType /\ e \in Envelopes
  <2>1. n + 1 \in 1..Len(script[<<p, q>>])
    BY <1>3
  <2> QED
    BY <1>4, <2>1, ScriptTyped
<1>6. PICK u, result : /\ u = RtcUpdate(world, p) /\ result = RtcSend(u, p, q, e)
                       /\ world' = result.world
                       /\ sent' = IF result.accepted THEN [sent EXCEPT ![<<p, q>>] = Append(@, e)]
                                  ELSE sent
  BY <1>4 DEF Updated
<1>7. /\ u \in RtcWorld /\ (closes = 0 => Handshake(u)) /\ u.channel[p] = <<>>
      /\ RtcWaiting(u, p) = u.incoming[p]
      /\ \A k \in Pair : Shrinks(world, u, k) /\ (k # p => RtcWaiting(u, k) = RtcWaiting(world, k))
  BY <1>1, <1>6, UpdateShrinks
<1> DEFINE accepts == /\ ValidateEnvelope(e) /\ u.phase[p] = "Connected"
                      /\ Len(Frame[e]) <= maxBufferedAmountBytes
<1>8. CASE ~ accepts
  <2>1. world' = u /\ sent' = sent
    BY <1>6, <1>8 DEF RtcSend
  <2>2. \A d \in Direction : Moves(d)
    BY <1>1, <1>7, <2>1, RtcStays
  <2>3. RtcInv'
    BY <1>1, <1>7, <2>1 DEF RtcInv
  <2> QED
    BY <2>1, <2>2, <2>3
<1>9. CASE accepts
  <2>1. /\ world' = PumpKcpRtcDataChannel([u EXCEPT !.channel[q] = Append(@, Frame[e])], p)
        /\ sent' = [sent EXCEPT ![<<p, q>>] = Append(@, e)]
    BY <1>6, <1>9 DEF RtcSend
  <2>2. e \in Valid
    BY <1>5, <1>9 DEF Valid
  <2>3. PICK v : v = world'
    OBVIOUS
  <2>4. /\ v \in RtcWorld /\ RtcWaiting(v, q) = Append(RtcWaiting(u, q), e)
        /\ RtcWaiting(v, p) = u.incoming[p] /\ SameSignaling(u, v)
    <3>1. e \in Envelopes \cap Valid
      BY <1>5, <2>2
    <3>2. v = WithFrame(u, p, q, e)
      BY <2>1, <2>3 DEF WithFrame
    <3>3. u.phase[p] = "Connected"
      BY <1>9
    <3> QED
      BY <1>2, <1>7, <3>1, <3>2, <3>3, FrameSent
  <2>5. sent' \in [Direction -> Seq(Valid)]
    <3>1. PICK s \in Seq(Valid) : s = sent[<<p, q>>]
      OBVIOUS
    <3>2. PICK s2 \in Seq(Valid) : s2 = Append(s, e)
      <4>1. Append(s, e) \in Seq(Valid)
        BY <2>2
      <4> QED
        BY <4>1, Zenon
    <3>3. sent' = [sent EXCEPT ![<<p, q>>] = s2]
      BY <2>1, <3>1, <3>2
    <3> QED
      BY <3>3
  <2>6. RtcInv'
    <3>1. ASSUME closes = 0 PROVE Handshake(v)
      <4>1. ~ NotYet(u)
        BY <1>9 DEF NotYet
      <4>2. u.phase[Server] = "Connected" /\ Answered(u)
        BY <1>7, <3>1, <4>1 DEF Handshake
      <4> QED
        BY <2>4, <4>2 DEF Handshake, Answered, SameSignaling
    <3> QED
      BY <1>1, <2>3, <2>4, <3>1 DEF RtcInv
  <2>7. ASSUME NEW d \in Direction PROVE Moves(d)
    <3>1. CASE d = <<p, q>>
      <4>1. d[1] = p /\ d[2] = q
        BY <3>1
      <4>2. Waiting(d) = RtcWay(world, d) /\ Dropped(d) = 0
        BY RtcWaits
      <4>3. Waiting(d)' = RtcWay(world', d) /\ Dropped(d)' = 0
        BY <1>1, RtcWaitsNext
      <4>4. Waiting(d)' = Append(Waiting(d), e)
        BY <1>2, <1>7, <2>3, <2>4, <4>1, <4>2, <4>3 DEF RtcWay
      <4>5. Takes(d, e, e)
        BY <1>1, <1>3, <1>4, <2>1, <3>1, Zenon DEF Takes
      <4>6. Adds(d, e)
        BY <4>2, <4>3, <4>4 DEF Adds
      <4>7. Puts(d)
        BY <2>2, <4>5, <4>6 DEF Puts
      <4> QED
        BY <4>7 DEF Moves
    <3>2. CASE d # <<p, q>>
      <4>1. sent'[d] = sent[d] /\ polled'[d] = polled[d]
        BY <1>1, <2>1, <3>2
      <4>2. ASSUME d[1] \in Pair, d[2] \in Pair PROVE Shrinks(world, world', d[2])
        <5>1. d[2] = p
          BY <3>2, <4>2, PairWays
        <5>2. RtcWaiting(v, p) = RtcWaiting(u, p) /\ Shrinks(world, u, p)
          BY <1>7, <2>4
        <5> QED
          BY <2>3, <5>1, <5>2 DEF Shrinks
      <4> QED
        BY <1>1, <4>1, <4>2, RtcStays
    <3> QED
      BY <3>1, <3>2
  <2> QED
    BY <2>5, <2>6, <2>7
<1> QED
  BY <1>8, <1>9

(* So does Poll.                                                            *)
LEMMA RtcPollMoves ==
    ASSUME impl = "rtc", RtcInv, NEW p \in Pair, Poll(p),
           \A d \in Direction : polled[d] \in Seq(Valid)
    PROVE  RtcInv' /\ sent' = sent /\ \A d \in Direction : Moves(d)
<1>1. /\ impl' = "rtc" /\ sent' = sent /\ closes' = closes
      /\ p \in world.registered /\ world \in RtcWorld
  BY DEF Poll, Started, RtcInv
<1>2. PICK q \in Pair : q = Other(p) /\ q # p /\ <<q, p>> \in Direction
  <2>1. Other(p) \in Pair /\ Other(p) # p /\ Other(Other(p)) = p
    BY Others
  <2>2. <<Other(p), p>> \in Direction
    BY DEF Direction, Client, Pair, Other, Server
  <2> QED
    BY <2>1, <2>2
<1>3. \A e : From(p, e) = q
  BY <1>2 DEF From, Other, Pair, Server
<1>4. PICK u, result :
        /\ u = RtcUpdate(world, p) /\ result = RtcPoll(u, p) /\ world' = result.world
        /\ polled' = [c \in Direction |-> IF result.polled # <<>> /\ c = <<q, p>>
                                          THEN polled[c] \o result.polled ELSE polled[c]]
  BY <1>3 DEF Poll, Updated
<1>5. /\ u \in RtcWorld /\ (closes = 0 => Handshake(u)) /\ u.channel[p] = <<>>
      /\ RtcWaiting(u, p) = u.incoming[p]
      /\ \A k \in Pair : Shrinks(world, u, k) /\ (k # p => RtcWaiting(u, k) = RtcWaiting(world, k))
  BY <1>1, <1>4, UpdateShrinks
<1>6. PICK i \in Seq(Valid) : i = u.incoming[p]
  BY <1>5, RtcTyped
<1>7. CASE i = <<>>
  <2>1. world' = u /\ result.polled = <<>>
    BY <1>4, <1>6, <1>7 DEF RtcPoll
  <2>2. \A d \in Direction : polled'[d] = polled[d]
    BY <1>4, <2>1
  <2>3. \A d \in Direction : Moves(d)
    BY <1>1, <1>5, <2>1, <2>2, RtcStays
  <2>4. RtcInv'
    BY <1>1, <1>5, <2>1 DEF RtcInv
  <2> QED
    BY <1>1, <2>3, <2>4
<1>8. CASE i # <<>>
  <2>1. PICK h \in Valid, rest \in Seq(Valid) : h = Head(i) /\ rest = Tail(i)
    <3>1. Head(i) \in Valid /\ Tail(i) \in Seq(Valid)
      BY <1>8
    <3> QED
      BY <3>1, Zenon
  <2>2. PICK v : v = world'
    OBVIOUS
  <2>3. v = [u EXCEPT !.incoming[p] = rest] /\ result.polled = <<h>>
    <3>1. u \in RtcRecord
      BY <1>5 DEF RtcWorld
    <3>2. [u EXCEPT !.incoming[p] = Tail(@)] = [u EXCEPT !.incoming[p] = rest]
      BY <1>6, <2>1, <3>1 DEF RtcRecord
    <3> QED
      BY <1>4, <1>6, <1>8, <2>1, <2>2, <3>2 DEF RtcPoll
  <2>4. NewFrames(u, v, p, u.channel[p], rest)
    BY <1>5, <2>3, IncomingPut
  <2>5. /\ v \in RtcWorld /\ SameSignaling(u, v) /\ v.channel[p] = <<>> /\ v.incoming[p] = rest
        /\ v.channel[q] = u.channel[q] /\ v.incoming[q] = u.incoming[q]
    BY <1>2, <1>5, <2>4 DEF NewFrames
  <2>6. RtcWaiting(v, p) = rest
    BY <2>5, NothingOnChannel
  <2>7. RtcWaiting(v, q) = RtcWaiting(world, q)
    BY <1>2, <1>5, <2>5, Zenon DEF RtcWaiting
  <2>8. RtcInv'
    <3>1. NotYet(u) => NotYet(v)
      <4>1. \A k \in Pair : v.channel[k] = u.channel[k]
        BY <1>2, <1>5, <2>5, PairOf
      <4> QED
        BY <2>5, <4>1 DEF NotYet, SameSignaling, SameFlags
    <3>2. Answered(u) => Answered(v)
      BY <2>5 DEF Answered, SameSignaling
    <3>3. Handshake(u) => Handshake(v)
      BY <2>5, <3>1, <3>2 DEF Handshake, SameSignaling
    <3> QED
      BY <1>1, <1>5, <2>2, <2>5, <3>3 DEF RtcInv
  <2>9. ASSUME NEW d \in Direction PROVE Moves(d)
    <3>1. CASE d = <<q, p>>
      <4>1. d[1] = q /\ d[2] = p
        BY <3>1
      <4>2. Waiting(d) = RtcWay(world, d) /\ Dropped(d) = 0
        BY RtcWaits
      <4>3. Waiting(d)' = RtcWay(world', d) /\ Dropped(d)' = 0
        BY <1>1, RtcWaitsNext
      <4>4. Waiting(d) = RtcWaiting(world, p) /\ Waiting(d)' = rest
        BY <2>2, <2>6, <4>1, <4>2, <4>3 DEF RtcWay
      <4>5. CutOf(Waiting(d), i) /\ (Counted => i = Waiting(d))
        BY <1>1, <1>5, <1>6, <4>4 DEF Shrinks, Counted
      <4>6. polled'[d] = Append(polled[d], h)
        <5>1. PICK s \in Seq(Valid) : s = polled[d]
          OBVIOUS
        <5>2. s \o <<h>> = Append(s, h) /\ <<h>> # <<>>
          BY AppendOne
        <5>3. polled'[d] = s \o <<h>>
          BY <1>4, <2>3, <3>1, <5>1, <5>2
        <5> QED
          BY <5>1, <5>2, <5>3
      <4>7. Gives(d)
        BY <1>1, <1>8, <2>1, <4>2, <4>3, <4>4, <4>5, <4>6 DEF Gives
      <4> QED
        BY <4>7 DEF Moves
    <3>2. CASE d # <<q, p>>
      <4>1. sent'[d] = sent[d] /\ polled'[d] = polled[d]
        BY <1>1, <1>4, <3>2
      <4>2. ASSUME d[1] \in Pair, d[2] \in Pair PROVE Shrinks(world, world', d[2])
        <5>1. d[2] = q
          BY <1>2, <3>2, <4>2, PairWays
        <5>2. CutOf(RtcWaiting(world, q), RtcWaiting(world, q))
          BY <1>1, RtcWaitingTyped, CutOfItself
        <5> QED
          BY <2>2, <2>7, <5>1, <5>2 DEF Shrinks
      <4> QED
        BY <1>1, <4>1, <4>2, RtcStays
    <3> QED
      BY <3>1, <3>2
  <2> QED
    BY <1>1, <2>8, <2>9
<1> QED
  BY <1>7, <1>8

(* Every step of the data channel moves each direction by at most one       *)
(* envelope.                                                                *)
LEMMA RtcMoves ==
    ASSUME impl = "rtc", Common, RtcInv, Next
    PROVE  /\ RtcInv' /\ sent' \in [Direction -> Seq(Valid)]
           /\ \A d \in Direction : Moves(d)
<1>1. Peers = Pair
  BY DEF Peers, Pair
<1>2. \A d \in Direction : polled[d] \in Seq(Valid)
  BY DEF Common, Arrived
<1>3. /\ sent \in [Direction -> Seq(Valid)] /\ script \in Script /\ closes \in Nat
      /\ world \in RtcWorld /\ (closes = 0 => Handshake(world))
  BY TransportAssumption DEF Common, RtcInv
<1>4. PICK p \in Pair :
        \/ Connect(p) \/ Update(p) \/ Close(p) \/ Poll(p) \/ FlushDelayed(p)
        \/ \E q \in Pair : <<p, q>> \in Direction /\ Send(p, q)
        \/ \E c \in Conditions : SetNetworkConditions(p, c)
  BY <1>1, Zenon DEF Next
<1>5. CASE Poll(p)
  BY <1>2, <1>3, <1>5, RtcPollMoves
<1>6. CASE \E q \in Pair : <<p, q>> \in Direction /\ Send(p, q)
  <2>1. PICK q \in Pair : <<p, q>> \in Direction /\ Send(p, q)
    BY <1>6
  <2> QED
    BY <1>3, <2>1, RtcSendMoves
<1>7. CASE Update(p)
  <2>1. /\ impl' = "rtc" /\ sent' = sent /\ polled' = polled /\ closes' = closes
        /\ p \in world.registered /\ world' = RtcUpdate(world, p)
    BY <1>7 DEF Update, Started
  <2>2. PICK v : v = world'
    OBVIOUS
  <2>3. /\ v \in RtcWorld /\ (closes = 0 => Handshake(v))
        /\ \A k \in Pair : Shrinks(world, v, k)
    BY <2>1, <2>2, UpdateShrinks
  <2>4. \A d \in Direction : Moves(d)
    BY <1>3, <2>1, <2>2, <2>3, RtcStays
  <2> QED
    BY <1>3, <2>1, <2>2, <2>3, <2>4 DEF RtcInv
<1>8. CASE Connect(p)
  <2>1. /\ impl' = "rtc" /\ sent' = sent /\ polled' = polled /\ closes' = closes
        /\ p \notin world.registered /\ world' = RtcConnect(world, p)
    BY <1>8 DEF Connect, Started
  <2>2. PICK v : v = world'
    OBVIOUS
  <2>3. /\ v \in RtcWorld /\ v.channel = world.channel /\ v.incoming = world.incoming
        /\ Handshake(world) => Handshake(v)
    BY <1>3, <2>1, <2>2, EndConnected
  <2>4. ASSUME NEW k \in Pair PROVE Shrinks(world, v, k)
    <3>1. RtcWaiting(v, k) = RtcWaiting(world, k)
      BY <2>3 DEF RtcWaiting
    <3>2. CutOf(RtcWaiting(world, k), RtcWaiting(world, k))
      BY <1>3, RtcWaitingTyped, CutOfItself
    <3> QED
      BY <3>1, <3>2 DEF Shrinks
  <2>5. \A d \in Direction : Moves(d)
    BY <1>3, <2>1, <2>2, <2>4, RtcStays
  <2> QED
    BY <1>3, <2>1, <2>2, <2>3, <2>5 DEF RtcInv
<1>9. CASE Close(p)
  <2>1. /\ impl' = "rtc" /\ sent' = sent /\ polled' = polled /\ closes' = closes + 1
        /\ world' = RtcClose(world, p)
    BY <1>9 DEF Close
  <2>2. closes' # 0
    BY <1>3, <2>1
  <2>3. PICK v : v = world'
    OBVIOUS
  <2>4. /\ v \in RtcWorld /\ v.channel = world.channel /\ v.incoming[p] = <<>>
        /\ \A q \in Pair : q # p => v.incoming[q] = world.incoming[q]
    BY <1>3, <2>1, <2>3, EndClosed
  <2>5. ASSUME NEW k \in Pair PROVE CutOf(RtcWaiting(world, k), RtcWaiting(v, k))
    <3>1. CASE k = p
      <4>1. PICK a \in Seq(Valid), b \in Seq(Valid) :
              a = world.incoming[p] /\ b = Decoded(world.channel[p])
        BY <1>3, RtcTyped, DecodedTyped
      <4>2. CutOf(a \o b, b)
        BY CutEnds
      <4>3. <<>> \o b = b
        BY EmptyConcat
      <4> QED
        BY <2>4, <3>1, <4>1, <4>2, <4>3, Zenon DEF RtcWaiting
    <3>2. CASE k # p
      <4>1. RtcWaiting(v, k) = RtcWaiting(world, k)
        BY <2>4, <3>2, Zenon DEF RtcWaiting
      <4> QED
        BY <1>3, <4>1, RtcWaitingTyped, CutOfItself
    <3> QED
      BY <3>1, <3>2
  <2>6. \A k \in Pair : Shrinks(world, v, k)
    BY <2>2, <2>5 DEF Shrinks
  <2>7. \A d \in Direction : Moves(d)
    BY <1>3, <2>1, <2>3, <2>6, RtcStays
  <2> QED
    BY <1>3, <2>1, <2>2, <2>3, <2>4, <2>7 DEF RtcInv
<1>10. ~FlushDelayed(p) /\ ~\E c \in Conditions : SetNetworkConditions(p, c)
  BY DEF FlushDelayed, SetNetworkConditions
<1> QED
  BY <1>4, <1>5, <1>6, <1>7, <1>8, <1>9, <1>10, Zenon

-----------------------------------------------------------------------------
(* The invariant, and the theorems.                                         *)

(* The invariant: for every implementation, and for each of them.           *)
TransportInv ==
    /\ Common
    /\ impl = "loopback" => world \in LoopbackWorld
    /\ impl = "hub" => world \in HubWorld
    /\ impl = "rtc" => RtcInv

(* What each implementation begins with.                                    *)
LEMMA LoopbackStarts ==
    ASSUME NEW c \in Conditions, NEW w, w = LoopbackInit(c)
    PROVE  w \in LoopbackWorld /\ \A p \in Pair : OnWay(w, p) = <<>> /\ w.dropped[p] = 0
<1>1. <<>> \in Seq(Valid)
  BY EmptySequence
<1>2. w \in LoopbackWorld
  BY <1>1 DEF LoopbackInit, LoopbackWorld, Pair
<1>3. ASSUME NEW p \in Pair PROVE OnWay(w, p) = <<>> /\ w.dropped[p] = 0
  <2>1. w.incoming[Other(p)] = <<>> /\ w.delayed[p] = <<>> /\ w.dropped[p] = 0
    <3>1. Other(p) \in Pair
      BY Others
    <3> QED
      BY <3>1 DEF LoopbackInit, Pair
  <2>2. <<>> \o <<>> = <<>>
    BY <1>1, EmptyConcat
  <2> QED
    BY <2>1, <2>2 DEF OnWay
<1> QED
  BY <1>2, <1>3

LEMMA RtcStarts ==
    ASSUME NEW w, w = RtcInit
    PROVE  w \in RtcWorld /\ Handshake(w) /\ \A p \in Pair : RtcWaiting(w, p) = <<>>
<1>1. /\ <<>> \in Seq(Signal) /\ <<>> \in Seq(Range(SignalBytes)) /\ <<>> \in Seq(GoodFrame)
      /\ <<>> \in Seq(Valid) /\ \A p : <<>> \in Seq(SignalFrom(p)) /\ <<>> \in Seq(WireFrom(p))
  BY EmptySequence
<1>2. /\ [p \in Pair |-> FALSE] \in [Pair -> BOOLEAN]
  BY Zenon
<1>3. /\ [p \in Pair |-> "Disconnected"] \in [Pair -> Phase]
      /\ [p \in Pair |-> Nobody] \in [Pair -> Pair \cup {Nobody}]
      /\ [p \in Pair |-> <<>>] \in [Pair -> Seq(Signal)]
      /\ [p \in Pair |-> <<>>] \in [Pair -> Seq(Range(SignalBytes))]
      /\ [p \in Pair |-> <<>>] \in [Pair -> Seq(GoodFrame)]
      /\ [p \in Pair |-> <<>>] \in [Pair -> Seq(Valid)] /\ {} \in SUBSET Pair
  BY <1>1 DEF Phase
<1>4. w \in RtcRecord
  BY <1>2, <1>3, Zenon DEF RtcInit, RtcRecord
<1>5. /\ w.registered = {}
      /\ \A p \in Pair :
           /\ w.phase[p] = "Disconnected" /\ w.remote[p] = Nobody /\ w.out[p] = <<>>
           /\ w.hub[p] = <<>> /\ w.channel[p] = <<>> /\ w.incoming[p] = <<>>
  BY DEF RtcInit
<1>6. \A p \in Pair : ~ w.ready[p] /\ ~ w.notified[p]
  BY DEF RtcInit
<1>7. \A p \in Pair : RtcEnd(w, p)
  BY <1>1, <1>5, Zenon DEF RtcEnd
<1>8. w \in RtcWorld
  BY <1>4, <1>7 DEF RtcWorld
<1>9. NotYet(w)
  <2>1. \A p \in Pair : w.phase[p] = IF p \in w.registered THEN "Signaling" ELSE "Disconnected"
    BY <1>5
  <2>2. /\ w.out[1] = <<>> /\ w.out[Server] = <<>> /\ w.hub[1] = <<>> /\ w.hub[Server] = <<>>
    BY <1>5, PairEnds
  <2> QED
    BY <1>5, <1>6, <2>1, <2>2, NoKinds DEF NotYet
<1>10. Handshake(w)
  BY <1>5, <1>9, PairEnds DEF Handshake
<1>11. \A p \in Pair : RtcWaiting(w, p) = <<>>
  BY <1>5, <1>8, NothingOnChannel
<1> QED
  BY <1>8, <1>10, <1>11

(* Nothing is on its way at first.                                          *)
LEMMA StartsEmpty ==
    ASSUME Init
    PROVE  /\ impl = "loopback" => world \in LoopbackWorld
           /\ impl = "hub" => world \in HubWorld
           /\ impl = "rtc" => RtcInv
           /\ \A d \in Direction : Waiting(d) = <<>> /\ Dropped(d) = 0
<1>1. impl \in {"loopback", "hub", "rtc"}
  BY TransportAssumption DEF Init
<1>2. CASE impl = "loopback"
  <2>1. PICK c \in Conditions : world = LoopbackInit(c)
    BY <1>2 DEF Init
  <2>2. PICK w : w = world
    OBVIOUS
  <2>3. w \in LoopbackWorld /\ \A p \in Pair : OnWay(w, p) = <<>> /\ w.dropped[p] = 0
    BY <2>1, <2>2, LoopbackStarts
  <2> QED
    BY <1>2, <2>2, <2>3, LoopWaits DEF LoopWaiting, LoopDropped
<1>3. CASE impl = "hub"
  <2>1. world = HubInit
    BY <1>3 DEF Init
  <2>2. <<>> \in Seq(Valid)
    BY EmptySequence
  <2>3. world \in HubWorld /\ \A p \in Peer : world.incoming[p] = <<>>
    BY <2>1, <2>2 DEF HubInit, HubWorld
  <2>4. ASSUME NEW d \in Direction PROVE HubQueue(world.incoming[d[2]], d) = <<>>
    <3>1. d[2] \in Peer
      BY DEF Direction, Peer
    <3>2. Len(<<>>) = 0
      BY EmptySequence
    <3>3. NoPlaces(<<>>, HubPlaces(<<>>, d))
      BY <3>2 DEF NoPlaces
    <3> QED
      BY <2>3, <3>1, <3>2, <3>3, ElementsNone, Zenon DEF HubQueue
  <2> QED
    BY <1>3, <2>3, <2>4, HubWaits
<1>4. CASE impl = "rtc"
  <2>1. world = RtcInit
    BY <1>4 DEF Init
  <2>2. PICK w : w = world
    OBVIOUS
  <2>3. w \in RtcWorld /\ Handshake(w) /\ \A p \in Pair : RtcWaiting(w, p) = <<>>
    BY <2>1, <2>2, RtcStarts
  <2> QED
    BY <1>4, <2>2, <2>3, RtcWaits DEF RtcInv, RtcWay
<1> QED
  BY <1>1, <1>2, <1>3, <1>4

(* The invariant holds at first.                                            *)
LEMMA InvHoldsFirst ==
    Init => TransportInv
<1> SUFFICES ASSUME Init PROVE TransportInv
  OBVIOUS
<1>1. /\ impl = "loopback" => world \in LoopbackWorld
      /\ impl = "hub" => world \in HubWorld
      /\ impl = "rtc" => RtcInv
      /\ \A d \in Direction : Waiting(d) = <<>> /\ Dropped(d) = 0
  BY StartsEmpty
<1>2. PICK none \in Seq(Valid) : none = <<>> /\ Len(none) = 0
  BY EmptySequence, Zenon
<1>3. \A d \in Direction : sent[d] = none /\ polled[d] = none
  BY <1>2 DEF Init
<1>4. /\ impl \in Implementation /\ script \in Script /\ closes \in 0..MaxCloses
      /\ sent \in [Direction -> Seq(Valid)]
  BY <1>2, TransportAssumption DEF Init
<1>5. ASSUME NEW d \in Direction PROVE SentSoFar(d)
  <2>1. script[d] \in Seq(Item)
    BY <1>4, ScriptAssumption
  <2>2. Len(script[d]) \in Nat
    BY <2>1
  <2>3. PICK s \in Seq(Valid) : s = sent[d] /\ Len(s) = 0
    BY <1>2, <1>3, Zenon
  <2>4. PICK l \in Nat : l = Len(script[d])
    BY <2>2
  <2>5. Len(s) =< l /\ \A k \in 1..Len(s) : FALSE
    BY <2>3
  <2> QED
    BY <2>3, <2>4, <2>5 DEF SentSoFar
<1>6. ASSUME NEW d \in Direction PROVE Arrived(d)
  <2>1. Seen(d) = none
    <3>1. none \o none = none
      BY <1>2, EmptyConcat
    <3> QED
      BY <1>1, <1>2, <1>3, <3>1 DEF Seen
  <2>2. Apart(none)
    BY <1>2 DEF Apart
  <2>3. Contents(none) \subseteq Contents(none) /\ Follows(none, none)
    BY <1>2, FollowsEmpty
  <2>4. Waiting(d) = none /\ Dropped(d) = 0 /\ sent[d] = none /\ polled[d] = none
    BY <1>1, <1>2, <1>3
  <2>5. Len(none) + 0 >= Len(none)
    BY <1>2
  <2>6. polled[d] \in Seq(Valid) /\ Waiting(d) \in Seq(Valid)
    BY <1>2, <2>4, Zenon
  <2>7. /\ Apart(Seen(d)) /\ Contents(Seen(d)) \subseteq Contents(sent[d])
        /\ Follows(Seen(d), sent[d])
    BY <2>1, <2>2, <2>3, <2>4, Zenon
  <2>8. Len(Seen(d)) + Dropped(d) >= Len(sent[d])
    BY <2>1, <2>4, <2>5, Zenon
  <2> QED
    BY <2>6, <2>7, <2>8, Zenon DEF Arrived
<1> QED
  BY <1>1, <1>4, <1>5, <1>6 DEF TransportInv, Common

(* What a step does, whatever the implementation.                           *)
LEMMA StepMoves ==
    ASSUME TransportInv, Next
    PROVE  /\ Frames /\ closes' \in 0..MaxCloses /\ sent' \in [Direction -> Seq(Valid)]
           /\ impl = "loopback" => world' \in LoopbackWorld
           /\ impl = "hub" => world' \in HubWorld
           /\ impl = "rtc" => RtcInv'
           /\ \A d \in Direction : Moves(d) /\ Dropped(d) \in Nat
<1>1. Common /\ impl \in {"loopback", "hub", "rtc"} /\ closes \in 0..MaxCloses /\ MaxCloses \in Nat
  BY TransportAssumption DEF TransportInv, Common
<1>2. Frames /\ closes' \in 0..MaxCloses
  <2>1. impl' = impl /\ script' = script
    BY Zenon DEF Next, Connect, Update, Close, Send, Poll, FlushDelayed, SetNetworkConditions
  <2>2. closes' = closes \/ (closes' = closes + 1 /\ closes < MaxCloses)
    BY Zenon DEF Next, Connect, Update, Close, Send, Poll, FlushDelayed, SetNetworkConditions
  <2> QED
    BY <1>1, <2>1, <2>2 DEF Frames
<1>3. CASE impl = "loopback"
  <2>1. world \in LoopbackWorld
    BY <1>3 DEF TransportInv
  <2>2. /\ world' \in LoopbackWorld /\ sent' \in [Direction -> Seq(Valid)]
        /\ \A d \in Direction : Moves(d)
    BY <1>1, <1>3, <2>1, LoopbackMoves
  <2>3. ASSUME NEW d \in Direction PROVE Dropped(d) \in Nat
    <3>1. \A p \in Pair : world.dropped[p] \in Nat
      BY <2>1, LoopbackTyped
    <3> QED
      BY <1>3, <3>1, LoopWaits DEF LoopDropped
  <2> QED
    BY <1>2, <1>3, <2>2, <2>3
<1>4. CASE impl = "hub"
  <2>1. world \in HubWorld
    BY <1>4 DEF TransportInv
  <2>2. /\ world' \in HubWorld /\ sent' \in [Direction -> Seq(Valid)]
        /\ \A d \in Direction : Moves(d)
    BY <1>1, <1>4, <2>1, HubMoves
  <2>3. \A d \in Direction : Dropped(d) \in Nat
    BY <1>4, HubWaits
  <2> QED
    BY <1>2, <1>4, <2>2, <2>3
<1>5. CASE impl = "rtc"
  <2>1. RtcInv
    BY <1>5 DEF TransportInv
  <2>2. /\ RtcInv' /\ sent' \in [Direction -> Seq(Valid)]
        /\ \A d \in Direction : Moves(d)
    BY <1>1, <1>5, <2>1, RtcMoves
  <2>3. \A d \in Direction : Dropped(d) \in Nat
    BY <1>5, RtcWaits
  <2> QED
    BY <1>2, <1>5, <2>2, <2>3
<1> QED
  BY <1>1, <1>3, <1>4, <1>5

(* And every step keeps it.                                                 *)
LEMMA InvHoldsNext ==
    TransportInv /\ [Next]_vars => TransportInv'
<1> SUFFICES ASSUME TransportInv, [Next]_vars PROVE TransportInv'
  OBVIOUS
<1>1. CASE Next
  <2>1. /\ Frames /\ closes' \in 0..MaxCloses /\ sent' \in [Direction -> Seq(Valid)]
        /\ impl = "loopback" => world' \in LoopbackWorld
        /\ impl = "hub" => world' \in HubWorld
        /\ impl = "rtc" => RtcInv'
        /\ \A d \in Direction : Moves(d) /\ Dropped(d) \in Nat
    BY <1>1, StepMoves
  <2>2. impl \in Implementation /\ script \in Script /\ \A d \in Direction : SentSoFar(d) /\ Arrived(d)
    BY DEF TransportInv, Common
  <2>3. ASSUME NEW d \in Direction PROVE SentSoFar(d)' /\ Arrived(d)'
    BY <2>1, <2>2, MoveKeeps
  <2>4. impl' = impl /\ script' = script
    BY <2>1 DEF Frames
  <2>5. Common'
    BY <2>1, <2>2, <2>3, <2>4 DEF Common
  <2> QED
    BY <2>1, <2>4, <2>5 DEF TransportInv
<1>2. CASE UNCHANGED vars
  <2>1. ASSUME NEW d \in Direction PROVE Waiting(d)' = Waiting(d) /\ Dropped(d)' = Dropped(d)
    BY <1>2 DEF vars, Waiting, Dropped, Peers, From
  <2>2. \A d \in Direction : SentSoFar(d)' /\ Arrived(d)'
    <3> TAKE d \in Direction
    <3>1. SentSoFar(d) /\ Arrived(d)
      BY DEF TransportInv, Common
    <3>2. SentSoFar(d)'
      BY <1>2, <3>1 DEF vars, SentSoFar
    <3>3. Arrived(d)'
      BY <1>2, <2>1, <3>1 DEF vars, Arrived, Seen, Counted
    <3> QED
      BY <3>2, <3>3
  <2>3. Common'
    BY <1>2, <2>2 DEF vars, TransportInv, Common
  <2> QED
    BY <1>2, <2>3 DEF vars, TransportInv, RtcInv
<1> QED
  BY <1>1, <1>2

(* So it holds always.                                                      *)
LEMMA TransportInvariant ==
    Spec => []TransportInv
  BY InvHoldsFirst, InvHoldsNext, PTL DEF Spec

(* What the invariant says of each property.                                *)
LEMMA InvTypes ==
    TransportInv => TypeOK
<1> SUFFICES ASSUME TransportInv PROVE TypeOK
  OBVIOUS
<1>1. /\ impl \in Implementation /\ script \in Script /\ closes \in 0..MaxCloses
      /\ \A d \in Direction : SentSoFar(d) /\ Arrived(d)
  BY DEF TransportInv, Common
<1>2. DOMAIN script = Direction
  BY <1>1, ScriptAssumption
<1>3. ASSUME NEW d \in Direction
      PROVE  Len(sent[d]) \in 0..Len(script[d]) /\ Waiting(d) \in Seq(EnvelopeType)
  <2>1. script[d] \in Seq(Item)
    BY <1>1, ScriptAssumption
  <2>2. Len(script[d]) \in Nat
    BY <2>1
  <2>3. sent[d] \in Seq(Valid) /\ Len(sent[d]) <= Len(script[d]) /\ Waiting(d) \in Seq(Valid)
    BY <1>1 DEF SentSoFar, Arrived
  <2>4. Len(sent[d]) \in Nat
    BY <2>3
  <2>5. Waiting(d) \in Seq(EnvelopeType)
    <3>1. Valid \subseteq EnvelopeType
      BY DEF Valid
    <3> QED
      BY <2>3, <3>1, WiderSeq
  <2> QED
    BY <2>2, <2>3, <2>4, <2>5
<1>4. ASSUME impl = "rtc"
      PROVE  /\ world.phase \in [Peers -> Phase]
             /\ \A p \in Peers \ world.registered : world.hub[p] = <<>>
  <2>1. world \in RtcWorld
    BY <1>4 DEF TransportInv, RtcInv
  <2>2. Peers = Pair
    BY <1>4 DEF Peers, Pair
  <2>3. world.phase \in [Pair -> Phase]
    BY <2>1 DEF RtcWorld, RtcRecord
  <2>4. \A p \in Pair : p \notin world.registered => world.hub[p] = <<>>
    BY <2>1, RtcTyped
  <2> QED
    BY <2>2, <2>3, <2>4
<1> QED
  BY <1>1, <1>2, <1>3, <1>4 DEF TypeOK

LEMMA InvValid ==
    TransportInv => QueuedEnvelopesAreValid
<1> SUFFICES ASSUME TransportInv, NEW d \in Direction, NEW i \in DOMAIN Waiting(d)
             PROVE  ValidateEnvelope(Waiting(d)[i])
  BY DEF QueuedEnvelopesAreValid
<1>1. PICK w \in Seq(Valid) : w = Waiting(d)
  BY DEF TransportInv, Common, Arrived
<1>2. w[i] \in Valid
  BY <1>1
<1> QED
  BY <1>1, <1>2 DEF Valid

(* Only a loopback counts what it drops.                                    *)
LEMMA DroppedTyped ==
    ASSUME TransportInv, NEW d \in Direction
    PROVE  Dropped(d) \in Nat
<1>1. impl \in {"loopback", "hub", "rtc"}
  BY TransportAssumption DEF TransportInv, Common
<1>2. CASE impl = "loopback"
  <2>1. world \in LoopbackWorld
    BY <1>2 DEF TransportInv
  <2>2. \A p \in Pair : world.dropped[p] \in Nat
    BY <2>1, LoopbackTyped
  <2> QED
    BY <1>2, <2>2, LoopWaits DEF LoopDropped
<1>3. CASE impl # "loopback"
  BY <1>3 DEF Dropped
<1> QED
  BY <1>2, <1>3

LEMMA InvArrives ==
    TransportInv => EveryFrameArrives
<1> SUFFICES ASSUME TransportInv, NEW d \in Direction
             PROVE  /\ Counted => Len(Seen(d)) >= Len(sent[d]) - Dropped(d)
                    /\ impl # "loopback" =>
                         \E place \in [DOMAIN Seen(d) -> DOMAIN sent[d]] :
                            /\ \A i \in DOMAIN Seen(d) :
                                  Content(sent[d][place[i]]) = Content(Seen(d)[i])
                            /\ \A i, j \in DOMAIN Seen(d) : i < j => place[i] < place[j]
  BY DEF EveryFrameArrives, Counted, Seen, Dropped
<1>1. SentSoFar(d) /\ Arrived(d)
  BY DEF TransportInv, Common
<1>2. ASSUME Counted PROVE Len(Seen(d)) >= Len(sent[d]) - Dropped(d)
  <2>1. Len(Seen(d)) + Dropped(d) >= Len(sent[d])
    BY <1>1, <1>2 DEF Arrived
  <2>2. PICK p \in Seq(Valid), w \in Seq(Valid) : p = polled[d] /\ w = Waiting(d)
    BY <1>1 DEF Arrived
  <2>3. p \o w \in Seq(Valid)
    BY ConcatInSeq
  <2>4. Len(Seen(d)) \in Nat
    BY <2>2, <2>3 DEF Seen
  <2>5. Len(sent[d]) \in Nat
    BY <1>1 DEF SentSoFar
  <2>6. Dropped(d) \in Nat
    BY DroppedTyped
  <2> QED
    BY <2>1, <2>4, <2>5, <2>6
<1>3. ASSUME impl # "loopback"
      PROVE  \E place \in [DOMAIN Seen(d) -> DOMAIN sent[d]] :
                /\ \A i \in DOMAIN Seen(d) :
                      Content(sent[d][place[i]]) = Content(Seen(d)[i])
                /\ \A i, j \in DOMAIN Seen(d) : i < j => place[i] < place[j]
  <2>1. Follows(Seen(d), sent[d])
    BY <1>1, <1>3 DEF Arrived
  <2> QED
    BY <2>1, Zenon DEF Follows, Matches
<1> QED
  BY <1>2, <1>3

(* The refinement: an initial state maps to one of LossyChannel.            *)
LEMMA ChannelStarts ==
    Init => Channel!Init
<1> SUFFICES ASSUME Init PROVE Channel!Init
  OBVIOUS
<1>1. \A d \in Direction : Waiting(d) = <<>> /\ sent[d] = <<>> /\ polled[d] = <<>>
  BY StartsEmpty, Zenon DEF Init
<1>2. Contents(<<>>) = {}
  BY ContentsEmpty
<1> QED
  BY <1>1, <1>2 DEF Channel!Init

(* And a step maps to one, or to a stutter.                                 *)
LEMMA ChannelSteps ==
    TransportInv /\ [Next]_vars => [Channel!Next]_(Channel!vars)
<1> SUFFICES ASSUME TransportInv, [Next]_vars PROVE [Channel!Next]_(Channel!vars)
  OBVIOUS
<1>1. CASE Next
  <2>1. Frames /\ \A d \in Direction : Moves(d)
    BY <1>1, StepMoves
  <2>2. script \in Script /\ \A d \in Direction : SentSoFar(d) /\ Arrived(d)
    BY DEF TransportInv, Common
  <2>3. Channel!Next
    BY <2>1, <2>2, MovesRefine
  <2> QED
    BY <2>3
<1>2. CASE UNCHANGED vars
  <2>1. \A d \in Direction : Waiting(d)' = Waiting(d)
    BY <1>2 DEF vars, Waiting, Peers, From
  <2>2. sent' = sent /\ polled' = polled
    BY <1>2 DEF vars
  <2>3. UNCHANGED Channel!vars
    BY <2>1, <2>2 DEF Channel!vars
  <2> QED
    BY <2>3
<1> QED
  BY <1>1, <1>2

(* Type correctness of every transport: whatever the calls, the queues hold *)
(* envelopes, Sends accept no more than the script has, and the signaling   *)
(* hub of RtcSignalingClient.cpp holds signals only for the peers registered*)
(* with it.                                                                 *)
THEOREM TransportTypeCorrect == Spec => []TypeOK
  BY TransportInvariant, InvTypes, PTL

(* Every queue of every transport holds only envelopes that pass            *)
(* ValidateEnvelope: each Send has checked them, and ReceiveFrame decodes   *)
(* them as they were.  So a Poll returns nothing only when its queue is     *)
(* empty.                                                                   *)
THEOREM QueuesHoldValid == Spec => []QueuedEnvelopesAreValid
  BY TransportInvariant, InvValid, PTL

(* No accepted envelope is missing from what was polled and what is on its  *)
(* way, but for those a loopback's conditions drop and those a client of the*)
(* data channel closed over; hub and data channel keep the order.  In       *)
(* particular a frame that the server's end sends before the client's end is*)
(* connected is not lost: the client finds the server's DataChannelReady in *)
(* the hub before it looks at its channel.                                  *)
THEOREM FramesArrive == Spec => []EveryFrameArrives
  BY TransportInvariant, InvArrives, PTL

(* Each of LoopbackTransport, MultiClientLoopbackTransport and              *)
(* KcpRtcPumpedTransport implements the lossy channel: under any order of   *)
(* calls an envelope arrives at most once, as it was sent and at the peer it*)
(* was sent to.                                                             *)
THEOREM ChannelImplemented == Spec => ImplementsLossyChannel
  BY TransportInvariant, ChannelStarts, ChannelSteps, PTL
     DEF Spec, ImplementsLossyChannel, Channel!Spec
=============================================================================
