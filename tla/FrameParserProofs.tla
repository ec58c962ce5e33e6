-------------------------- MODULE FrameParserProofs --------------------------
(***************************************************************************)
(* The parser keeps to its buffer, checks all of what it hands over,       *)
(* delivers what arrives whole and finds its way back after noise, for     *)
(* every size of the buffer, every set of frames and any number of faults. *)
(***************************************************************************)
EXTENDS FrameParser, SequenceTheorems, WellFoundedInduction, TLAPS

-----------------------------------------------------------------------------
(* The CRC stays a number of sixteen bits. *)

Even(n) == \E half \in Nat : n = 2 * half

LEMMA BitType ==
    ASSUME NEW n \in Nat, NEW place \in Nat \ {0}
    PROVE  Bit(n, place) \in {0, 1}
<1>1. n \div place \in Int
  OBVIOUS
<1> DEFINE q == n \div place
<1> HIDE DEF q
<1>2. ASSUME NEW m \in Int
      PROVE  m % 2 \in {0, 1}
  OBVIOUS
<1>3. q % 2 \in {0, 1}
  BY <1>1, <1>2 DEF q
<1> QED
  BY <1>3 DEF q, Bit

LEMMA Flipped4096 ==
    ASSUME NEW n \in Crcs, Even(n)
    PROVE  Flipped(n, 4096) \in Crcs /\ Even(Flipped(n, 4096))
<1> DEFINE q == n \div 4096
<1>1. /\ q \in Nat /\ q <= 15
      /\ 4096 * q <= n /\ n < 4096 * q + 4096
  BY DEF Crcs
<1>2. PICK half \in Nat : n = 2 * half
  BY DEF Even
<1>3. CASE Bit(n, 4096) = 1
  <2>1. q # 0
    BY <1>3 DEF Bit
  <2>2. n - 4096 = 2 * (half - 2048) /\ half - 2048 \in Nat
    <3> HIDE DEF q
    <3> QED
      BY <1>1, <1>2, <2>1
  <2>3. n - 4096 \in Crcs
    <3> HIDE DEF q
    <3> QED
      BY <2>2 DEF Crcs
  <2>4. Flipped(n, 4096) = n - 4096
    BY <1>3 DEF Flipped
  <2>5. Even(n - 4096)
    BY <2>2 DEF Even
  <2> QED
    BY <2>3, <2>4, <2>5
<1>4. CASE Bit(n, 4096) # 1
  <2>1. q # 15
    BY <1>4 DEF Bit
  <2>2. n + 4096 \in Crcs
    <3> HIDE DEF q
    <3> QED
      BY <1>1, <2>1 DEF Crcs
  <2>3. n + 4096 = 2 * (half + 2048) /\ half + 2048 \in Nat
    BY <1>2
  <2>4. Flipped(n, 4096) = n + 4096
    BY <1>4 DEF Flipped
  <2>5. Even(n + 4096)
    BY <2>3 DEF Even
  <2> QED
    BY <2>2, <2>4, <2>5
<1> QED
  BY <1>3, <1>4

LEMMA Flipped32 ==
    ASSUME NEW n \in Crcs, Even(n)
    PROVE  Flipped(n, 32) \in Crcs /\ Even(Flipped(n, 32))
<1> DEFINE q == n \div 32
<1>1. /\ q \in Nat /\ q <= 2047
      /\ 32 * q <= n /\ n < 32 * q + 32
  BY DEF Crcs
<1>2. PICK half \in Nat : n = 2 * half
  BY DEF Even
<1>3. CASE Bit(n, 32) = 1
  <2>1. q # 0
    BY <1>3 DEF Bit
  <2>2. n - 32 = 2 * (half - 16) /\ half - 16 \in Nat
    <3> HIDE DEF q
    <3> QED
      BY <1>1, <1>2, <2>1
  <2>3. n - 32 \in Crcs
    <3> HIDE DEF q
    <3> QED
      BY <2>2 DEF Crcs
  <2>4. Flipped(n, 32) = n - 32
    BY <1>3 DEF Flipped
  <2>5. Even(n - 32)
    BY <2>2 DEF Even
  <2> QED
    BY <2>3, <2>4, <2>5
<1>4. CASE Bit(n, 32) # 1
  <2>1. q # 2047
    BY <1>4 DEF Bit
  <2>2. n + 32 \in Crcs
    <3> HIDE DEF q
    <3> QED
      BY <1>1, <2>1 DEF Crcs
  <2>3. n + 32 = 2 * (half + 16) /\ half + 16 \in Nat
    BY <1>2
  <2>4. Flipped(n, 32) = n + 32
    BY <1>4 DEF Flipped
  <2>5. Even(n + 32)
    BY <2>3 DEF Even
  <2> QED
    BY <2>2, <2>4, <2>5
<1> QED
  BY <1>3, <1>4

LEMMA ShiftedType ==
    ASSUME NEW c \in Crcs, NEW bit \in {0, 1}
    PROVE  Shifted(c, bit) \in Crcs
<1> DEFINE n == (2 * c) % 65536
<1>1. n \in Crcs
  BY DEF Crcs
<1>2. Even(n)
  <2>1. c \in Nat /\ c <= 65535
    BY DEF Crcs
  <2>2. CASE c < 32768
    <3>1. n = 2 * c
      BY <2>1, <2>2
    <3> QED
      BY <2>1, <3>1 DEF Even
  <2>3. CASE c >= 32768
    <3>1. n = 2 * (c - 32768) /\ c - 32768 \in Nat
      BY <2>1, <2>3
    <3> QED
      BY <3>1 DEF Even
  <2> QED
    BY <2>1, <2>2, <2>3
<1> HIDE DEF n
<1>3. Flipped(n, 4096) \in Crcs /\ Even(Flipped(n, 4096))
  BY <1>1, <1>2, Flipped4096
<1>4. /\ Flipped(Flipped(n, 4096), 32) \in Crcs
      /\ Even(Flipped(Flipped(n, 4096), 32))
  BY <1>3, Flipped32
<1>5. ASSUME NEW m \in Crcs, Even(m)
      PROVE  m + 1 \in Crcs
  BY <1>5 DEF Crcs, Even
<1>6. Flipped(Flipped(n, 4096), 32) + 1 \in Crcs
  BY <1>4, <1>5
<1> QED
  BY <1>1, <1>6 DEF Shifted, n

LEMMA UpdateType ==
    ASSUME NEW c \in Crcs, NEW byte \in Byte
    PROVE  Crc16Update(c, byte) \in Crcs
<1>1. ASSUME NEW d \in Crcs, NEW place \in {1, 2, 4, 8, 16, 32, 64, 128}
      PROVE  Shifted(d, Bit(byte, place)) \in Crcs
  BY BitType, ShiftedType, Byte \subseteq Nat DEF Byte
<1>2. Shifted(c, Bit(byte, 128)) \in Crcs
  BY <1>1
<1> DEFINE c1 == Shifted(c, Bit(byte, 128))
           c2 == Shifted(c1, Bit(byte, 64))
           c3 == Shifted(c2, Bit(byte, 32))
           c4 == Shifted(c3, Bit(byte, 16))
           c5 == Shifted(c4, Bit(byte, 8))
           c6 == Shifted(c5, Bit(byte, 4))
           c7 == Shifted(c6, Bit(byte, 2))
           c8 == Shifted(c7, Bit(byte, 1))
<1>3. c1 \in Crcs
  BY <1>1
<1>4. c2 \in Crcs
  BY <1>1, <1>3
<1>5. c3 \in Crcs
  BY <1>1, <1>4
<1>6. c4 \in Crcs
  BY <1>1, <1>5
<1>7. c5 \in Crcs
  BY <1>1, <1>6
<1>8. c6 \in Crcs
  BY <1>1, <1>7
<1>9. c7 \in Crcs
  BY <1>1, <1>8
<1>10. c8 \in Crcs
  BY <1>1, <1>9
<1>11. Crc16Update(c, byte) = c8
  BY DEF Crc16Update
<1> QED
  BY <1>10, <1>11

-----------------------------------------------------------------------------
(* The checksum of a sequence of bytes *)

(***************************************************************************)
(* What Crc16Steps says of a checksum, without the recursion.              *)
(***************************************************************************)
IsSteps(f, n, bytes) ==
    f = [k \in 0 .. n |-> IF k = 0 THEN CRC16_INIT ELSE Crc16Update(f[k - 1], bytes[k])]

(***************************************************************************)
(* A nonempty set of numbers has a least one.                              *)
(***************************************************************************)
LEMMA HasLeast ==
    ASSUME NEW S, S \subseteq Nat, S # {}
    PROVE  \E x \in S : \A y \in S : x <= y
<1>1. IsWellFoundedOn(OpToRel(<, Nat), Nat)
  BY NatLessThanWellFounded, Zenon
<1>2. PICK x \in S : \A y \in S : ~(<<y, x>> \in OpToRel(<, Nat))
  BY <1>1, WFMin, Zenon
<1>3. ASSUME NEW y \in S PROVE x <= y
  <2>1. x \in Nat /\ y \in Nat
    OBVIOUS
  <2>2. y < x => <<y, x>> \in OpToRel(<, Nat)
    BY <2>1, Zenon DEF OpToRel
  <2>3. ~(y < x)
    BY <1>2, <2>2, Zenon
  <2> QED
    BY <2>1, <2>3
<1> QED
  BY <1>3

LEMMA StepsExist ==
    ASSUME NEW bytes, NEW n \in Nat
    PROVE  \E f : IsSteps(f, n, bytes)
<1> DEFINE S == {m \in Nat : ~ \E f : IsSteps(f, m, bytes)}
<1>1. ASSUME S # {} PROVE FALSE
  <2>1. PICK m \in S : \A k \in S : m <= k
    BY <1>1, HasLeast
  <2>2. m # 0
    <3> DEFINE g == [k \in 0 .. 0 |-> CRC16_INIT]
    <3>1. IsSteps(g, 0, bytes)
      BY DEF IsSteps
    <3> QED
      BY <3>1
  <2>3. m \in Nat /\ m - 1 \in Nat /\ m - 1 \notin S
    BY <2>1, <2>2
  <2>4. PICK f : IsSteps(f, m - 1, bytes)
    BY <2>3
  <2> DEFINE g == [k \in 0 .. m |-> IF k = m THEN Crc16Update(f[m - 1], bytes[m]) ELSE f[k]]
  <2>5. \A k \in 0 .. m - 1 : f[k] = IF k = 0 THEN CRC16_INIT ELSE Crc16Update(f[k - 1], bytes[k])
    BY <2>3, <2>4 DEF IsSteps
  <2>6. ASSUME NEW k \in 0 .. m
        PROVE  g[k] = IF k = 0 THEN CRC16_INIT ELSE Crc16Update(g[k - 1], bytes[k])
    <3>1. CASE k = m
      BY <3>1, <2>2, <2>3
    <3>2. CASE k # m
      <4>1. k \in 0 .. m - 1 /\ g[k] = f[k]
        BY <3>2, <2>3
      <4>2. k # 0 => g[k - 1] = f[k - 1]
        BY <3>2, <2>3
      <4> HIDE DEF g
      <4> QED
        BY <4>1, <4>2, <2>5
    <3> QED
      BY <3>1, <3>2
  <2>7. IsSteps(g, m, bytes)
    <3>1. g = [k \in 0 .. m |-> g[k]]
      OBVIOUS
    <3> HIDE DEF g
    <3> QED
      BY <2>6, <3>1 DEF IsSteps
  <2> QED
    BY <2>1, <2>7
<1> QED
  BY <1>1

(***************************************************************************)
(* The checksum starts at CRC16_INIT and takes one byte after the other.   *)
(***************************************************************************)
LEMMA StepsOfCrc ==
    ASSUME NEW bytes \in Seq(Byte)
    PROVE  /\ Crc16Steps(bytes)[0] = CRC16_INIT
           /\ \A n \in 1 .. Len(bytes) :
                Crc16Steps(bytes)[n] = Crc16Update(Crc16Steps(bytes)[n - 1], bytes[n])
<1>1. Len(bytes) \in Nat
  OBVIOUS
<1>2. \E f : IsSteps(f, Len(bytes), bytes)
  BY <1>1, StepsExist
<1>3. IsSteps(Crc16Steps(bytes), Len(bytes), bytes)
  BY <1>2 DEF IsSteps, Crc16Steps
<1> DEFINE f == Crc16Steps(bytes)
<1>4. f = [k \in 0 .. Len(bytes) |->
              IF k = 0 THEN CRC16_INIT ELSE Crc16Update(f[k - 1], bytes[k])]
  BY <1>3 DEF IsSteps
<1> HIDE DEF f
<1>5. f[0] = CRC16_INIT
  BY <1>1, <1>4
<1>6. ASSUME NEW n \in 1 .. Len(bytes) PROVE f[n] = Crc16Update(f[n - 1], bytes[n])
  <2>1. n \in 0 .. Len(bytes) /\ n # 0
    BY <1>1
  <2> QED
    BY <1>4, <2>1
<1> QED
  BY <1>5, <1>6 DEF f

(***************************************************************************)
(* A checksum has sixteen bits.                                            *)
(***************************************************************************)
LEMMA CrcType ==
    ASSUME NEW bytes \in Seq(Byte)
    PROVE  /\ \A n \in 0 .. Len(bytes) : Crc16Steps(bytes)[n] \in Crcs
           /\ Crc16Of(bytes) \in Crcs
<1> DEFINE f == Crc16Steps(bytes)
           S == {n \in 0 .. Len(bytes) : f[n] \notin Crcs}
<1>1. Len(bytes) \in Nat /\ \A n \in 1 .. Len(bytes) : bytes[n] \in Byte
  OBVIOUS
<1>2. f[0] \in Crcs
  BY StepsOfCrc DEF CRC16_INIT, Crcs
<1>3. \A n \in 1 .. Len(bytes) : f[n] = Crc16Update(f[n - 1], bytes[n])
  BY StepsOfCrc
<1> HIDE DEF f
<1>4. ASSUME S # {} PROVE FALSE
  <2>1. S \subseteq Nat
    BY <1>1
  <2>2. PICK n \in S : \A m \in S : n <= m
    <3> HIDE DEF S
    <3> QED
      BY <2>1, <1>4, HasLeast
  <2>3. n \in 1 .. Len(bytes) /\ n - 1 \in 0 .. Len(bytes) /\ n - 1 \notin S
    BY <1>1, <1>2, <2>2
  <2>4. f[n - 1] \in Crcs
    BY <2>3
  <2>5. f[n] \in Crcs
    BY <1>1, <1>3, <2>3, <2>4, UpdateType
  <2> QED
    BY <2>2, <2>5
<1>5. \A n \in 0 .. Len(bytes) : f[n] \in Crcs
  BY <1>4
<1> QED
  BY <1>1, <1>5 DEF f, Crc16Of

-----------------------------------------------------------------------------
(* The parser *)

(***************************************************************************)
(* What holds between two bytes.  The bound of the buffer is not inductive *)
(* by itself: that a payload is started at all depends on the header being *)
(* three bytes long, and on the test of its length when the last of them   *)
(* is taken.                                                               *)
(***************************************************************************)
InBounds(p) ==
    /\ p \in Parsers
    /\ p.state = "HEADER" => p.header_pos < RESP_HEADER_LEN
    /\ p.state = "PAYLOAD" => Len(p.payload) < p.len /\ p.len <= MaxRxPayload

IInv ==
    /\ TypeOK
    /\ InBounds(parser)

LEMMA LittleType ==
    ASSUME NEW field \in Crcs, NEW byte \in Byte
    PROVE  Little(field, byte) \in Crcs
<1>1. field % 256 \in Nat /\ field % 256 < 256
  BY DEF Crcs
<1> QED
  BY <1>1 DEF Little, Crcs, Byte

LEMMA ByteIsCrc == Byte \subseteq Crcs
BY DEF Byte, Crcs

LEMMA TypedInBounds ==
    ASSUME NEW p, InBounds(p), NEW byte \in Byte
    PROVE  InBounds(Typed(p, byte))
<1>1. CRC16_INIT \in Crcs
  BY DEF CRC16_INIT, Crcs
<1>2. Crc16Update(CRC16_INIT, byte) \in Crcs
  BY <1>1, UpdateType
<1>3. CASE byte = SYNC_BYTE
  BY <1>3 DEF Typed, FrameTypes, SYNC_BYTE, FRAME_NOTIFY, FRAME_SET_RESP, FRAME_GET_RESP
<1>4. CASE byte # SYNC_BYTE /\ byte \in FrameTypes
  <2>1. Typed(p, byte) = [p EXCEPT !.state = "HEADER", !.type = byte,
                                   !.crc = Crc16Update(CRC16_INIT, byte), !.header_pos = 0]
    BY <1>4 DEF Typed
  <2>2. Typed(p, byte) \in Parsers
    <3>1. p \in Parsers /\ "HEADER" \in States /\ 0 \in 0 .. RESP_HEADER_LEN
      BY DEF InBounds, States, RESP_HEADER_LEN
    <3> QED
      BY <3>1, <2>1, <1>2 DEF Parsers
  <2>3. Typed(p, byte).state = "HEADER" /\ Typed(p, byte).header_pos = 0
    BY <2>1 DEF InBounds, Parsers
  <2> QED
    BY <2>2, <2>3 DEF InBounds, RESP_HEADER_LEN
<1>5. CASE byte # SYNC_BYTE /\ byte \notin FrameTypes
  <2>1. Typed(p, byte) = [p EXCEPT !.state = "SYNC"]
    BY <1>5 DEF Typed
  <2> QED
    BY <2>1 DEF InBounds, Parsers, States
<1> QED
  BY <1>3, <1>4, <1>5

LEMMA HeadedInBounds ==
    ASSUME NEW p, InBounds(p), p.state = "HEADER", NEW byte \in Byte
    PROVE  InBounds(Headed(p, byte))
<1> DEFINE taken == HeaderTaken(p, byte)
           field == HeaderField(p, byte)
<1>1. Crc16Update(p.crc, byte) \in Crcs
  BY UpdateType DEF InBounds, Parsers
<1>2. Little(p.len, byte) \in Crcs /\ byte \in Crcs
  BY LittleType, ByteIsCrc DEF InBounds, Parsers
<1>3. p.header_pos \in Nat /\ p.header_pos < 3
  BY DEF InBounds, Parsers, RESP_HEADER_LEN
<1>4. field \in Parsers /\ field.state = "HEADER"
  BY <1>2 DEF HeaderField, InBounds, Parsers
<1>5. /\ taken \in Parsers /\ taken.state = "HEADER"
      /\ taken.header_pos = p.header_pos + 1
  <2> HIDE DEF field
  <2>1. taken = [field EXCEPT !.crc = Crc16Update(p.crc, byte),
                              !.header_pos = p.header_pos + 1]
    BY DEF HeaderTaken, field
  <2>2. p.header_pos + 1 \in 0 .. RESP_HEADER_LEN
    BY <1>3 DEF RESP_HEADER_LEN
  <2> QED
    BY <1>1, <2>2, <1>4, <2>1 DEF Parsers
<1> HIDE DEF taken
<1>6. CASE ~LastOfHeader(p)
  <2>1. Headed(p, byte) = taken
    BY <1>6 DEF Headed, taken
  <2> QED
    BY <1>3, <1>5, <1>6, <2>1 DEF InBounds, LastOfHeader, RESP_HEADER_LEN
<1>7. CASE LastOfHeader(p) /\ Oversize(taken.len)
  <2>1. Headed(p, byte) = [taken EXCEPT !.state = "SYNC"]
    BY <1>7 DEF Headed, taken
  <2> QED
    BY <1>5, <2>1 DEF InBounds, Parsers, States
<1>8. CASE LastOfHeader(p) /\ ~Oversize(taken.len)
  <2>1. Headed(p, byte) =
            [taken EXCEPT !.payload = <<>>,
                          !.state = IF taken.len = 0 THEN "CRC_LO" ELSE "PAYLOAD"]
    BY <1>8 DEF Headed, taken
  <2>2. taken.len \in Nat
    BY <1>5 DEF Parsers, Crcs
  <2>3. taken.len = 0 \/ (0 < taken.len /\ taken.len <= MaxRxPayload)
    BY <1>8, <2>2, ParserAssumption DEF Oversize, Crcs
  <2>4. <<>> \in Seq(Byte) /\ Len(<<>>) = 0
    OBVIOUS
  <2> QED
    BY <1>5, <2>1, <2>3, <2>4 DEF InBounds, Parsers, States
<1> QED
  BY <1>6, <1>7, <1>8

LEMMA FilledInBounds ==
    ASSUME NEW p, InBounds(p), p.state = "PAYLOAD", NEW byte \in Byte
    PROVE  InBounds(Filled(p, byte))
<1>1. Crc16Update(p.crc, byte) \in Crcs
  BY UpdateType DEF InBounds, Parsers
<1>2. /\ Append(p.payload, byte) \in Seq(Byte)
      /\ Len(Append(p.payload, byte)) = Len(p.payload) + 1
      /\ Len(p.payload) \in Nat
  BY DEF InBounds, Parsers
<1>3. p.len \in Nat /\ p.len <= MaxRxPayload
  BY DEF InBounds, Parsers, Crcs
<1>4. CASE Len(p.payload) + 1 >= p.len
  <2>1. Filled(p, byte) =
            [p EXCEPT !.crc = Crc16Update(p.crc, byte),
                      !.payload = Append(p.payload, byte), !.state = "CRC_LO"]
    BY <1>4 DEF Filled
  <2> QED
    BY <1>1, <1>2, <2>1 DEF InBounds, Parsers, States
<1>5. CASE ~(Len(p.payload) + 1 >= p.len)
  <2>1. Filled(p, byte) =
            [p EXCEPT !.crc = Crc16Update(p.crc, byte),
                      !.payload = Append(p.payload, byte), !.state = "PAYLOAD"]
    BY <1>5 DEF Filled
  <2>2. Filled(p, byte) \in Parsers
    BY <1>1, <1>2, <2>1 DEF InBounds, Parsers, States
  <2>3. /\ Filled(p, byte).state = "PAYLOAD" /\ Filled(p, byte).len = p.len
        /\ Filled(p, byte).payload = Append(p.payload, byte)
    BY <2>1 DEF InBounds, Parsers
  <2>4. Len(p.payload) + 1 < p.len
    BY <1>2, <1>3, <1>5
  <2> QED
    BY <1>2, <1>3, <2>2, <2>3, <2>4 DEF InBounds
<1> QED
  BY <1>4, <1>5

LEMMA FeedInBounds ==
    ASSUME NEW p, InBounds(p), NEW byte \in Byte
    PROVE  InBounds(Feed(p, byte)) /\ FedResult(p, byte) \in Results
<1>1. FedResult(p, byte) \in Results
  BY DEF FedResult, Results
<1> SUFFICES InBounds(Feed(p, byte))
  BY <1>1
<1>2. CASE p.state = "SYNC"
  BY <1>2 DEF Feed, Hunted, InBounds, Parsers, States
<1>3. CASE p.state = "TYPE"
  BY <1>3, TypedInBounds DEF Feed
<1>4. CASE p.state = "HEADER"
  BY <1>4, HeadedInBounds DEF Feed
<1>5. CASE p.state = "PAYLOAD"
  BY <1>5, FilledInBounds DEF Feed
<1>6. CASE p.state = "CRC_LO"
  <2>1. Feed(p, byte) = [p EXCEPT !.rx_crc = byte, !.state = "CRC_HI"]
    BY <1>6 DEF Feed
  <2> QED
    BY <2>1, ByteIsCrc DEF InBounds, Parsers, States
<1>7. CASE p.state = "CRC_HI"
  <2>1. Feed(p, byte) = [p EXCEPT !.rx_crc = Little(p.rx_crc, byte), !.state = "SYNC"]
    BY <1>7 DEF Feed, Checked
  <2>2. Little(p.rx_crc, byte) \in Crcs
    BY LittleType DEF InBounds, Parsers
  <2> QED
    BY <2>1, <2>2 DEF InBounds, Parsers, States
<1>8. p.state \in States
  BY DEF InBounds, Parsers
<1> QED
  BY <1>1, <1>2, <1>3, <1>4, <1>5, <1>6, <1>7, <1>8 DEF States

(***************************************************************************)
(* The checksum can be taken as the bytes arrive, as feed() does.          *)
(***************************************************************************)
LEMMA CrcAppend ==
    ASSUME NEW bytes \in Seq(Byte), NEW byte \in Byte
    PROVE  Crc16Of(Append(bytes, byte)) = Crc16Update(Crc16Of(bytes), byte)
<1> DEFINE all == Append(bytes, byte)
           f == Crc16Steps(bytes)
           g == Crc16Steps(all)
           n == Len(bytes)
           S == {k \in 0 .. n : g[k] # f[k]}
<1>1. /\ n \in Nat /\ all \in Seq(Byte) /\ Len(all) = n + 1
      /\ all[n + 1] = byte /\ \A k \in 1 .. n : all[k] = bytes[k]
  OBVIOUS
<1> HIDE DEF all
<1>2. /\ f[0] = CRC16_INIT /\ g[0] = CRC16_INIT
      /\ \A k \in 1 .. n : f[k] = Crc16Update(f[k - 1], bytes[k])
      /\ \A k \in 1 .. n + 1 : g[k] = Crc16Update(g[k - 1], all[k])
  BY <1>1, StepsOfCrc
<1> HIDE DEF f, g, n
<1>3. ASSUME S # {} PROVE FALSE
  <2>1. S \subseteq Nat
    BY <1>1
  <2>2. PICK k \in S : \A m \in S : k <= m
    <3> HIDE DEF S
    <3> QED
      BY <2>1, <1>3, HasLeast
  <2>3. k \in 1 .. n /\ k \in 1 .. n + 1 /\ k - 1 \in 0 .. n /\ k - 1 \notin S
    BY <1>1, <1>2, <2>2
  <2>4. g[k - 1] = f[k - 1]
    BY <2>3
  <2>5. g[k] = f[k]
    BY <1>1, <1>2, <2>3, <2>4
  <2> QED
    BY <2>2, <2>5
<1>4. n \in 0 .. n /\ n + 1 \in 1 .. n + 1 /\ (n + 1) - 1 = n
  BY <1>1
<1>5. g[n] = f[n]
  BY <1>3, <1>4
<1>6. g[n + 1] = Crc16Update(f[n], byte)
  BY <1>1, <1>2, <1>4, <1>5
<1> QED
  BY <1>1, <1>6 DEF Crc16Of, f, g, n, all

LEMMA CrcOfOne ==
    ASSUME NEW byte \in Byte
    PROVE  Crc16Of(<<byte>>) = Crc16Update(CRC16_INIT, byte)
<1> DEFINE one == <<byte>>
<1>1. one \in Seq(Byte)
  OBVIOUS
<1>2. Len(one) = 1 /\ one[1] = byte
  OBVIOUS
<1> HIDE DEF one
<1>3. Crc16Steps(one)[0] = CRC16_INIT /\ Crc16Steps(one)[1] = Crc16Update(Crc16Steps(one)[0], one[1])
  BY <1>1, <1>2, StepsOfCrc
<1>4. Crc16Of(one) = Crc16Update(CRC16_INIT, byte)
  BY <1>2, <1>3 DEF Crc16Of
<1> QED
  BY <1>4 DEF one

-----------------------------------------------------------------------------
(* Frames *)

\* What a frame can be.
Contents == [type : Byte, status : Byte, payload : Seq(Byte)]

(***************************************************************************)
(* A byte holds one half of a number of sixteen bits, and the two make it. *)
(***************************************************************************)
LEMMA Halves ==
    ASSUME NEW n \in Crcs
    PROVE  /\ n % 256 \in Byte /\ n \div 256 \in Byte
           /\ Little(n % 256, n \div 256) = n
<1>1. n \in Nat /\ n < 65536
  BY DEF Crcs
<1> DEFINE q == n \div 256
           r == n % 256
<1>2. q \in Nat /\ r \in Nat /\ r < 256 /\ n = 256 * q + r
  BY <1>1
<1>3. r % 256 = r
  <2> HIDE DEF r
  <2> QED
    BY <1>2
<1> HIDE DEF q, r
<1>4. q < 256
  BY <1>1, <1>2
<1> QED
  BY <1>2, <1>3, <1>4 DEF Byte, Little, q, r

(***************************************************************************)
(* A frame on the wire: a sync byte, four bytes and the payload, which the *)
(* checksum covers, and the checksum (build_request_frame()'s counterpart, *)
(* as feed() reads it).                                                    *)
(***************************************************************************)
LEMMA CoveredShape ==
    ASSUME NEW c \in Contents, Len(c.payload) \in Crcs
    PROVE  /\ Covered(c) \in Seq(Byte)
           /\ Len(Covered(c)) = 4 + Len(c.payload)
           /\ Covered(c)[1] = c.type /\ Covered(c)[2] = c.status
           /\ Covered(c)[3] = Len(c.payload) % 256
           /\ Covered(c)[4] = Len(c.payload) \div 256
           /\ \A i \in 1 .. Len(c.payload) : Covered(c)[4 + i] = c.payload[i]
<1> DEFINE lo == Len(c.payload) % 256
           hi == Len(c.payload) \div 256
           head == <<c.type, c.status, lo, hi>>
<1>1. lo \in Byte /\ hi \in Byte /\ c.type \in Byte /\ c.status \in Byte
  BY Halves DEF Contents
<1>2. c.payload \in Seq(Byte) /\ Len(c.payload) \in Nat
  BY DEF Contents
<1> HIDE DEF lo, hi
<1>3. /\ head \in Seq(Byte) /\ Len(head) = 4
      /\ head[1] = c.type /\ head[2] = c.status /\ head[3] = lo /\ head[4] = hi
  BY <1>1
<1>4. Covered(c) = head \o c.payload
  BY DEF Covered, lo, hi
<1> HIDE DEF head
<1> DEFINE pl == c.payload
           all == head \o pl
           n == Len(pl)
<1>5. n \in Nat /\ pl \in Seq(Byte)
  BY <1>2
<1> HIDE DEF pl
<1>6. /\ all \in Seq(Byte)
      /\ Len(all) = Len(head) + Len(pl)
      /\ \A i \in 1 .. Len(head) + Len(pl) :
           all[i] = IF i <= Len(head) THEN head[i] ELSE pl[i - Len(head)]
  BY <1>3, <1>5, ConcatProperties
<1> HIDE DEF all, n
<1>7. /\ Len(all) = 4 + n
      /\ \A i \in 1 .. 4 + n : all[i] = IF i <= 4 THEN head[i] ELSE pl[i - 4]
  BY <1>3, <1>6 DEF n
<1>8. ASSUME NEW i \in 1 .. n PROVE all[4 + i] = pl[i]
  <2>1. 4 + i \in 1 .. 4 + n /\ ~(4 + i <= 4) /\ (4 + i) - 4 = i
    BY <1>5
  <2> QED
    BY <1>7, <2>1
<1>9. /\ 1 \in 1 .. 4 + n /\ 2 \in 1 .. 4 + n /\ 3 \in 1 .. 4 + n /\ 4 \in 1 .. 4 + n
  BY <1>5
<1>10. all[1] = head[1] /\ all[2] = head[2] /\ all[3] = head[3] /\ all[4] = head[4]
  BY <1>7, <1>9
<1>11. Covered(c) = all
  BY <1>4 DEF all, pl
<1> QED
  BY <1>3, <1>6, <1>7, <1>8, <1>10, <1>11 DEF lo, hi, n, pl

LEMMA LittleHalves ==
    ASSUME NEW lo \in Byte, NEW hi \in Byte
    PROVE  /\ Little(lo, hi) \in Nat
           /\ Little(lo, hi) % 256 = lo /\ Little(lo, hi) \div 256 = hi
<1>1. lo \in Nat /\ lo < 256 /\ hi \in Nat
  BY DEF Byte
<1>2. lo % 256 = lo
  BY <1>1
<1>3. Little(lo, hi) = lo + 256 * hi
  BY <1>2 DEF Little
<1>4. (lo + 256 * hi) % 256 = lo /\ (lo + 256 * hi) \div 256 = hi
  BY <1>1
<1> QED
  BY <1>1, <1>3, <1>4

LEMMA FrameContents ==
    ASSUME NEW f \in Frames
    PROVE  f \in Contents /\ Len(f.payload) \in Crcs
<1>1. f \in [type : FrameTypes, status : Byte, payload : Seq(Byte)] /\ Len(f.payload) <= MaxRxPayload
  BY ParserAssumption
<1>2. FrameTypes \subseteq Byte
  BY DEF FrameTypes, FRAME_NOTIFY, FRAME_SET_RESP, FRAME_GET_RESP, Byte
<1>3. Len(f.payload) \in Nat /\ MaxRxPayload \in Crcs
  BY <1>1, ParserAssumption
<1>4. f \in Contents
  BY <1>1, <1>2 DEF Contents
<1> QED
  BY <1>1, <1>3, <1>4 DEF Crcs

LEMMA EncodedShape ==
    ASSUME NEW f \in Frames
    PROVE  LET n == Len(f.payload)
           IN  /\ Encoded(f) \in Seq(Byte) /\ Len(Encoded(f)) = 7 + n
               /\ Encoded(f)[1] = SYNC_BYTE
               /\ Encoded(f)[2] = f.type /\ Encoded(f)[3] = f.status
               /\ Encoded(f)[4] = n % 256 /\ Encoded(f)[5] = n \div 256
               /\ \A i \in 1 .. n : Encoded(f)[5 + i] = f.payload[i]
               /\ Encoded(f)[6 + n] = Crc16Of(Covered(f)) % 256
               /\ Encoded(f)[7 + n] = Crc16Of(Covered(f)) \div 256
<1> DEFINE n == Len(f.payload)
           c == Covered(f)
           lo == Crc16Of(Covered(f)) % 256
           hi == Crc16Of(Covered(f)) \div 256
           front == <<SYNC_BYTE>> \o c
<1>0. f \in Contents /\ Len(f.payload) \in Crcs /\ n \in Nat
  BY FrameContents DEF Crcs
<1>1. /\ c \in Seq(Byte) /\ Len(c) = 4 + n
      /\ c[1] = f.type /\ c[2] = f.status /\ c[3] = n % 256 /\ c[4] = n \div 256
      /\ \A i \in 1 .. n : c[4 + i] = f.payload[i]
  BY <1>0, CoveredShape
<1>2. lo \in Byte /\ hi \in Byte
  BY <1>1, CrcType, Halves
<1>3. Encoded(f) = front \o <<lo, hi>>
  BY DEF Encoded
<1> HIDE DEF lo, hi, c
<1> DEFINE sync == <<SYNC_BYTE>>
           back == <<lo, hi>>
<1>4. sync \in Seq(Byte) /\ Len(sync) = 1 /\ sync[1] = SYNC_BYTE
  BY DEF SYNC_BYTE, Byte
<1>5. back \in Seq(Byte) /\ Len(back) = 2 /\ back[1] = lo /\ back[2] = hi
  BY <1>2
<1> HIDE DEF sync, back, n
<1>6. /\ front \in Seq(Byte) /\ Len(front) = 5 + n
      /\ front[1] = SYNC_BYTE
      /\ \A i \in 1 .. 4 + n : front[1 + i] = c[i]
  <2>1. front = sync \o c
    BY DEF sync
  <2>2. /\ front \in Seq(Byte) /\ Len(front) = 1 + Len(c)
        /\ \A i \in 1 .. 1 + Len(c) : front[i] = IF i <= 1 THEN sync[i] ELSE c[i - 1]
    BY <1>1, <1>4, <2>1, ConcatProperties
  <2> HIDE DEF front
  <2>3. ASSUME NEW i \in 1 .. 4 + n PROVE front[1 + i] = c[i]
    <3>1. 1 + i \in 1 .. 1 + Len(c) /\ ~(1 + i <= 1) /\ (1 + i) - 1 = i
      BY <1>0, <1>1
    <3> QED
      BY <2>2, <3>1
  <2>4. 1 \in 1 .. 1 + Len(c)
    BY <1>0, <1>1
  <2> QED
    BY <1>0, <1>1, <1>4, <2>2, <2>3, <2>4
<1> HIDE DEF front
<1> DEFINE e == Encoded(f)
<1>7. /\ e \in Seq(Byte) /\ Len(e) = 7 + n
      /\ \A i \in 1 .. 5 + n : e[i] = front[i]
      /\ e[6 + n] = lo /\ e[7 + n] = hi
  <2>1. e = front \o back
    BY <1>3 DEF back
  <2> HIDE DEF e
  <2>0. /\ e \in Seq(Byte) /\ Len(e) = Len(front) + Len(back)
        /\ \A i \in 1 .. Len(front) + Len(back) :
             e[i] = IF i <= Len(front) THEN front[i] ELSE back[i - Len(front)]
    BY <1>5, <1>6, <2>1, ConcatProperties
  <2>2. /\ e \in Seq(Byte) /\ Len(e) = Len(front) + 2
        /\ \A i \in 1 .. Len(front) + 2 :
             e[i] = IF i <= Len(front) THEN front[i] ELSE back[i - Len(front)]
    BY <1>5, <2>0
  <2>3. ASSUME NEW i \in 1 .. 5 + n PROVE e[i] = front[i]
    <3>1. i \in 1 .. Len(front) + 2 /\ i <= Len(front)
      BY <1>0, <1>6
    <3> QED
      BY <2>2, <3>1
  <2>4. /\ 6 + n \in 1 .. Len(front) + 2 /\ ~(6 + n <= Len(front)) /\ (6 + n) - Len(front) = 1
        /\ 7 + n \in 1 .. Len(front) + 2 /\ ~(7 + n <= Len(front)) /\ (7 + n) - Len(front) = 2
    BY <1>0, <1>6
  <2>5. e[6 + n] = lo /\ e[7 + n] = hi
    BY <1>5, <2>2, <2>4
  <2> QED
    BY <1>0, <1>6, <2>2, <2>3, <2>5
<1> HIDE DEF e
<1>8. ASSUME NEW i \in 1 .. 4 + n PROVE e[1 + i] = c[i]
  <2>1. 1 + i \in 1 .. 5 + n
    BY <1>0
  <2> QED
    BY <1>6, <1>7, <2>1
<1>9. e[1] = SYNC_BYTE
  <2>1. 1 \in 1 .. 5 + n
    BY <1>0
  <2> QED
    BY <1>6, <1>7, <2>1
<1>10. /\ e[2] = c[1] /\ e[3] = c[2] /\ e[4] = c[3] /\ e[5] = c[4]
  <2>1. 1 \in 1 .. 4 + n /\ 2 \in 1 .. 4 + n /\ 3 \in 1 .. 4 + n /\ 4 \in 1 .. 4 + n
    BY <1>0
  <2> QED
    BY <1>8, <2>1
<1>11. ASSUME NEW i \in 1 .. n PROVE e[5 + i] = f.payload[i]
  <2>1. 4 + i \in 1 .. 4 + n /\ 5 + i = 1 + (4 + i)
    BY <1>0
  <2> QED
    BY <1>1, <1>8, <2>1
<1> QED
  BY <1>1, <1>7, <1>9, <1>10, <1>11 DEF lo, hi, e, n, c

-----------------------------------------------------------------------------
(* The parser on its link *)

LEMMA InitIInv == Init => IInv
<1> SUFFICES ASSUME Init PROVE IInv
  OBVIOUS
<1>1. CRC16_INIT \in Crcs /\ 0 \in Crcs /\ 0 \in Byte
  BY DEF CRC16_INIT, Crcs, Byte
<1>2. InBounds(parser)
  BY <1>1 DEF Init, ParserAtStart, InBounds, Parsers, States, RESP_HEADER_LEN
<1>3. /\ parser \in Parsers /\ result \in Results
      /\ wire \in Seq(Byte) /\ frame \in Frames
  BY <1>2 DEF Init, InBounds, Results
<1>4. missed \in Nat /\ faults \in 0 .. MaxFaults
  BY ParserAssumption DEF Init
<1>5. whole \in BOOLEAN /\ aligned \in BOOLEAN
  BY DEF Init
<1> QED
  BY <1>2, <1>3, <1>4, <1>5 DEF IInv, TypeOK

LEMMA TakeIInv ==
    ASSUME IInv, NEW byte \in Byte, Take(byte)
    PROVE  InBounds(parser') /\ parser' \in Parsers /\ result' \in Results
<1>1. InBounds(Feed(parser, byte)) /\ FedResult(parser, byte) \in Results
  BY FeedInBounds DEF IInv
<1> QED
  BY <1>1 DEF Take, InBounds

LEMMA NextIInv == IInv /\ [Next]_vars => IInv'
<1> SUFFICES ASSUME IInv, [Next]_vars PROVE IInv'
  OBVIOUS
<1> USE DEF IInv
<1>1. /\ wire # <<>> => Head(wire) \in Byte /\ Tail(wire) \in Seq(Byte)
      /\ missed + 1 \in Nat
  BY DEF TypeOK
<1>2. ASSUME NEW intact, Counted(intact) PROVE missed' \in Nat
  BY <1>1, <1>2 DEF Counted, TypeOK
<1>3. ASSUME Fault PROVE faults' \in 0 .. MaxFaults /\ frame' \in Frames /\ aligned' \in BOOLEAN
  BY <1>3, ParserAssumption DEF Fault, TypeOK
<1>4. ASSUME NEW f \in Frames, Send(f) PROVE IInv'
  <2>1. Encoded(f) \in Seq(Byte)
    BY EncodedShape
  <2>2. Hunting \in BOOLEAN
    BY DEF Hunting
  <2> QED
    BY <1>4, <2>1, <2>2 DEF Send, TypeOK, InBounds, Results
<1>5. ASSUME Arrive PROVE IInv'
  <2>1. Head(wire) \in Byte /\ wire' \in Seq(Byte) /\ Take(Head(wire)) /\ Counted(whole)
    BY <1>1, <1>5 DEF Arrive
  <2>2. InBounds(parser') /\ parser' \in Parsers /\ result' \in Results /\ missed' \in Nat
    BY <1>2, <2>1, TakeIInv
  <2> QED
    BY <1>5, <2>1, <2>2 DEF Arrive, TypeOK, InBounds
<1>6. ASSUME NEW byte \in NoiseBytes, Damage(byte) PROVE IInv'
  <2>1. /\ byte \in Byte /\ wire' \in Seq(Byte) /\ whole' \in BOOLEAN
        /\ Take(byte) /\ Counted(FALSE) /\ Fault
    BY <1>1, <1>6, ParserAssumption DEF Damage
  <2>2. InBounds(parser') /\ parser' \in Parsers /\ result' \in Results /\ missed' \in Nat
    BY <1>2, <2>1, TakeIInv
  <2> QED
    BY <1>3, <2>1, <2>2 DEF TypeOK, InBounds
<1>7. ASSUME NEW byte \in NoiseBytes, Noise(byte) PROVE IInv'
  <2>1. byte \in Byte /\ Take(byte) /\ Fault /\ missed' \in Nat
    BY <1>7, ParserAssumption DEF Noise
  <2>2. InBounds(parser') /\ parser' \in Parsers /\ result' \in Results
    BY <2>1, TakeIInv
  <2>3. wire' \in Seq(Byte) /\ whole' \in BOOLEAN
    BY <1>7 DEF Noise, TypeOK
  <2> QED
    BY <1>3, <2>1, <2>2, <2>3 DEF TypeOK, InBounds
<1>8. ASSUME Drop PROVE IInv'
  <2>1. /\ wire' \in Seq(Byte) /\ whole' \in BOOLEAN /\ result' \in Results
        /\ Counted(FALSE) /\ Fault
    BY <1>1, <1>8 DEF Drop, Results
  <2>2. missed' \in Nat
    BY <1>2, <2>1
  <2>3. InBounds(parser') /\ parser' \in Parsers
    BY <1>8 DEF Drop, InBounds
  <2> QED
    BY <1>3, <2>1, <2>2, <2>3 DEF TypeOK, InBounds
<1>9. ASSUME Reset PROVE IInv'
  <2>1. parser' = [parser EXCEPT !.state = "SYNC"]
    BY <1>9 DEF Reset
  <2>2. InBounds(parser') /\ parser' \in Parsers
    BY <2>1 DEF InBounds, Parsers, States
  <2>3. whole' \in BOOLEAN /\ result' \in Results /\ missed' \in Nat
    BY <1>9 DEF Reset, TypeOK, Results
  <2> QED
    BY <1>9, <2>2, <2>3 DEF Reset, TypeOK, InBounds
<1>10. CASE UNCHANGED vars
  BY <1>10 DEF vars, TypeOK, InBounds
<1> QED
  BY <1>4, <1>5, <1>6, <1>7, <1>8, <1>9, <1>10 DEF Next

LEMMA Inductive == Spec => []IInv
BY InitIInv, NextIInv, PTL DEF Spec

(***************************************************************************)
(* The members of the parser, and what its users know of the link, keep    *)
(* their types: in particular the CRC and the length stay in sixteen bits. *)
(***************************************************************************)
THEOREM TypeCorrect == Spec => []TypeOK
<1>1. IInv => TypeOK
  BY DEF IInv
<1> QED
  BY <1>1, Inductive, PTL

(***************************************************************************)
(* No length that arrives, damaged or not, makes the parser write outside  *)
(* of its buffer (feed(), State::HEADER and State::PAYLOAD).               *)
(***************************************************************************)
THEOREM NeverOutOfBounds == Spec => []WritesInBounds
<1>1. IInv => WritesInBounds
  BY DEF IInv, InBounds, WritesInBounds
<1> QED
  BY <1>1, Inductive, PTL

-----------------------------------------------------------------------------
(* What the parser hands over, and what it misses *)

\* The first four bytes that the checksum of a frame covers.
Header(p) == <<p.type, p.status, p.len % 256, p.len \div 256>>

(***************************************************************************)
(* The checksum is that of the bytes taken since the sync byte.            *)
(***************************************************************************)
Folded(p) ==
    /\ p.state = "HEADER" /\ p.header_pos = 0 => p.crc = Crc16Of(<<p.type>>)
    /\ p.state = "HEADER" /\ p.header_pos = 1 => p.crc = Crc16Of(<<p.type, p.status>>)
    /\ p.state = "HEADER" /\ p.header_pos = 2 =>
          p.len \in Byte /\ p.crc = Crc16Of(<<p.type, p.status, p.len>>)
    /\ p.state \in {"PAYLOAD", "CRC_LO", "CRC_HI"} => p.crc = Crc16Of(Header(p) \o p.payload)
    /\ p.state \in {"CRC_LO", "CRC_HI"} => Len(p.payload) = p.len
    /\ p.state = "CRC_HI" => p.rx_crc \in Byte

(***************************************************************************)
(* Where the parser is after the first n bytes of frame f, if it was       *)
(* hunting when the first one came.                                        *)
(***************************************************************************)
Follows(p, f, n) ==
    /\ n = 0 => p.state \in {"SYNC", "TYPE"}
    /\ n = 1 => p.state = "TYPE"
    /\ n \in 2 .. 4 => p.state = "HEADER" /\ p.header_pos = n - 2
    /\ n >= 2 => p.type = f.type
    /\ n >= 3 => p.status = f.status
    /\ n = 4 => p.len = Len(f.payload) % 256
    /\ n >= 5 => /\ p.len = Len(f.payload)
                 /\ \A i \in 1 .. Len(p.payload) : p.payload[i] = f.payload[i]
    /\ n \in 5 .. 4 + Len(f.payload) => p.state = "PAYLOAD" /\ Len(p.payload) = n - 5
    /\ n = 5 + Len(f.payload) => p.state = "CRC_LO"
    /\ n = 6 + Len(f.payload) => p.state = "CRC_HI" /\ p.rx_crc = Crc16Of(Covered(f)) % 256

\* The bytes of the frame that the link is through with.
Through == Len(Encoded(frame)) - Len(wire)

OnWire ==
    /\ Through \in Nat
    /\ \A i \in 1 .. Len(wire) : wire[i] = Encoded(frame)[Through + i]

Followed == wire # <<>> /\ whole /\ aligned => Follows(parser, frame, Through)

\* How many bytes the parser may still take for those of its frame.
Left(p) ==
    CASE p.state = "HEADER" -> (RESP_HEADER_LEN - p.header_pos) + MaxRxPayload + 2
      [] p.state = "PAYLOAD" -> (p.len - Len(p.payload)) + 2
      [] p.state = "CRC_LO" -> 2
      [] p.state = "CRC_HI" -> 1
      [] OTHER -> 0

\* As many as there are when the header begins.
MostLeft == RESP_HEADER_LEN + MaxRxPayload + 2

(***************************************************************************)
(* What the frames that were missed and the one being missed cost, the     *)
(* parser has less to take, until it hunts again; and then it hunts to the *)
(* end of this frame, in which nothing looks like a sync byte.             *)
(***************************************************************************)
Swallowed ==
    /\ ShortestFrame * missed <= MostLeft + ShortestFrame - 1
    /\ wire = <<>> /\ ~Hunting => ShortestFrame * missed + Left(parser) <= MostLeft
    /\ wire # <<>> /\ whole /\ ~aligned /\ Plain(frame) =>
          \/ ~Hunting /\ ShortestFrame * missed + Through + Left(parser) <= MostLeft
          \/ Through >= 1 /\ parser.state = "SYNC" /\ ShortestFrame * missed < MostLeft

LinkInv ==
    /\ Folded(parser)
    /\ ChecksWhole
    /\ OnWire
    /\ Followed
    /\ Swallowed


\* The frame that a parser has taken.
Taken(p) == [type |-> p.type, status |-> p.status, payload |-> p.payload]

LEMMA HeaderIsCovered ==
    ASSUME NEW p \in Parsers, Len(p.payload) = p.len
    PROVE  Covered(Taken(p)) = Header(p) \o p.payload
BY DEF Covered, Taken, Header

(***************************************************************************)
(* One byte more: as a sequence, and spelled out.                          *)
(***************************************************************************)
LEMMA AppendShape ==
    ASSUME NEW s \in Seq(Byte), NEW byte \in Byte
    PROVE  /\ Append(s, byte) \in Seq(Byte) /\ Len(Append(s, byte)) = Len(s) + 1
           /\ Append(s, byte)[Len(s) + 1] = byte
           /\ \A i \in 1 .. Len(s) : Append(s, byte)[i] = s[i]
OBVIOUS

LEMMA AppendToOne ==
    ASSUME NEW a \in Byte, NEW b \in Byte
    PROVE  Append(<<a>>, b) = <<a, b>>
<1> DEFINE s == <<a>>
           t == <<a, b>>
           u == Append(s, b)
<1>1. s \in Seq(Byte) /\ Len(s) = 1 /\ s[1] = a
  OBVIOUS
<1>2. t \in Seq(Byte) /\ Len(t) = 2 /\ t[1] = a /\ t[2] = b
  OBVIOUS
<1> HIDE DEF s, t
<1>3. /\ u \in Seq(Byte) /\ Len(u) = Len(s) + 1 /\ u[Len(s) + 1] = b
      /\ \A i \in 1 .. Len(s) : u[i] = s[i]
  BY <1>1, AppendShape
<1> HIDE DEF u
<1>4. ASSUME NEW i \in 1 .. Len(u) PROVE u[i] = t[i]
  <2>1. i = 1 \/ i = 2
    BY <1>1, <1>3
  <2> QED
    BY <1>1, <1>2, <1>3, <2>1
<1>5. u = t
  BY <1>1, <1>2, <1>3, <1>4, SeqEqual
<1> QED
  BY <1>5 DEF s, t, u

LEMMA AppendToTwo ==
    ASSUME NEW a \in Byte, NEW b \in Byte, NEW c \in Byte
    PROVE  Append(<<a, b>>, c) = <<a, b, c>>
<1> DEFINE s == <<a, b>>
           t == <<a, b, c>>
           u == Append(s, c)
<1>1. s \in Seq(Byte) /\ Len(s) = 2 /\ s[1] = a /\ s[2] = b
  OBVIOUS
<1>2. t \in Seq(Byte) /\ Len(t) = 3 /\ t[1] = a /\ t[2] = b /\ t[3] = c
  OBVIOUS
<1> HIDE DEF s, t
<1>3. /\ u \in Seq(Byte) /\ Len(u) = Len(s) + 1 /\ u[Len(s) + 1] = c
      /\ \A i \in 1 .. Len(s) : u[i] = s[i]
  BY <1>1, AppendShape
<1> HIDE DEF u
<1>4. ASSUME NEW i \in 1 .. Len(u) PROVE u[i] = t[i]
  <2>1. i = 1 \/ i = 2 \/ i = 3
    BY <1>1, <1>3
  <2> QED
    BY <1>1, <1>2, <1>3, <2>1
<1>5. u = t
  BY <1>1, <1>2, <1>3, <1>4, SeqEqual
<1> QED
  BY <1>5 DEF s, t, u

LEMMA AppendToThree ==
    ASSUME NEW a \in Byte, NEW b \in Byte, NEW c \in Byte, NEW d \in Byte
    PROVE  Append(<<a, b, c>>, d) = <<a, b, c, d>>
<1> DEFINE s == <<a, b, c>>
           t == <<a, b, c, d>>
           u == Append(s, d)
<1>1. s \in Seq(Byte) /\ Len(s) = 3 /\ s[1] = a /\ s[2] = b /\ s[3] = c
  OBVIOUS
<1>2. t \in Seq(Byte) /\ Len(t) = 4 /\ t[1] = a /\ t[2] = b /\ t[3] = c /\ t[4] = d
  OBVIOUS
<1> HIDE DEF s, t
<1>3. /\ u \in Seq(Byte) /\ Len(u) = Len(s) + 1 /\ u[Len(s) + 1] = d
      /\ \A i \in 1 .. Len(s) : u[i] = s[i]
  BY <1>1, AppendShape
<1> HIDE DEF u
<1>4. ASSUME NEW i \in 1 .. Len(u) PROVE u[i] = t[i]
  <2>1. i = 1 \/ i = 2 \/ i = 3 \/ i = 4
    BY <1>1, <1>3
  <2> QED
    BY <1>1, <1>2, <1>3, <2>1
<1>5. u = t
  BY <1>1, <1>2, <1>3, <1>4, SeqEqual
<1> QED
  BY <1>5 DEF s, t, u

(***************************************************************************)
(* The checksum follows the bytes through the three bytes of the header    *)
(* after the type, the payload and the first byte of the checksum.         *)
(***************************************************************************)
LEMMA HeadedFolded ==
    ASSUME NEW p, InBounds(p), Folded(p), p.state = "HEADER", NEW byte \in Byte
    PROVE  Folded(Headed(p, byte))
<1> DEFINE q == Headed(p, byte)
           taken == HeaderTaken(p, byte)
<1>1. /\ p \in Parsers /\ p.header_pos \in {0, 1, 2}
      /\ p.type \in Byte /\ p.status \in Byte /\ p.len \in Crcs
  BY DEF InBounds, Parsers, RESP_HEADER_LEN
<1>2. CASE p.header_pos = 0
  <2>1. q = [p EXCEPT !.status = byte, !.crc = Crc16Update(p.crc, byte), !.header_pos = 1]
    BY <1>1, <1>2 DEF Headed, HeaderTaken, HeaderField, LastOfHeader, RESP_HEADER_LEN, Parsers
  <2>2. /\ q.state = "HEADER" /\ q.header_pos = 1 /\ q.type = p.type /\ q.status = byte
        /\ q.crc = Crc16Update(Crc16Of(<<p.type>>), byte)
    BY <1>1, <1>2, <2>1 DEF Parsers, Folded
  <2>3. Crc16Of(Append(<<p.type>>, byte)) = Crc16Update(Crc16Of(<<p.type>>), byte)
    BY <1>1, CrcAppend, <<p.type>> \in Seq(Byte)
  <2>4. Append(<<p.type>>, byte) = <<p.type, byte>>
    BY <1>1, AppendToOne
  <2> HIDE DEF q
  <2>5. q.crc = Crc16Of(<<q.type, q.status>>)
    BY <2>2, <2>3, <2>4
  <2>6. Folded(q)
    BY <2>2, <2>5 DEF Folded
  <2> QED
    BY <2>6 DEF q
<1>3. CASE p.header_pos = 1
  <2>1. q = [p EXCEPT !.len = byte, !.crc = Crc16Update(p.crc, byte), !.header_pos = 2]
    BY <1>1, <1>3 DEF Headed, HeaderTaken, HeaderField, LastOfHeader, RESP_HEADER_LEN, Parsers
  <2>2. /\ q.state = "HEADER" /\ q.header_pos = 2 /\ q.type = p.type /\ q.status = p.status
        /\ q.len = byte
        /\ q.crc = Crc16Update(Crc16Of(<<p.type, p.status>>), byte)
    BY <1>1, <1>3, <2>1 DEF Parsers, Folded
  <2>3. Crc16Of(Append(<<p.type, p.status>>, byte)) = Crc16Update(Crc16Of(<<p.type, p.status>>), byte)
    BY <1>1, CrcAppend, <<p.type, p.status>> \in Seq(Byte)
  <2>4. Append(<<p.type, p.status>>, byte) = <<p.type, p.status, byte>>
    BY <1>1, AppendToTwo
  <2> HIDE DEF q
  <2>5. q.crc = Crc16Of(<<q.type, q.status, q.len>>)
    BY <2>2, <2>3, <2>4
  <2>6. Folded(q)
    BY <2>2, <2>5 DEF Folded
  <2> QED
    BY <2>6 DEF q
<1>4. CASE p.header_pos = 2
  <2> DEFINE len == Little(p.len, byte)
             state == IF Oversize(len) THEN "SYNC" ELSE IF len = 0 THEN "CRC_LO" ELSE "PAYLOAD"
  <2>1. p.len \in Byte /\ p.crc = Crc16Of(<<p.type, p.status, p.len>>)
    BY <1>4 DEF Folded
  <2>2. len % 256 = p.len /\ len \div 256 = byte /\ len \in Nat
    BY <2>1, LittleHalves
  <2>3. taken = [p EXCEPT !.len = len, !.crc = Crc16Update(p.crc, byte), !.header_pos = 3]
    BY <1>1, <1>4 DEF HeaderTaken, HeaderField, Parsers
  <2>4. LastOfHeader(p) /\ taken.len = len
    BY <1>1, <1>4, <2>3 DEF LastOfHeader, RESP_HEADER_LEN, Parsers
  <2> HIDE DEF len
  <2>5. CASE Oversize(len)
    <3>1. q = [taken EXCEPT !.state = "SYNC"]
      BY <2>4, <2>5 DEF Headed
    <3>2. q.state = "SYNC"
      BY <1>1, <2>3, <3>1 DEF Parsers
    <3> HIDE DEF q
    <3>3. Folded(q)
      BY <3>2 DEF Folded
    <3> QED
      BY <3>3 DEF q
  <2>6. CASE ~Oversize(len)
    <3> DEFINE next == IF len = 0 THEN "CRC_LO" ELSE "PAYLOAD"
    <3>1. q = [taken EXCEPT !.payload = <<>>, !.state = next]
      BY <2>4, <2>6 DEF Headed
    <3> HIDE DEF next
    <3>2. /\ q.state = next /\ q.payload = <<>> /\ q.len = len
          /\ q.type = p.type /\ q.status = p.status /\ q.crc = Crc16Update(p.crc, byte)
      BY <1>1, <2>3, <3>1 DEF Parsers
    <3> HIDE DEF q
    <3>3. Header(q) = <<p.type, p.status, p.len, byte>>
      BY <2>2, <3>2 DEF Header
    <3>4. Crc16Of(Append(<<p.type, p.status, p.len>>, byte)) = q.crc
      BY <1>1, <2>1, <3>2, CrcAppend, <<p.type, p.status, p.len>> \in Seq(Byte)
    <3>5. Append(<<p.type, p.status, p.len>>, byte) = <<p.type, p.status, p.len, byte>>
      BY <1>1, <2>1, AppendToThree
    <3>6. Header(q) \in Seq(Byte)
      BY <1>1, <2>1, <3>3
    <3>7. Header(q) \o q.payload = Header(q)
      BY <3>2, <3>6, ConcatEmptySeq
    <3>8. q.state = "CRC_LO" \/ q.state = "PAYLOAD"
      BY <3>2 DEF next
    <3>9. q.state = "CRC_LO" => Len(q.payload) = q.len
      BY <3>2 DEF next
    <3>10. q.crc = Crc16Of(Header(q) \o q.payload)
      BY <3>3, <3>4, <3>5, <3>7
    <3>11. Folded(q)
      BY <3>8, <3>9, <3>10 DEF Folded
    <3> QED
      BY <3>11 DEF q
  <2> QED
    BY <2>5, <2>6
<1> QED
  BY <1>1, <1>2, <1>3, <1>4

LEMMA FilledFolded ==
    ASSUME NEW p, InBounds(p), Folded(p), p.state = "PAYLOAD", NEW byte \in Byte
    PROVE  Folded(Filled(p, byte))
<1> DEFINE q == Filled(p, byte)
           next == IF Len(p.payload) + 1 >= p.len THEN "CRC_LO" ELSE "PAYLOAD"
<1>1. /\ p \in Parsers /\ p.payload \in Seq(Byte) /\ Len(p.payload) \in Nat
      /\ p.type \in Byte /\ p.status \in Byte /\ p.len \in Crcs /\ p.len \in Nat
      /\ Len(p.payload) < p.len
  BY DEF InBounds, Parsers, Crcs
<1>2. q = [p EXCEPT !.crc = Crc16Update(p.crc, byte), !.payload = Append(p.payload, byte),
                    !.state = next]
  BY DEF Filled
<1> HIDE DEF next
<1>3. /\ q.crc = Crc16Update(p.crc, byte) /\ q.payload = Append(p.payload, byte)
      /\ q.state = next /\ Header(q) = Header(p) /\ q.len = p.len
  BY <1>1, <1>2 DEF Parsers, Header
<1> HIDE DEF q
<1>4. Header(p) \in Seq(Byte)
  BY <1>1, Halves DEF Header
<1>5. p.crc = Crc16Of(Header(p) \o p.payload)
  BY DEF Folded
<1>6. /\ Header(p) \o p.payload \in Seq(Byte)
      /\ Append(Header(p) \o p.payload, byte) = Header(p) \o Append(p.payload, byte)
  <2> DEFINE h == Header(p)
             t == p.payload
  <2>1. h \in Seq(Byte) /\ t \in Seq(Byte) /\ <<byte>> \in Seq(Byte)
    BY <1>1, <1>4
  <2> HIDE DEF h, t
  <2>2. h \o t \in Seq(Byte)
    BY <2>1, ConcatProperties
  <2>3. Append(h \o t, byte) = (h \o t) \o <<byte>> /\ Append(t, byte) = t \o <<byte>>
    BY <2>1, <2>2, AppendIsConcat
  <2>4. (h \o t) \o <<byte>> = h \o (t \o <<byte>>)
    BY <2>1, ConcatAssociative
  <2> QED
    BY <2>2, <2>3, <2>4 DEF h, t
<1>7. q.crc = Crc16Of(Header(q) \o q.payload)
  BY <1>3, <1>5, <1>6, CrcAppend
<1>8. q.state \in {"CRC_LO", "PAYLOAD"} /\ (q.state = "CRC_LO" => Len(q.payload) = q.len)
  BY <1>1, <1>3 DEF next
<1>9. Folded(q)
  BY <1>7, <1>8 DEF Folded
<1> QED
  BY <1>9 DEF q

LEMMA FeedFolded ==
    ASSUME NEW p, InBounds(p), Folded(p), NEW byte \in Byte
    PROVE  Folded(Feed(p, byte))
<1>1. p \in Parsers /\ p.state \in States /\ p.type \in Byte
  BY DEF InBounds, Parsers
<1>2. CASE p.state = "SYNC"
  BY <1>1, <1>2 DEF Feed, Hunted, Folded, Parsers
<1>3. CASE p.state = "TYPE"
  <2> DEFINE q == Typed(p, byte)
  <2>1. CASE byte = SYNC_BYTE
    <3>1. Feed(p, byte) = p
      BY <1>3, <2>1
      DEF Feed, Typed, SYNC_BYTE, FrameTypes, FRAME_NOTIFY, FRAME_SET_RESP, FRAME_GET_RESP
    <3> QED
      BY <3>1
  <2>2. CASE byte # SYNC_BYTE /\ byte \in FrameTypes
    <3>1. q = [p EXCEPT !.state = "HEADER", !.type = byte,
                        !.crc = Crc16Update(CRC16_INIT, byte), !.header_pos = 0]
      BY <2>2 DEF Typed
    <3>2. q.state = "HEADER" /\ q.header_pos = 0 /\ q.type = byte /\ q.crc = Crc16Of(<<byte>>)
      BY <1>1, <3>1, CrcOfOne DEF Parsers
    <3> HIDE DEF q
    <3>3. Folded(q)
      BY <3>2 DEF Folded
    <3> QED
      BY <1>3, <3>3 DEF Feed, q
  <2>3. CASE byte # SYNC_BYTE /\ byte \notin FrameTypes
    <3>1. q = [p EXCEPT !.state = "SYNC"]
      BY <2>3 DEF Typed
    <3> QED
      BY <1>1, <1>3, <3>1 DEF Feed, Folded, Parsers
  <2> QED
    BY <2>1, <2>2, <2>3
<1>4. CASE p.state = "HEADER"
  BY <1>4, HeadedFolded DEF Feed
<1>5. CASE p.state = "PAYLOAD"
  BY <1>5, FilledFolded DEF Feed
<1>6. CASE p.state = "CRC_LO"
  <2> DEFINE q == [p EXCEPT !.rx_crc = byte, !.state = "CRC_HI"]
  <2>1. Feed(p, byte) = q
    BY <1>6 DEF Feed
  <2>2. /\ q.state = "CRC_HI" /\ q.rx_crc = byte /\ q.crc = p.crc /\ q.payload = p.payload
        /\ q.len = p.len /\ Header(q) = Header(p)
    BY <1>1 DEF Parsers, Header
  <2> HIDE DEF q
  <2>3. Folded(q)
    BY <1>6, <2>2 DEF Folded
  <2> QED
    BY <2>1, <2>3
<1>7. CASE p.state = "CRC_HI"
  <2>1. Feed(p, byte).state = "SYNC"
    BY <1>1, <1>7 DEF Feed, Checked, Parsers
  <2> QED
    BY <2>1 DEF Folded
<1> QED
  BY <1>1, <1>2, <1>3, <1>4, <1>5, <1>6, <1>7 DEF States

(***************************************************************************)
(* A frame that is handed over is checked as a whole.                      *)
(***************************************************************************)
LEMMA FrameChecked ==
    ASSUME NEW p, InBounds(p), Folded(p), NEW byte \in Byte, FedResult(p, byte) = "FRAME"
    PROVE  LET q == Feed(p, byte)
           IN  /\ Len(q.payload) = q.len
               /\ Crc16Of(Covered(Taken(q))) = q.rx_crc
<1> DEFINE q == Feed(p, byte)
<1>1. p \in Parsers
  BY DEF InBounds
<1>2. p.state = "CRC_HI" /\ Little(p.rx_crc, byte) = p.crc
  BY DEF FedResult, Matches
<1>3. q = [p EXCEPT !.rx_crc = p.crc, !.state = "SYNC"]
  BY <1>2 DEF Feed, Checked
<1>4. q.rx_crc = p.crc /\ Taken(q) = Taken(p) /\ q.len = p.len /\ q.payload = p.payload
  BY <1>1, <1>3 DEF Parsers, Taken
<1> HIDE DEF q
<1>5. Len(p.payload) = p.len /\ p.crc = Crc16Of(Header(p) \o p.payload)
  BY <1>2 DEF Folded
<1>6. Covered(Taken(p)) = Header(p) \o p.payload
  BY <1>1, <1>5, HeaderIsCovered
<1>7. /\ Len(q.payload) = q.len
      /\ Crc16Of(Covered(Taken(q))) = q.rx_crc
  BY <1>4, <1>5, <1>6
<1> QED
  BY <1>7 DEF q

-----------------------------------------------------------------------------
(* A frame that arrives whole *)

(***************************************************************************)
(* One byte of a frame takes a parser that follows it to the next.         *)
(***************************************************************************)
LEMMA FollowsStep ==
    ASSUME NEW f \in Frames, NEW p, InBounds(p),
           NEW n \in Nat, n < 6 + Len(f.payload), Follows(p, f, n)
    PROVE  Follows(Feed(p, Encoded(f)[n + 1]), f, n + 1)
<1> DEFINE m == Len(f.payload)
           e == Encoded(f)
           byte == e[n + 1]
           q == Feed(p, byte)
<1>1. /\ p \in Parsers /\ p.payload \in Seq(Byte) /\ Len(p.payload) \in Nat
      /\ p.type \in Byte /\ p.status \in Byte /\ p.len \in Crcs
  BY DEF InBounds, Parsers
<1>2. /\ m \in Nat /\ m \in Crcs /\ m <= MaxRxPayload /\ MaxRxPayload \in Nat
      /\ f.type \in FrameTypes /\ f.type # SYNC_BYTE
  BY FrameContents, ParserAssumption
  DEF Crcs, FrameTypes, FRAME_NOTIFY, FRAME_SET_RESP, FRAME_GET_RESP, SYNC_BYTE
<1>3. /\ e \in Seq(Byte) /\ Len(e) = 7 + m
      /\ e[1] = SYNC_BYTE /\ e[2] = f.type /\ e[3] = f.status
      /\ e[4] = m % 256 /\ e[5] = m \div 256
      /\ \A i \in 1 .. m : e[5 + i] = f.payload[i]
      /\ e[6 + m] = Crc16Of(Covered(f)) % 256
  <2>1. e \in Seq(Byte) /\ Len(e) = 7 + m
    BY EncodedShape
  <2>2. e[1] = SYNC_BYTE /\ e[2] = f.type /\ e[3] = f.status
    BY EncodedShape
  <2>3. e[4] = m % 256 /\ e[5] = m \div 256
    BY EncodedShape
  <2>4. \A i \in 1 .. m : e[5 + i] = f.payload[i]
    BY EncodedShape
  <2>5. e[6 + m] = Crc16Of(Covered(f)) % 256
    BY EncodedShape
  <2> QED
    BY <2>1, <2>2, <2>3, <2>4, <2>5
<1> HIDE DEF e, m
<1>4. byte \in Byte
  <2>1. n + 1 \in 1 .. Len(e)
    BY <1>2, <1>3 DEF m
  <2> QED
    BY <1>3, <2>1, ElementOfSeq
<1>5. CASE n = 0
  <2>1. byte = SYNC_BYTE
    BY <1>3, <1>5
  <2>2. p.state = "SYNC" \/ p.state = "TYPE"
    BY <1>5 DEF Follows
  <2>3. p.state = "SYNC" => q = [p EXCEPT !.state = "TYPE"]
    BY <2>1 DEF Feed, Hunted
  <2>4. p.state = "TYPE" => q = p
    BY <2>1
    DEF Feed, Typed, SYNC_BYTE, FrameTypes, FRAME_NOTIFY, FRAME_SET_RESP, FRAME_GET_RESP
  <2>5. q.state = "TYPE"
    BY <1>1, <2>2, <2>3, <2>4 DEF Parsers
  <2> HIDE DEF q, byte
  <2>6. Follows(q, f, 1)
    BY <1>2, <2>5 DEF Follows, m
  <2> QED
    BY <1>5, <2>6 DEF q, byte, e
<1>6. CASE n = 1
  <2>1. byte = f.type /\ p.state = "TYPE"
    BY <1>3, <1>6 DEF Follows
  <2>2. q = [p EXCEPT !.state = "HEADER", !.type = byte,
                      !.crc = Crc16Update(CRC16_INIT, byte), !.header_pos = 0]
    BY <1>2, <2>1 DEF Feed, Typed
  <2>3. q.state = "HEADER" /\ q.header_pos = 0 /\ q.type = f.type
    BY <1>1, <2>1, <2>2 DEF Parsers
  <2> HIDE DEF q, byte
  <2>4. Follows(q, f, 2)
    BY <1>2, <2>3 DEF Follows, m
  <2> QED
    BY <1>6, <2>4 DEF q, byte, e
<1>7. CASE n = 2
  <2>1. byte = f.status /\ p.state = "HEADER" /\ p.header_pos = 0 /\ p.type = f.type
    BY <1>3, <1>7 DEF Follows
  <2>2. q = [p EXCEPT !.status = byte, !.crc = Crc16Update(p.crc, byte), !.header_pos = 1]
    BY <1>1, <2>1
    DEF Feed, Headed, HeaderTaken, HeaderField, LastOfHeader, RESP_HEADER_LEN, Parsers
  <2>3. /\ q.state = "HEADER" /\ q.header_pos = 1 /\ q.type = f.type /\ q.status = f.status
    BY <1>1, <2>1, <2>2 DEF Parsers
  <2> HIDE DEF q, byte
  <2>4. Follows(q, f, 3)
    BY <1>2, <2>3 DEF Follows, m
  <2> QED
    BY <1>7, <2>4 DEF q, byte, e
<1>8. CASE n = 3
  <2>1. /\ byte = m % 256 /\ p.state = "HEADER" /\ p.header_pos = 1
        /\ p.type = f.type /\ p.status = f.status
    BY <1>3, <1>8 DEF Follows
  <2>2. q = [p EXCEPT !.len = byte, !.crc = Crc16Update(p.crc, byte), !.header_pos = 2]
    BY <1>1, <2>1
    DEF Feed, Headed, HeaderTaken, HeaderField, LastOfHeader, RESP_HEADER_LEN, Parsers
  <2>3. /\ q.state = "HEADER" /\ q.header_pos = 2 /\ q.type = f.type /\ q.status = f.status
        /\ q.len = m % 256
    BY <1>1, <2>1, <2>2 DEF Parsers
  <2> HIDE DEF q, byte
  <2>4. Follows(q, f, 4)
    BY <1>2, <2>3 DEF Follows, m
  <2> QED
    BY <1>8, <2>4 DEF q, byte, e
<1>9. CASE n = 4
  <2> DEFINE taken == HeaderTaken(p, byte)
             next == IF m = 0 THEN "CRC_LO" ELSE "PAYLOAD"
  <2>0. p.state = "HEADER" /\ p.header_pos = 2
    BY <1>9 DEF Follows
  <2>1. /\ byte = m \div 256
        /\ p.type = f.type /\ p.status = f.status /\ p.len = m % 256
    <3>1. byte = m \div 256
      BY <1>3, <1>9
    <3>2. p.type = f.type /\ p.status = f.status
      BY <1>9 DEF Follows
    <3>3. p.len = m % 256
      BY <1>9, Zenon DEF Follows, m
    <3> QED
      BY <3>1, <3>2, <3>3
  <2>2. Little(p.len, byte) = m
    BY <1>2, <2>1, Halves
  <2>3. taken = [p EXCEPT !.len = m, !.crc = Crc16Update(p.crc, byte), !.header_pos = 3]
    <3> HIDE DEF byte
    <3> QED
      BY <1>1, <2>0, <2>2 DEF HeaderTaken, HeaderField, Parsers
  <2>4. LastOfHeader(p) /\ taken.len = m /\ ~Oversize(taken.len)
    <3> HIDE DEF taken
    <3>1. taken.len = m
      BY <1>1, <2>3 DEF Parsers
    <3> QED
      BY <1>2, <2>0, <3>1 DEF LastOfHeader, RESP_HEADER_LEN, Oversize
  <2>5. q = [taken EXCEPT !.payload = <<>>, !.state = next]
    BY <2>0, <2>4 DEF Feed, Headed
  <2> HIDE DEF next, q, taken, byte
  <2>6. /\ q.state = next /\ q.payload = <<>> /\ q.len = m
        /\ q.type = p.type /\ q.status = p.status
    BY <1>1, <2>3, <2>5 DEF Parsers
  <2>7. Len(q.payload) = 0
    BY <2>6
  <2>8. /\ m = 0 => q.state = "CRC_LO"
        /\ m > 0 => q.state = "PAYLOAD"
    BY <1>2, <2>6 DEF next
  <2>9. Follows(q, f, 5)
    BY <1>2, <2>1, <2>6, <2>7, <2>8 DEF Follows, m
  <2> QED
    BY <1>9, <2>9 DEF q, byte, e
<1>10. CASE n >= 5 /\ n <= 4 + m
  <2>1. /\ p.state = "PAYLOAD" /\ Len(p.payload) = n - 5 /\ p.len = m
        /\ p.type = f.type /\ p.status = f.status
        /\ \A i \in 1 .. Len(p.payload) : p.payload[i] = f.payload[i]
    BY <1>2, <1>10 DEF Follows, m
  <2>2. n - 4 \in 1 .. m /\ n + 1 = 5 + (n - 4)
    BY <1>2, <1>10
  <2>3. byte = f.payload[n - 4]
    BY <1>3, <2>2
  <2> DEFINE more == Append(p.payload, byte)
             next == IF Len(p.payload) + 1 >= p.len THEN "CRC_LO" ELSE "PAYLOAD"
  <2>4. q = [p EXCEPT !.crc = Crc16Update(p.crc, byte), !.payload = more, !.state = next]
    BY <2>1 DEF Feed, Filled
  <2>5. /\ Len(more) = n - 4 /\ more[n - 4] = f.payload[n - 4]
        /\ \A i \in 1 .. n - 5 : more[i] = f.payload[i]
    <3>1. /\ Len(more) = Len(p.payload) + 1 /\ more[Len(p.payload) + 1] = byte
          /\ \A i \in 1 .. Len(p.payload) : more[i] = p.payload[i]
      BY <1>1, <1>4, AppendShape
    <3> HIDE DEF more, byte
    <3> QED
      BY <2>1, <2>3, <3>1
  <2> HIDE DEF more, next
  <2>6. /\ q.state = next /\ q.payload = more /\ q.len = m
        /\ q.type = f.type /\ q.status = f.status
    BY <1>1, <2>1, <2>4 DEF Parsers
  <2>7. \A i \in 1 .. n - 4 : more[i] = f.payload[i]
    <3> SUFFICES ASSUME NEW i \in 1 .. n - 4 PROVE more[i] = f.payload[i]
      OBVIOUS
    <3>1. i = n - 4 \/ i \in 1 .. n - 5
      BY <1>10
    <3> QED
      BY <2>5, <3>1
  <2>8. /\ n = 4 + m => q.state = "CRC_LO"
        /\ n < 4 + m => q.state = "PAYLOAD"
    BY <1>2, <1>10, <2>1, <2>6 DEF next
  <2> HIDE DEF q, byte
  <2>9. Follows(q, f, n + 1)
    <3>1. Len(q.payload) = (n + 1) - 5 /\ \A i \in 1 .. Len(q.payload) : q.payload[i] = f.payload[i]
      BY <1>10, <2>5, <2>6, <2>7
    <3>2. /\ n + 1 \notin 2 .. 4 /\ n + 1 # 4 /\ n + 1 # 6 + m /\ n + 1 # 0 /\ n + 1 # 1
          /\ n + 1 = 5 + m => n = 4 + m
          /\ n + 1 \in 5 .. 4 + m => n < 4 + m
      BY <1>2, <1>10
    <3> QED
      BY <2>6, <2>8, <3>1, <3>2 DEF Follows, m
  <2> QED
    BY <2>9 DEF q, byte, e
<1>11. CASE n = 5 + m
  <2>1. /\ p.state = "CRC_LO" /\ p.len = m
        /\ p.type = f.type /\ p.status = f.status
        /\ \A i \in 1 .. Len(p.payload) : p.payload[i] = f.payload[i]
    BY <1>2, <1>11 DEF Follows, m
  <2>2. byte = Crc16Of(Covered(f)) % 256
    <3>1. n + 1 = 6 + m
      BY <1>2, <1>11
    <3> QED
      BY <1>3, <3>1
  <2>3. q = [p EXCEPT !.rx_crc = byte, !.state = "CRC_HI"]
    BY <2>1 DEF Feed
  <2> HIDE DEF byte
  <2>4. /\ q.state = "CRC_HI" /\ q.rx_crc = byte /\ q.payload = p.payload /\ q.len = m
        /\ q.type = f.type /\ q.status = f.status
    BY <1>1, <2>1, <2>3 DEF Parsers
  <2> HIDE DEF q
  <2>5. Follows(q, f, n + 1)
    <3>1. /\ n + 1 \notin 2 .. 4 /\ n + 1 # 4 /\ n + 1 # 5 + m /\ n + 1 # 0 /\ n + 1 # 1
          /\ n + 1 \notin 5 .. 4 + m
      BY <1>2, <1>11
    <3> QED
      BY <2>1, <2>2, <2>4, <3>1 DEF Follows, m
  <2> QED
    BY <2>5 DEF q, byte, e
<1>12. n \in {0, 1, 2, 3, 4} \/ (n >= 5 /\ n <= 4 + m) \/ n = 5 + m
  BY <1>2 DEF m
<1> QED
  BY <1>5, <1>6, <1>7, <1>8, <1>9, <1>10, <1>11, <1>12

(***************************************************************************)
(* The last byte of it has the parser hand over that frame.                *)
(***************************************************************************)
LEMMA FollowsToEnd ==
    ASSUME NEW f \in Frames, NEW p, InBounds(p), Folded(p),
           Follows(p, f, 6 + Len(f.payload))
    PROVE  LET byte == Encoded(f)[7 + Len(f.payload)]
           IN  FedResult(p, byte) = "FRAME" /\ Taken(Feed(p, byte)) = f
<1> DEFINE m == Len(f.payload)
           crc == Crc16Of(Covered(f))
           byte == Encoded(f)[7 + m]
           q == Feed(p, byte)
<1>1. p \in Parsers /\ p.payload \in Seq(Byte)
  BY DEF InBounds, Parsers
<1>2. f \in Contents /\ f.payload \in Seq(Byte) /\ m \in Nat /\ m \in Crcs
  BY FrameContents DEF Contents, Crcs
<1>3. byte = crc \div 256
  BY EncodedShape
<1>4. crc \in Crcs
  BY <1>2, CoveredShape, CrcType
<1> HIDE DEF m, crc
<1>5. /\ p.state = "CRC_HI" /\ p.rx_crc = crc % 256 /\ p.len = m
      /\ p.type = f.type /\ p.status = f.status
      /\ \A i \in 1 .. Len(p.payload) : p.payload[i] = f.payload[i]
  BY <1>2 DEF Follows, m, crc
<1>6. Len(p.payload) = p.len /\ p.crc = Crc16Of(Header(p) \o p.payload)
  BY <1>5 DEF Folded
<1>7. p.payload = f.payload
  BY <1>1, <1>2, <1>5, <1>6, SeqEqual DEF m
<1>8. Taken(p) = f
  BY <1>2, <1>5, <1>7 DEF Taken, Contents
<1>9. p.crc = crc
  BY <1>1, <1>6, <1>8, HeaderIsCovered DEF crc
<1>10. Little(p.rx_crc, byte) = p.crc
  BY <1>3, <1>4, <1>5, <1>9, Halves
<1>11. FedResult(p, byte) = "FRAME"
  BY <1>5, <1>10 DEF FedResult, Matches
<1> HIDE DEF byte
<1>12. q = [p EXCEPT !.rx_crc = p.crc, !.state = "SYNC"]
  BY <1>5, <1>10 DEF Feed, Checked
<1>13. Taken(q) = Taken(p)
  BY <1>1, <1>12 DEF Parsers, Taken
<1> QED
  BY <1>8, <1>11, <1>13 DEF byte, m

-----------------------------------------------------------------------------
(* What a parser that began in the middle can still swallow *)

LEMMA LeftKind ==
    ASSUME NEW p, InBounds(p)
    PROVE  /\ MostLeft \in Nat /\ Left(p) \in Nat /\ Left(p) <= MostLeft
           /\ Left(p) = 0 <=> p.state \in {"SYNC", "TYPE"}
<1>1. /\ p.state \in States /\ p.len \in Nat /\ p.header_pos \in 0 .. 3 /\ Len(p.payload) \in Nat
      /\ p.state = "HEADER" => p.header_pos < 3
      /\ p.state = "PAYLOAD" => Len(p.payload) < p.len /\ p.len <= MaxRxPayload
  BY DEF InBounds, Parsers, RESP_HEADER_LEN, Crcs
<1>2. MaxRxPayload \in Nat /\ RESP_HEADER_LEN = 3 /\ MostLeft = MaxRxPayload + 5
  BY ParserAssumption DEF Crcs, RESP_HEADER_LEN, MostLeft
<1>3. CASE p.state = "HEADER"
  BY <1>1, <1>2, <1>3 DEF Left
<1>4. CASE p.state = "PAYLOAD"
  BY <1>1, <1>2, <1>4 DEF Left
<1>5. CASE p.state \in {"CRC_LO", "CRC_HI"}
  BY <1>2, <1>5 DEF Left
<1>6. CASE p.state \in {"SYNC", "TYPE"}
  BY <1>2, <1>6 DEF Left
<1> QED
  BY <1>1, <1>3, <1>4, <1>5, <1>6 DEF States

(***************************************************************************)
(* Every byte it takes is one less, until it hunts again.                  *)
(***************************************************************************)
LEMMA LeftShrinks ==
    ASSUME NEW p, InBounds(p), p.state \notin {"SYNC", "TYPE"}, NEW byte \in Byte
    PROVE  LET q == Feed(p, byte)
           IN  q.state = "SYNC" \/ (q.state \notin {"SYNC", "TYPE"} /\ Left(q) + 1 <= Left(p))
<1> DEFINE q == Feed(p, byte)
           Shrunk(r) == r.state = "SYNC"
                          \/ (r.state \notin {"SYNC", "TYPE"} /\ Left(r) + 1 <= Left(p))
<1>1. /\ p \in Parsers /\ p.state \in States /\ p.len \in Nat /\ Len(p.payload) \in Nat
      /\ p.payload \in Seq(Byte) /\ p.header_pos \in 0 .. 3
      /\ p.state = "HEADER" => p.header_pos < 3
      /\ p.state = "PAYLOAD" => Len(p.payload) < p.len /\ p.len <= MaxRxPayload
  BY DEF InBounds, Parsers, RESP_HEADER_LEN, Crcs
<1>2. MaxRxPayload \in Nat /\ RESP_HEADER_LEN = 3
  BY ParserAssumption DEF Crcs, RESP_HEADER_LEN
<1>0. InBounds(q)
  BY FeedInBounds
<1>3. CASE p.state = "HEADER"
  <2> DEFINE taken == HeaderTaken(p, byte)
             field == HeaderField(p, byte)
  <2>1. q = Headed(p, byte)
    BY <1>3 DEF Feed
  <2>2. p.header_pos \in Nat /\ p.header_pos < 3 /\ Left(p) = (3 - p.header_pos) + MaxRxPayload + 2
    BY <1>1, <1>2, <1>3 DEF Left
  <2>3. field.state = "HEADER" /\ DOMAIN field = DOMAIN p /\ field \in Parsers
    <3>1. Little(p.len, byte) \in Crcs /\ byte \in Crcs
      BY <1>1, LittleType, ByteIsCrc DEF Parsers
    <3> QED
      BY <1>1, <1>3, <3>1 DEF HeaderField, Parsers
  <2>4. taken = [field EXCEPT !.crc = Crc16Update(p.crc, byte), !.header_pos = p.header_pos + 1]
    BY DEF HeaderTaken
  <2> HIDE DEF field
  <2>5. /\ taken.state = "HEADER" /\ taken.header_pos = p.header_pos + 1
        /\ DOMAIN taken = {"state", "type", "status", "len", "header_pos", "payload", "crc", "rx_crc"}
    BY <2>3, <2>4 DEF Parsers
  <2>6. CASE ~LastOfHeader(p)
    <3>1. q = taken
      BY <2>1, <2>6 DEF Headed
    <3>2. p.header_pos + 1 < 3
      BY <2>2, <2>6 DEF LastOfHeader, RESP_HEADER_LEN
    <3> HIDE DEF q, taken
    <3>3. q.state = "HEADER" /\ Left(q) = (3 - (p.header_pos + 1)) + MaxRxPayload + 2
      BY <1>2, <2>5, <3>1 DEF Left
    <3> QED
      BY <1>2, <2>2, <3>3 DEF q
  <2>7. CASE LastOfHeader(p) /\ Oversize(taken.len)
    <3>1. q = [taken EXCEPT !.state = "SYNC"]
      BY <2>1, <2>7 DEF Headed
    <3> HIDE DEF q, taken
    <3>2. q.state = "SYNC"
      BY <2>5, <3>1
    <3> QED
      BY <3>2 DEF q
  <2>8. CASE LastOfHeader(p) /\ ~Oversize(taken.len)
    <3> DEFINE next == IF taken.len = 0 THEN "CRC_LO" ELSE "PAYLOAD"
    <3>1. q = [taken EXCEPT !.payload = <<>>, !.state = next]
      BY <2>1, <2>8 DEF Headed
    <3>2. next = "CRC_LO" \/ next = "PAYLOAD"
      OBVIOUS
    <3>3. p.header_pos = 2
      BY <2>2, <2>8 DEF LastOfHeader, RESP_HEADER_LEN
    <3> HIDE DEF q, taken, next
    <3>4. q.state = next /\ q.payload = <<>>
      BY <2>5, <3>1
    <3>5. q.state = "PAYLOAD" => q.len <= MaxRxPayload /\ q.len \in Nat
      BY <1>0 DEF InBounds, Parsers, Crcs
    <3>6. Len(q.payload) = 0
      BY <3>4
    <3>7. q.state = "PAYLOAD" => Left(q) = (q.len - 0) + 2
      BY <3>6 DEF Left
    <3>8. q.state = "CRC_LO" => Left(q) = 2
      BY DEF Left
    <3>9. Left(q) + 1 <= Left(p)
      BY <1>2, <2>2, <3>2, <3>3, <3>4, <3>5, <3>7, <3>8
    <3> QED
      BY <3>2, <3>4, <3>9 DEF q
  <2> QED
    BY <2>6, <2>7, <2>8
<1>4. CASE p.state = "PAYLOAD"
  <2> DEFINE next == IF Len(p.payload) + 1 >= p.len THEN "CRC_LO" ELSE "PAYLOAD"
  <2>1. q = [p EXCEPT !.crc = Crc16Update(p.crc, byte), !.payload = Append(p.payload, byte),
                      !.state = next]
    BY <1>4 DEF Feed, Filled
  <2>2. Len(Append(p.payload, byte)) = Len(p.payload) + 1
    BY <1>1, AppendShape
  <2>3. next = "CRC_LO" \/ next = "PAYLOAD"
    OBVIOUS
  <2> HIDE DEF q, next
  <2>4. q.state = next /\ q.len = p.len /\ q.payload = Append(p.payload, byte)
    BY <1>1, <2>1 DEF Parsers
  <2>5. Left(p) = (p.len - Len(p.payload)) + 2
    BY <1>4 DEF Left
  <2>6. q.state = "PAYLOAD" => Left(q) = (p.len - (Len(p.payload) + 1)) + 2
    BY <2>2, <2>4 DEF Left
  <2>7. q.state = "CRC_LO" => Left(q) = 2
    BY DEF Left
  <2>8. Left(q) + 1 <= Left(p)
    BY <1>1, <1>4, <2>3, <2>4, <2>5, <2>6, <2>7
  <2> QED
    BY <2>3, <2>4, <2>8 DEF q
<1>5. CASE p.state = "CRC_LO"
  <2>1. q = [p EXCEPT !.rx_crc = byte, !.state = "CRC_HI"]
    BY <1>5 DEF Feed
  <2> HIDE DEF q
  <2>2. q.state = "CRC_HI"
    BY <1>1, <2>1 DEF Parsers
  <2>3. Left(q) + 1 <= Left(p)
    BY <1>5, <2>2 DEF Left
  <2> QED
    BY <2>2, <2>3 DEF q
<1>6. CASE p.state = "CRC_HI"
  <2>1. q.state = "SYNC"
    BY <1>1, <1>6 DEF Feed, Checked, Parsers
  <2> QED
    BY <2>1
<1> QED
  BY <1>1, <1>3, <1>4, <1>5, <1>6 DEF States

(***************************************************************************)
(* A parser that looks for a frame skips what is not a sync byte.          *)
(***************************************************************************)
LEMMA SkipsPlain ==
    ASSUME NEW p, p.state = "SYNC", NEW byte, byte # SYNC_BYTE
    PROVE  Feed(p, byte) = p
BY DEF Feed, Hunted

-----------------------------------------------------------------------------
(* The link *)

(***************************************************************************)
(* A byte that leaves the wire is the next one of its frame.               *)
(***************************************************************************)
LEMMA WireStep ==
    ASSUME IInv, OnWire, wire # <<>>, wire' = Tail(wire), frame' = frame
    PROVE  /\ Len(wire) \in Nat /\ Len(wire) >= 1 /\ Through \in Nat
           /\ Through = (7 + Len(frame.payload)) - Len(wire)
           /\ Head(wire) = Encoded(frame)[Through + 1] /\ Head(wire) \in Byte
           /\ Through' = Through + 1
           /\ wire' = <<>> <=> Len(wire) = 1
           /\ OnWire'
<1> DEFINE e == Encoded(frame)
           m == Len(frame.payload)
           k == Through
<1>1. wire \in Seq(Byte) /\ frame \in Frames
  BY DEF IInv, TypeOK
<1>2. Len(wire) \in Nat /\ Len(wire) >= 1 /\ Head(wire) = wire[1] /\ Head(wire) \in Byte
  BY <1>1
<1>3. /\ wire' \in Seq(Byte) /\ Len(wire') = Len(wire) - 1
      /\ \A i \in 1 .. Len(wire') : wire'[i] = wire[i + 1]
  BY <1>1
<1>4. m \in Nat /\ Len(e) = 7 + m
  <2>1. m \in Nat
    BY <1>1, FrameContents DEF Crcs
  <2>2. Len(e) = 7 + m
    BY <1>1, EncodedShape
  <2> QED
    BY <2>1, <2>2
<1>5. k = (7 + m) - Len(wire) /\ k \in Nat
  BY <1>4 DEF OnWire, Through
<1>6. Through' = k + 1
  BY <1>2, <1>3, <1>4, <1>5 DEF Through
<1>7. \A i \in 1 .. Len(wire) : wire[i] = e[k + i]
  BY DEF OnWire
<1> HIDE DEF k, e, m
<1>8. Head(wire) = e[k + 1]
  <2>1. 1 \in 1 .. Len(wire)
    BY <1>2
  <2> QED
    BY <1>2, <1>7, <2>1
<1>9. ASSUME NEW i \in 1 .. Len(wire') PROVE wire'[i] = e[(k + 1) + i]
  <2>1. i + 1 \in 1 .. Len(wire) /\ k + (i + 1) = (k + 1) + i
    BY <1>2, <1>3, <1>5
  <2> QED
    BY <1>3, <1>7, <2>1
<1>10. k + 1 \in Nat
  BY <1>5
<1>11. OnWire'
  BY <1>6, <1>9, <1>10 DEF OnWire, e
<1>12. wire' = <<>> <=> Len(wire) = 1
  <2>1. wire' = <<>> <=> Len(wire') = 0
    BY <1>3, EmptySeq
  <2> QED
    BY <1>2, <1>3, <2>1
<1> QED
  BY <1>2, <1>4, <1>5, <1>6, <1>8, <1>11, <1>12 DEF k, e, m

LEMMA InitLinkInv == Init => LinkInv
<1> SUFFICES ASSUME Init PROVE LinkInv
  OBVIOUS
<1>1. parser.state = "SYNC" /\ wire = <<>> /\ missed = 0 /\ result = "NEED_MORE" /\ frame \in Frames
  BY DEF Init, ParserAtStart
<1>2. IInv
  BY InitIInv
<1>3. Folded(parser)
  BY <1>1 DEF Folded
<1>4. ChecksWhole
  BY <1>1 DEF ChecksWhole
<1>5. Len(wire) = 0
  BY <1>1
<1>6. Len(Encoded(frame)) \in Nat
  BY <1>1, EncodedShape, LenProperties
<1>7. OnWire
  BY <1>5, <1>6 DEF OnWire, Through
<1>8. Followed
  BY <1>1 DEF Followed
<1>9. MostLeft \in Nat /\ ShortestFrame = 7
  BY <1>2, LeftKind DEF IInv, ShortestFrame, RESP_HEADER_LEN
<1>10. Swallowed
  <2>1. Hunting
    BY <1>1 DEF Hunting
  <2>2. ShortestFrame * missed <= MostLeft + ShortestFrame - 1
    BY <1>1, <1>9
  <2> QED
    BY <1>1, <2>1, <2>2 DEF Swallowed
<1> QED
  BY <1>3, <1>4, <1>7, <1>8, <1>10 DEF LinkInv

(***************************************************************************)
(* What a byte that is taken does to the checksum.                         *)
(***************************************************************************)
LEMMA TakeLink ==
    ASSUME IInv, Folded(parser), NEW byte \in Byte, Take(byte)
    PROVE  Folded(parser') /\ ChecksWhole'
<1>1. InBounds(parser) /\ parser' = Feed(parser, byte) /\ result' = FedResult(parser, byte)
  BY DEF IInv, Take
<1>2. Folded(parser')
  BY <1>1, FeedFolded
<1>3. Delivered' = Taken(parser')
  BY DEF Delivered, Taken
<1>4. ASSUME result' = "FRAME"
      PROVE  Len(parser'.payload) = parser'.len /\ Crc16Of(Covered(Taken(parser'))) = parser'.rx_crc
  <2>1. FedResult(parser, byte) = "FRAME"
    BY <1>1, <1>4
  <2>2. /\ Len(Feed(parser, byte).payload) = Feed(parser, byte).len
        /\ Crc16Of(Covered(Taken(Feed(parser, byte)))) = Feed(parser, byte).rx_crc
    BY <1>1, <2>1, FrameChecked
  <2> QED
    BY <1>1, <2>2
<1>5. ChecksWhole'
  BY <1>3, <1>4 DEF ChecksWhole
<1> QED
  BY <1>2, <1>5

(***************************************************************************)
(* What was missed, after a byte of a frame that has been whole so far and *)
(* began while the parser took something else for a frame.                 *)
(***************************************************************************)
LEMMA SwallowStep ==
    ASSUME IInv, OnWire, Swallowed, wire # <<>>, whole, ~aligned, Plain(frame),
           parser' = Feed(parser, Head(wire)), wire' = Tail(wire), frame' = frame
    PROVE  /\ missed \in Nat /\ Through \in Nat /\ MostLeft \in Nat
           /\ \/ /\ ~Hunting'
                 /\ 7 * missed + (Through + 1) + Left(parser') <= MostLeft
              \/ /\ parser'.state = "SYNC" /\ 7 * missed < MostLeft
<1> DEFINE byte == Head(wire)
<1>1. /\ byte \in Byte /\ byte = Encoded(frame)[Through + 1] /\ Through \in Nat
      /\ Through + 1 <= Len(Encoded(frame)) /\ Len(Encoded(frame)) \in Nat
  <2>1. /\ byte \in Byte /\ byte = Encoded(frame)[Through + 1] /\ Through \in Nat
        /\ Through = (7 + Len(frame.payload)) - Len(wire) /\ Len(wire) \in Nat /\ Len(wire) >= 1
    BY WireStep
  <2>2. frame \in Frames
    BY DEF IInv, TypeOK
  <2>3. Len(Encoded(frame)) = 7 + Len(frame.payload)
    BY <2>2, EncodedShape
  <2>4. Len(frame.payload) \in Nat
    BY <2>2, FrameContents DEF Crcs
  <2> HIDE DEF byte
  <2> QED
    BY <2>1, <2>3, <2>4
<1>2. missed \in Nat /\ InBounds(parser) /\ InBounds(parser')
  <2>1. missed \in Nat /\ InBounds(parser)
    BY DEF IInv, TypeOK
  <2> QED
    BY <1>1, <2>1, FeedInBounds
<1>3. MostLeft \in Nat /\ Left(parser) \in Nat /\ Left(parser') \in Nat
  BY <1>2, LeftKind
<1>4. ShortestFrame = 7
  BY DEF ShortestFrame, RESP_HEADER_LEN
<1>5. \/ ~Hunting /\ 7 * missed + Through + Left(parser) <= MostLeft
      \/ Through >= 1 /\ parser.state = "SYNC" /\ 7 * missed < MostLeft
  BY <1>4 DEF Swallowed
<1>6. CASE ~Hunting /\ 7 * missed + Through + Left(parser) <= MostLeft
  <2>1. parser.state \notin {"SYNC", "TYPE"}
    BY <1>6 DEF Hunting
  <2>2. \/ parser'.state = "SYNC"
        \/ parser'.state \notin {"SYNC", "TYPE"} /\ Left(parser') + 1 <= Left(parser)
    BY <1>1, <1>2, <2>1, LeftShrinks
  <2>3. CASE parser'.state = "SYNC"
    <3>1. Left(parser) # 0
      BY <1>2, <2>1, LeftKind
    <3>2. 7 * missed < MostLeft
      BY <1>1, <1>2, <1>3, <1>6, <3>1
    <3> QED
      BY <1>1, <1>2, <1>3, <2>3, <3>2
  <2>4. CASE parser'.state \notin {"SYNC", "TYPE"} /\ Left(parser') + 1 <= Left(parser)
    <3>1. 7 * missed + (Through + 1) + Left(parser') <= MostLeft
      BY <1>1, <1>2, <1>3, <1>6, <2>4
    <3>2. ~Hunting'
      BY <2>4 DEF Hunting
    <3> QED
      BY <1>1, <1>2, <1>3, <3>1, <3>2
  <2> QED
    BY <2>2, <2>3, <2>4
<1>7. CASE Through >= 1 /\ parser.state = "SYNC" /\ 7 * missed < MostLeft
  <2>1. Through + 1 \in 2 .. Len(Encoded(frame))
    BY <1>1, <1>7
  <2>2. byte # SYNC_BYTE
    BY <1>1, <2>1 DEF Plain
  <2>3. parser' = parser
    BY <1>7, <2>2, SkipsPlain
  <2> QED
    BY <1>1, <1>2, <1>3, <1>7, <2>3
<1> QED
  BY <1>5, <1>6, <1>7

LEMMA OneMoreMissed ==
    ASSUME NEW m \in Nat, NEW t \in Nat, t >= 6, NEW left \in Nat, NEW most \in Nat
    PROVE  /\ 7 * m + (t + 1) + left <= most =>
                7 * (m + 1) + left <= most /\ 7 * (m + 1) <= most + 6
           /\ 7 * m < most => 7 * (m + 1) <= most + 6
OBVIOUS

(***************************************************************************)
(* A byte of a frame that is fed to the parser.                            *)
(***************************************************************************)
LEMMA ArriveLink == ASSUME IInv, IInv', LinkInv, Arrive PROVE LinkInv'
<1> DEFINE byte == Head(wire)
<1>1. /\ wire # <<>> /\ wire' = Tail(wire) /\ frame' = frame /\ whole' = whole /\ aligned' = aligned
      /\ parser' = Feed(parser, byte) /\ result' = FedResult(parser, byte)
      /\ Take(byte) /\ Counted(whole)
  BY DEF Arrive, Take
<1>2. /\ Folded(parser) /\ OnWire /\ Followed /\ Swallowed
  BY DEF LinkInv
<1>3. /\ Len(wire) \in Nat /\ Len(wire) >= 1 /\ Through \in Nat
      /\ Through = (7 + Len(frame.payload)) - Len(wire)
      /\ byte = Encoded(frame)[Through + 1] /\ byte \in Byte
      /\ Through' = Through + 1
      /\ wire' = <<>> <=> Len(wire) = 1
      /\ OnWire'
  BY <1>1, <1>2, WireStep
<1>4. /\ frame \in Frames /\ InBounds(parser) /\ InBounds(parser') /\ missed \in Nat
      /\ whole \in BOOLEAN
  BY DEF IInv, TypeOK
<1>5. Len(frame.payload) \in Nat
  BY <1>4, FrameContents DEF Crcs
<1>6. Folded(parser') /\ ChecksWhole'
  BY <1>1, <1>2, <1>3, TakeLink
<1>7. MostLeft \in Nat /\ Left(parser') \in Nat /\ Left(parser') <= MostLeft /\ ShortestFrame = 7
  BY <1>4, LeftKind DEF ShortestFrame, RESP_HEADER_LEN
<1> HIDE DEF byte
<1>8. Followed'
  <2> SUFFICES ASSUME wire' # <<>>, whole', aligned'
               PROVE  Follows(parser', frame', Through')
    BY DEF Followed
  <2>1. Follows(parser, frame, Through)
    BY <1>1, <1>2 DEF Followed
  <2>2. Through < 6 + Len(frame.payload)
    <3> DEFINE left == Len(wire)
               m == Len(frame.payload)
    <3>1. left # 1 /\ left \in Nat /\ left >= 1
      BY <1>3
    <3>2. Through = (7 + m) - left
      BY <1>3
    <3>3. m \in Nat
      BY <1>5
    <3> HIDE DEF left, m
    <3>4. Through < 6 + m
      BY <3>1, <3>2, <3>3
    <3> QED
      BY <3>4 DEF m
  <2>3. Follows(Feed(parser, Encoded(frame)[Through + 1]), frame, Through + 1)
    BY <1>3, <1>4, <2>1, <2>2, FollowsStep
  <2> QED
    BY <1>1, <1>3, <2>3
<1>9. CASE Len(wire) = 1 /\ whole /\ Plain(frame) /\ result' # "FRAME"
  <2>1. missed' = missed + 1 /\ Through = 6 + Len(frame.payload)
    BY <1>1, <1>3, <1>5, <1>9 DEF Counted
  <2>2. ~aligned
    <3> SUFFICES ASSUME aligned PROVE FALSE
      OBVIOUS
    <3>1. Follows(parser, frame, 6 + Len(frame.payload))
      BY <1>1, <1>2, <1>9, <2>1 DEF Followed
    <3>2. byte = Encoded(frame)[7 + Len(frame.payload)]
      <4>1. Through + 1 = 7 + Len(frame.payload)
        BY <1>5, <2>1
      <4> QED
        BY <1>3, <4>1
    <3>3. FedResult(parser, byte) = "FRAME"
      BY <1>2, <1>4, <3>1, <3>2, FollowsToEnd
    <3> QED
      BY <1>1, <1>9, <3>3
  <2>3. \/ /\ ~Hunting'
           /\ 7 * missed + (Through + 1) + Left(parser') <= MostLeft
        \/ /\ parser'.state = "SYNC" /\ 7 * missed < MostLeft
    BY <1>1, <1>2, <1>9, <2>2, SwallowStep DEF byte
  <2>0. Through >= 6 /\ Through \in Nat
    BY <1>5, <2>1
  <2>4. 7 * missed' <= MostLeft + 6
    BY <1>4, <1>7, <2>0, <2>1, <2>3, OneMoreMissed
  <2>5. ~Hunting' => 7 * missed' + Left(parser') <= MostLeft
    <3>1. parser'.state = "SYNC" => Hunting'
      BY DEF Hunting
    <3> QED
      BY <1>4, <1>7, <2>0, <2>1, <2>3, <3>1, OneMoreMissed
  <2>6. Swallowed'
    <3>1. ShortestFrame * missed' <= MostLeft + ShortestFrame - 1
      BY <1>7, <2>1, <2>4, <1>4
    <3>2. wire' = <<>>
      BY <1>3, <1>9
    <3> QED
      BY <1>7, <2>5, <3>1, <3>2 DEF Swallowed
  <2> QED
    BY <1>3, <1>6, <1>8, <2>6 DEF LinkInv
<1>10. CASE Len(wire) = 1 /\ ~(whole /\ Plain(frame) /\ result' # "FRAME")
  <2>1. missed' = 0 /\ wire' = <<>>
    BY <1>1, <1>3, <1>10 DEF Counted
  <2>2. Swallowed'
    BY <1>7, <2>1 DEF Swallowed
  <2> QED
    BY <1>3, <1>6, <1>8, <2>2 DEF LinkInv
<1>11. CASE Len(wire) # 1
  <2>1. missed' = missed /\ wire' # <<>>
    BY <1>1, <1>3, <1>11 DEF Counted
  <2>2. ASSUME whole', ~aligned', Plain(frame')
        PROVE  \/ ~Hunting' /\ ShortestFrame * missed' + Through' + Left(parser') <= MostLeft
               \/ Through' >= 1 /\ parser'.state = "SYNC" /\ ShortestFrame * missed' < MostLeft
    <3>1. \/ /\ ~Hunting'
             /\ 7 * missed + (Through + 1) + Left(parser') <= MostLeft
          \/ /\ parser'.state = "SYNC" /\ 7 * missed < MostLeft
      BY <1>1, <1>2, <2>2, SwallowStep DEF byte
    <3>2. Through + 1 >= 1
      BY <1>3
    <3> QED
      BY <1>3, <1>7, <2>1, <3>1, <3>2
  <2>3. ShortestFrame * missed' <= MostLeft + ShortestFrame - 1
    BY <1>2, <2>1 DEF Swallowed
  <2>4. Swallowed'
    BY <2>1, <2>2, <2>3 DEF Swallowed
  <2> QED
    BY <1>3, <1>6, <1>8, <2>4 DEF LinkInv
<1> QED
  BY <1>9, <1>10, <1>11

(***************************************************************************)
(* A byte that is damaged or lost: the frame is not whole any more.        *)
(***************************************************************************)
LEMMA BrokenLink ==
    ASSUME IInv, IInv', OnWire, Swallowed, wire # <<>>, wire' = Tail(wire), frame' = frame,
           ~whole', Counted(FALSE), Folded(parser'), ChecksWhole'
    PROVE  LinkInv'
<1>1. OnWire' /\ (wire' = <<>> <=> Len(wire) = 1)
  BY WireStep
<1>2. Followed'
  BY DEF Followed
<1>3. MostLeft \in Nat /\ Left(parser') \in Nat /\ Left(parser') <= MostLeft /\ ShortestFrame = 7
  BY LeftKind DEF IInv, ShortestFrame, RESP_HEADER_LEN
<1>4. CASE Len(wire) = 1
  <2>1. missed' = 0
    BY <1>4 DEF Counted
  <2>2. Swallowed'
    BY <1>3, <2>1 DEF Swallowed
  <2> QED
    BY <1>1, <1>2, <2>2 DEF LinkInv
<1>5. CASE Len(wire) # 1
  <2>1. missed' = missed /\ wire' # <<>>
    BY <1>1, <1>5 DEF Counted
  <2>2. Swallowed'
    BY <2>1 DEF Swallowed
  <2> QED
    BY <1>1, <1>2, <2>2 DEF LinkInv
<1> QED
  BY <1>4, <1>5

(***************************************************************************)
(* Noise and reset() come between two frames, or into one that is then not *)
(* whole any more.                                                         *)
(***************************************************************************)
LEMMA StrayLink ==
    ASSUME IInv, IInv', OnWire, UNCHANGED <<wire, frame>>, whole' => wire = <<>>, missed' = 0,
           Folded(parser'), ChecksWhole'
    PROVE  LinkInv'
<1>1. OnWire'
  BY DEF OnWire, Through
<1>2. Followed'
  BY DEF Followed
<1>3. MostLeft \in Nat /\ Left(parser') \in Nat /\ Left(parser') <= MostLeft /\ ShortestFrame = 7
  BY LeftKind DEF IInv, ShortestFrame, RESP_HEADER_LEN
<1>4. Swallowed'
  BY <1>3 DEF Swallowed
<1> QED
  BY <1>1, <1>2, <1>4 DEF LinkInv

LEMMA SendLink == ASSUME IInv, LinkInv, NEW f \in Frames, Send(f) PROVE LinkInv'
<1>1. /\ wire = <<>> /\ frame' = f /\ wire' = Encoded(f) /\ aligned' = Hunting
      /\ result' = "NEED_MORE" /\ parser' = parser /\ missed' = missed
  BY DEF Send
<1>2. Folded(parser) /\ Swallowed
  BY DEF LinkInv
<1>3. Encoded(f) \in Seq(Byte) /\ Len(Encoded(f)) = 7 + Len(f.payload) /\ Len(f.payload) \in Nat
  <2>1. Encoded(f) \in Seq(Byte) /\ Len(Encoded(f)) = 7 + Len(f.payload)
    BY EncodedShape
  <2>2. Len(f.payload) \in Nat
    BY FrameContents DEF Crcs
  <2> QED
    BY <2>1, <2>2
<1>4. Through' = 0
  BY <1>1, <1>3 DEF Through
<1>5. OnWire'
  BY <1>1, <1>3, <1>4 DEF OnWire
<1>6. wire' # <<>>
  <2>1. Encoded(f) # <<>>
    BY <1>3, EmptySeq
  <2> QED
    BY <1>1, <2>1
<1>7. Followed'
  <2> SUFFICES ASSUME aligned' PROVE Follows(parser', frame', Through')
    BY DEF Followed
  <2>1. parser.state \in {"SYNC", "TYPE"}
    BY <1>1 DEF Hunting
  <2>2. Follows(parser, f, 0)
    BY <1>3, <2>1 DEF Follows
  <2> QED
    BY <1>1, <1>4, <2>2
<1>8. MostLeft \in Nat /\ Left(parser) \in Nat /\ missed \in Nat /\ ShortestFrame = 7
  BY LeftKind DEF IInv, TypeOK, ShortestFrame, RESP_HEADER_LEN
<1>9. Swallowed'
  <2>1. ASSUME ~aligned'
        PROVE  ~Hunting' /\ ShortestFrame * missed' + Through' + Left(parser') <= MostLeft
    <3>1. ~Hunting
      BY <1>1, <2>1
    <3>2. 7 * missed + Left(parser) <= MostLeft
      BY <1>1, <1>2, <1>8, <3>1 DEF Swallowed
    <3>3. ~Hunting'
      BY <1>1, <3>1 DEF Hunting
    <3> QED
      BY <1>1, <1>4, <1>8, <3>2, <3>3
  <2>2. ShortestFrame * missed' <= MostLeft + ShortestFrame - 1
    BY <1>1, <1>2 DEF Swallowed
  <2> QED
    BY <1>6, <2>1, <2>2 DEF Swallowed
<1>10. ChecksWhole'
  BY <1>1 DEF ChecksWhole
<1>11. Folded(parser')
  BY <1>1, <1>2
<1> QED
  BY <1>5, <1>7, <1>9, <1>10, <1>11 DEF LinkInv

LEMMA NextLinkInv == IInv /\ IInv' /\ LinkInv /\ [Next]_vars => LinkInv'
<1> SUFFICES ASSUME IInv, IInv', LinkInv, [Next]_vars PROVE LinkInv'
  OBVIOUS
<1>1. Folded(parser) /\ ChecksWhole /\ OnWire /\ Followed /\ Swallowed
  BY DEF LinkInv
<1>2. ASSUME NEW f \in Frames, Send(f) PROVE LinkInv'
  BY <1>2, SendLink
<1>3. ASSUME Arrive PROVE LinkInv'
  BY <1>3, ArriveLink
<1>4. ASSUME NEW byte \in NoiseBytes, Damage(byte) PROVE LinkInv'
  <2>1. byte \in Byte
    BY ParserAssumption
  <2>2. /\ Take(byte) /\ wire # <<>> /\ wire' = Tail(wire) /\ frame' = frame /\ ~whole'
        /\ Counted(FALSE)
    BY <1>4 DEF Damage, Fault
  <2>3. Folded(parser') /\ ChecksWhole'
    BY <1>1, <2>1, <2>2, TakeLink
  <2> QED
    BY <1>1, <2>2, <2>3, BrokenLink
<1>5. ASSUME NEW byte \in NoiseBytes, Noise(byte) PROVE LinkInv'
  <2>1. byte \in Byte
    BY ParserAssumption
  <2>2. /\ Take(byte) /\ UNCHANGED <<wire, frame>> /\ missed' = 0
        /\ whole' => wire = <<>>
    BY <1>5 DEF Noise, Fault
  <2>3. Folded(parser') /\ ChecksWhole'
    BY <1>1, <2>1, <2>2, TakeLink
  <2> QED
    BY <1>1, <2>2, <2>3, StrayLink
<1>6. ASSUME Drop PROVE LinkInv'
  <2>1. /\ wire # <<>> /\ wire' = Tail(wire) /\ frame' = frame /\ ~whole'
        /\ Counted(FALSE) /\ parser' = parser /\ result' = "NEED_MORE"
    BY <1>6 DEF Drop, Fault
  <2>2. Folded(parser') /\ ChecksWhole'
    BY <1>1, <2>1 DEF ChecksWhole
  <2> QED
    BY <1>1, <2>1, <2>2, BrokenLink
<1>7. ASSUME Reset PROVE LinkInv'
  <2>1. /\ parser' = [parser EXCEPT !.state = "SYNC"] /\ UNCHANGED <<wire, frame>> /\ missed' = 0
        /\ whole' => wire = <<>>
        /\ result' = "NEED_MORE"
    BY <1>7 DEF Reset
  <2>2. parser'.state = "SYNC"
    BY <2>1 DEF IInv, TypeOK, Parsers
  <2>3. Folded(parser') /\ ChecksWhole'
    BY <2>1, <2>2 DEF Folded, ChecksWhole
  <2> QED
    BY <1>1, <2>1, <2>3, StrayLink
<1>8. CASE UNCHANGED vars
  <2>1. /\ parser' = parser /\ result' = result /\ wire' = wire /\ frame' = frame
        /\ whole' = whole /\ aligned' = aligned /\ missed' = missed
    BY <1>8 DEF vars
  <2> QED
    BY <1>1, <2>1
    DEF LinkInv, ChecksWhole, Delivered, OnWire, Through, Followed, Swallowed, Hunting
<1> QED
  BY <1>2, <1>3, <1>4, <1>5, <1>6, <1>7, <1>8 DEF Next

LEMMA LinkInductive == Spec => [](IInv /\ LinkInv)
<1>1. Init => LinkInv
  BY InitLinkInv
<1>2. IInv /\ IInv' /\ LinkInv /\ [Next]_vars => LinkInv'
  BY NextLinkInv
<1> QED
  BY <1>1, <1>2, Inductive, PTL DEF Spec

(***************************************************************************)
(* Whatever the noise, and however it is cut: the parser hands over what   *)
(* has the checksum of all of it, payload length included (feed(),         *)
(* State::CRC_HI).                                                         *)
(***************************************************************************)
THEOREM ChecksWholeHolds == Spec => []ChecksWhole
<1>1. LinkInv => ChecksWhole
  BY DEF LinkInv
<1> QED
  BY <1>1, LinkInductive, PTL

(***************************************************************************)
(* A frame of any length and any payload that arrives whole, while the     *)
(* parser hunts, is delivered as it was sent, with bytes in it that look   *)
(* like a sync byte or without.                                            *)
(***************************************************************************)
THEOREM AlignedIsDelivered == Spec => AlignedDelivered
<1>1. ASSUME IInv, LinkInv, Arrive, Len(wire) = 1, whole, aligned
      PROVE  result' = "FRAME" /\ Delivered' = frame
  <2> DEFINE byte == Head(wire)
  <2>1. /\ wire # <<>> /\ wire' = Tail(wire) /\ frame' = frame
        /\ parser' = Feed(parser, byte) /\ result' = FedResult(parser, byte)
    BY <1>1 DEF Arrive, Take
  <2>2. Folded(parser) /\ OnWire /\ Followed /\ InBounds(parser) /\ frame \in Frames
    BY <1>1 DEF LinkInv, IInv, TypeOK
  <2>3. Len(frame.payload) \in Nat
    BY <2>2, FrameContents DEF Crcs
  <2>4. /\ Through = (7 + Len(frame.payload)) - Len(wire)
        /\ byte = Encoded(frame)[Through + 1]
    BY <1>1, <2>1, <2>2, WireStep
  <2>5. Through = 6 + Len(frame.payload) /\ Through + 1 = 7 + Len(frame.payload)
    BY <1>1, <2>3, <2>4
  <2>6. Follows(parser, frame, 6 + Len(frame.payload))
    BY <1>1, <2>1, <2>2, <2>5 DEF Followed
  <2>7. byte = Encoded(frame)[7 + Len(frame.payload)]
    BY <2>4, <2>5
  <2> HIDE DEF byte
  <2>8. FedResult(parser, byte) = "FRAME" /\ Taken(Feed(parser, byte)) = frame
    BY <2>2, <2>6, <2>7, FollowsToEnd
  <2>9. Delivered' = Taken(parser')
    BY DEF Delivered, Taken
  <2> QED
    BY <2>1, <2>8, <2>9
<1>2. IInv /\ LinkInv /\ [Next]_vars
        => [Arrive /\ Len(wire) = 1 /\ whole /\ aligned
              => result' = "FRAME" /\ Delivered' = frame]_vars
  BY <1>1
<1> QED
  BY <1>2, LinkInductive, PTL DEF Spec, AlignedDelivered

(***************************************************************************)
(* However large the buffer, a damaged length costs a bounded number of    *)
(* frames in a row: those that fit into the largest payload it can claim.  *)
(***************************************************************************)
THEOREM MissedBoundedHolds == Spec => []MissedBounded
<1>1. ASSUME IInv, LinkInv PROVE MissedBounded
  <2>1. MostLeft \in Nat /\ missed \in Nat /\ ShortestFrame = 7
    BY <1>1, LeftKind DEF IInv, TypeOK, ShortestFrame, RESP_HEADER_LEN
  <2>2. 7 * missed <= MostLeft + 6
    BY <1>1, <2>1 DEF LinkInv, Swallowed
  <2> DEFINE top == MostLeft + 6
  <2>3. top \in Nat /\ 7 * missed <= top
    BY <2>1, <2>2
  <2> HIDE DEF top
  <2>4. missed <= top \div 7
    BY <2>1, <2>3
  <2>5. (RESP_HEADER_LEN + MaxRxPayload + 2 + ShortestFrame - 1) = top
    <3>1. RESP_HEADER_LEN = 3 /\ MaxRxPayload \in Nat
      BY ParserAssumption DEF RESP_HEADER_LEN, Crcs
    <3> QED
      BY <2>1, <3>1 DEF top, MostLeft
  <2> QED
    BY <2>1, <2>4, <2>5 DEF MissedBounded
<1> QED
  BY <1>1, LinkInductive, PTL

=============================================================================
