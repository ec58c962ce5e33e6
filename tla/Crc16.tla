-------------------------------- MODULE Crc16 --------------------------------
(***************************************************************************)
(* CRC16-CCITT-FALSE (crc16.h).  crc16_update() XORs the byte into the     *)
(* upper half and then shifts eight times; here a bit of the byte is       *)
(* XORed in just before the shift that moves it out, which is the same.    *)
(***************************************************************************)
EXTENDS Integers, Sequences

CRC16_INIT == 65535

Crcs == {n \in Nat : n < 65536}

Bit(n, place) == (n \div place) % 2

\* n ^ place, for a power of two.
Flipped(n, place) == IF Bit(n, place) = 1 THEN n - place ELSE n + place

\* crc << 1, and ^ 0x1021 (4096 + 32 + 1) when a one is shifted out.
Shifted(crc, bit) ==
    IF Bit(crc, 32768) = bit
    THEN (2 * crc) % 65536
    ELSE Flipped(Flipped((2 * crc) % 65536, 4096), 32) + 1

Crc16Update(crc, byte) ==
    LET after(c, place) == Shifted(c, Bit(byte, place))
    IN  after(after(after(after(after(after(after(after(
            crc, 128), 64), 32), 16), 8), 4), 2), 1)

\* The checksum after each of the bytes, as the loop of crc16() has it.
Crc16Steps(bytes) ==
    LET crc[n \in 0 .. Len(bytes)] ==
            IF n = 0 THEN CRC16_INIT ELSE Crc16Update(crc[n - 1], bytes[n])
    IN  crc

\* crc16()
Crc16Of(bytes) == Crc16Steps(bytes)[Len(bytes)]

\* The value that tells this CRC from its relatives: 0x29B1 for the digits
\* "123456789".
ASSUME CheckValue == Crc16Of(<<49, 50, 51, 52, 53, 54, 55, 56, 57>>) = 10673

=============================================================================
