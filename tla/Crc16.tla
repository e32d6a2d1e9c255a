------------------------------- MODULE Crc16 -------------------------------
(***************************************************************************)
(* The check sum of lib/telemetry/src/crc16.c on uint16_t remainders.  The *)
(* loop over the bits of a byte (j = 1 .. 7) shifts seven times, not       *)
(* eight.                                                                  *)
(***************************************************************************)
EXTENDS Integers, Sequences

Bytes      == 0..(2^8 - 1)
Remainders == 0..(2^16 - 1)

\* Bit i of x, and x with bit i inverted.
Bit(x, i)  == (x \div 2^i) % 2
Flip(x, i) == IF Bit(x, i) = 1 THEN x - 2^i ELSE x + 2^i

Xor8(a, b) ==
  LET x(i) == ((Bit(a, i) + Bit(b, i)) % 2) * 2^i
  IN x(0) + x(1) + x(2) + x(3) + x(4) + x(5) + x(6) + x(7)

\* remainder ^ (byte << 8)
Mix(r, b) == 256 * Xor8(r \div 256, b) + (r % 256)

\* remainder << 1 in 16 bits, and ^ 0x1021 if the highest bit was set: bits
\* 12 and 5 inverted, bit 0, which the shift cleared, set.
Shift(r) ==
  IF r >= 32768 THEN Flip(Flip(2 * r - 65536, 12), 5) + 1 ELSE 2 * r

Shift7(r) == Shift(Shift(Shift(Shift(Shift(Shift(Shift(r)))))))

\* crc16_recursive(byte, remainder)
Crc16Recursive(r, b) == Shift7(Mix(r, b))

\* crc16(data, len)
Crc16Of(s) ==
  LET rem[i \in 0..Len(s)] ==
        IF i = 0 THEN 0 ELSE Crc16Recursive(rem[i - 1], s[i])
  IN rem[Len(s)]

\* The two bytes append2 makes of it: the processor is little endian.
CrcBytes(s) == <<Crc16Of(s) % 256, Crc16Of(s) \div 256>>
=============================================================================
