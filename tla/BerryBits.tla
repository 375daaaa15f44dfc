------------------------------ MODULE BerryBits ------------------------------
(***************************************************************************)
(* The conversions of be_byteslib.c between bytes, integers, bit fields,   *)
(* hexadecimal and base64.  Bytes and characters are numbers 0 .. 255,     *)
(* buffers are sequences of them, offsets count from 0 as in the code.     *)
(***************************************************************************)
EXTENDS Integers, Sequences, SequencesExt

At(s, offset) == s[offset + 1]

\* Lowest of two integers.
Less(a, b) == IF a < b THEN a ELSE b

-----------------------------------------------------------------------------
(* Integers of 1 to 4 bytes: n < 0 is big endian.                          *)

Width(n) == IF n < 0 THEN -n ELSE n

\* What buf_add and buf_set put into the buffer.
Packed(v, n) ==
    LET little == [i \in 1 .. Width(n) |-> (v \div 256 ^ (i - 1)) % 256]
    IN  IF n < -1 THEN Reverse(little) ELSE little

\* buf_room(): a value of this width fits at the offset.
Room(s, offset, n) == offset >= 0 /\ offset + Width(n) <= Len(s)

\* buf_get1 .. buf_get4: 0 where there is no room.  The 32-bit value of four
\* bytes is signed.
Get(s, offset, n) ==
    IF ~Room(s, offset, n) THEN 0
    ELSE LET b(i) == At(s, IF n < -1 THEN offset + Width(n) - 1 - i
                           ELSE offset + i)
             byte(i) == IF i >= Width(n) THEN 0 ELSE b(i)
             top == IF byte(3) >= 128 THEN byte(3) - 256 ELSE byte(3)
         IN  byte(0) + 256 * byte(1) + 65536 * byte(2) + 16777216 * top

\* m_get(): the casts of geti.
Signed(v, n) ==
    LET half == 128 * 256 ^ (Width(n) - 1)
    IN  IF Width(n) < 4 /\ v >= half THEN v - 2 * half ELSE v

\* An index from the end; still negative means nothing is read or written.
FromEnd(s, index) == IF index < 0 THEN Len(s) + index ELSE index

GetInt(s, index, n, sign) ==
    LET at == FromEnd(s, index)
    IN  IF at < 0 \/ n = 0 THEN 0
        ELSE IF sign THEN Signed(Get(s, at, n), n) ELSE Get(s, at, n)

\* The buffer with these bytes in place of its own.
Over(s, offset, bytes) ==
    [i \in 1 .. Len(s) |-> IF i > offset /\ i <= offset + Len(bytes)
                           THEN bytes[i - offset] ELSE s[i]]

\* buf_set1 .. buf_set4 behind m_set() and m_setfloat().
SetInt(s, index, v, n) ==
    LET at == FromEnd(s, index)
    IN  IF n # 0 /\ Room(s, at, n) THEN Over(s, at, Packed(v, n)) ELSE s

-----------------------------------------------------------------------------
(* Bit fields: the loops of m_getbits() and m_setbits(), a byte at a time. *)

ByteOr0(s, i) == IF i >= 0 /\ i < Len(s) THEN At(s, i) ELSE 0

\* One round of a loop: the byte, the first bit in it, how many bits.
BitBlocks(offset, n) ==
    LET first == Less(8 - (offset % 8), n)
        others == IF n = first THEN 0 ELSE (n - first + 7) \div 8
    IN  [k \in 1 .. (IF n = 0 THEN 0 ELSE 1 + others) |->
           [byte |-> offset \div 8 + k - 1,
            from |-> IF k = 1 THEN offset % 8 ELSE 0,
            bits |-> IF k = 1 THEN first ELSE Less(8, n - first - 8 * (k - 2)),
            done |-> IF k = 1 THEN 0 ELSE first + 8 * (k - 2)]]

GetBits(s, offset, len) ==
    LET big == len < 0
        read(value, b) ==
          IF big THEN value * 2 ^ b.bits
                      + ((ByteOr0(s, b.byte) \div 2 ^ (8 - b.from - b.bits))
                           % 2 ^ b.bits)
          ELSE value + ((ByteOr0(s, b.byte) \div 2 ^ b.from) % 2 ^ b.bits)
                         * 2 ^ b.done
    IN  FoldLeft(read, 0, BitBlocks(offset, Width(len)))

\* Mutant: the last byte of a big-endian field is filled from its low end.
SetBits_LowEnd(s, offset, len, v) ==
    LET n == Width(len)
        blocks == BitBlocks(offset, n)
        written(cur, b) ==
          LET extracted == (v \div 2 ^ (IF len < 0 THEN n - b.done - b.bits ELSE b.done))
                             % 2 ^ b.bits
          IN  cur + (extracted - ((cur \div 2 ^ b.from) % 2 ^ b.bits)) * 2 ^ b.from
    IN  [i \in 1 .. Len(s) |-> LET k == i - offset \div 8
                               IN  IF k \in DOMAIN blocks THEN written(s[i], blocks[k])
                                   ELSE s[i]]

\* Each round writes one byte, the one after that of the round before.
SetBits(s, offset, len, v) ==
    LET n == Width(len)
        blocks == BitBlocks(offset, n)
        written(cur, b) ==
          LET extracted == (v \div 2 ^ (IF len < 0 THEN n - b.done - b.bits ELSE b.done))
                             % 2 ^ b.bits
              low == IF len < 0 THEN 8 - b.from - b.bits ELSE b.from
          IN  cur + (extracted - ((cur \div 2 ^ low) % 2 ^ b.bits)) * 2 ^ low
    IN  [i \in 1 .. Len(s) |-> LET k == i - offset \div 8
                               IN  IF k \in DOMAIN blocks THEN written(s[i], blocks[k])
                                   ELSE s[i]]

-----------------------------------------------------------------------------
(* Hexadecimal and base64 text.                                            *)

HexDigit(v) == IF v < 10 THEN v + 48 ELSE v + 55

\* be_bytes_tohex(), and the loop of m_appendhex().
ToHex(s) == [i \in 1 .. 2 * Len(s) |->
               HexDigit(IF i % 2 = 1 THEN s[(i + 1) \div 2] \div 16
                        ELSE s[i \div 2] % 16)]

\* asc2byte(): any other character counts as 0.
HexValue(c) ==
    CASE c \in 48 .. 57  -> c - 48
      [] c \in 65 .. 70  -> c - 55
      [] c \in 97 .. 102 -> c - 87
      [] OTHER           -> 0

\* buf_add_hex(): a digit without a partner is left out.
FromHex(text) == [i \in 1 .. Len(text) \div 2 |->
                    16 * HexValue(text[2 * i - 1]) + HexValue(text[2 * i])]

Char64(v) ==
    CASE v < 26 -> v + 65
      [] v \in 26 .. 51 -> v + 71
      [] v \in 52 .. 61 -> v - 4
      [] v = 62 -> 43
      [] v = 63 -> 47

Value64(c) ==
    CASE c \in 65 .. 90  -> c - 65
      [] c \in 97 .. 122 -> c - 71
      [] c \in 48 .. 57  -> c + 4
      [] c = 43 -> 62
      [] c = 47 -> 63
      [] OTHER  -> 255

Pad == 61

\* encode_base64(): three bytes make four characters; a rest of one or two
\* bytes is padded.
Encode64(s) ==
    LET byte(i) == IF i <= Len(s) THEN s[i] ELSE 0
        group(g) ==
          LET a == byte(3 * g + 1)  b == byte(3 * g + 2)  c == byte(3 * g + 3)
          IN  << Char64(a \div 4), Char64((a % 4) * 16 + b \div 16),
                 IF 3 * g + 2 <= Len(s) THEN Char64((b % 16) * 4 + c \div 64)
                 ELSE Pad,
                 IF 3 * g + 3 <= Len(s) THEN Char64(c % 64) ELSE Pad >>
    IN  [i \in 1 .. ((Len(s) + 2) \div 3) * 4 |->
           group((i - 1) \div 4)[((i - 1) % 4) + 1]]

\* The characters before the first that base64 does not have.
Text64(text) ==
    LET ends == {i \in 1 .. Len(text) : Value64(text[i]) >= 64}
    IN  IF ends = {} THEN text
        ELSE SubSeq(text, 1, (CHOOSE i \in ends : \A j \in ends : i <= j) - 1)

Decode64Length(text) ==
    LET n == Len(Text64(text))
    IN  (n \div 4) * 3 + (CASE n % 4 = 2 -> 1 [] n % 4 = 3 -> 2 [] OTHER -> 0)

\* decode_base64(): the shifts are cut to eight bits.
Decode64(text) ==
    LET v(i) == Value64(text[i])
    IN  [i \in 1 .. Decode64Length(text) |->
           LET c == 4 * ((i - 1) \div 3)
           IN  CASE i % 3 = 1 -> (v(c + 1) * 4 + v(c + 2) \div 16) % 256
                 [] i % 3 = 2 -> (v(c + 2) * 16 + v(c + 3) \div 4) % 256
                 [] i % 3 = 0 -> (v(c + 3) * 64 + v(c + 4)) % 256]
=============================================================================
