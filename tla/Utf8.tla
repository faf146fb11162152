--------------------------------- MODULE Utf8 ---------------------------------
(***************************************************************************)
(* Bytes, and UTF-8 as the Unicode standard defines it: by the scalar values*)
(* a sequence of bytes can stand for, not by tables.  The reference for the *)
(* two decoders of json.hpp.                                                *)
(***************************************************************************)
EXTENDS Integers, Sequences

Bytes == 0 .. 255

Quote     == 34
Backslash == 92

\* How many bytes the sequence has that begins with b; 0 if none does.
Width(b) == IF b < 128 THEN 1
            ELSE IF b \in 192 .. 223 THEN 2
            ELSE IF b \in 224 .. 239 THEN 3
            ELSE IF b \in 240 .. 247 THEN 4
            ELSE 0

\* The scalar values: how many bytes they need, from which one to which one.
ScalarRanges == {<<1, 0, 127>>, <<2, 128, 2047>>, <<3, 2048, 55295>>, <<3, 57344, 65535>>,
                 <<4, 65536, 1114111>>}

LeadBits(b) == b % <<128, 32, 16, 8>>[Width(b)]

\* What the bytes stand for that begin with b, by the six bits of each of the
\* others; those there are none of do not count.
Scalar(b, c, d, e) ==
  IF Width(b) = 1 THEN LeadBits(b)
  ELSE IF Width(b) = 2 THEN 64 * LeadBits(b) + c
  ELSE IF Width(b) = 3 THEN 4096 * LeadBits(b) + 64 * c + d
  ELSE 262144 * LeadBits(b) + 4096 * c + 64 * d + e

\* Some scalar value of that many bytes lies between low and high.
Between(width, low, high) ==
  \E r \in ScalarRanges : r[1] = width /\ low <= r[3] /\ r[2] <= high

\* The six bits of the byte at k, or fill if k is behind z.
TailBits(s, k, z, fill) == IF k <= z THEN s[k] % 64 ELSE fill

\* What the bytes from a to z stand for, if the bits behind them are those of fill.
Filled(s, a, z, fill) ==
  Scalar(s[a], TailBits(s, a + 1, z, fill), TailBits(s, a + 2, z, fill),
         TailBits(s, a + 3, z, fill))

\* Some scalar value's bytes begin with the bytes of s from a to z.
Starts(s, a, z) ==
  /\ Width(s[a]) >= z - a + 1
  /\ \A k \in a + 1 .. z : s[k] \in 128 .. 191
  /\ Between(Width(s[a]), Filled(s, a, z, 0), Filled(s, a, z, 63))

\* The bytes from a to z are one scalar value's.
IsScalar(s, a, z) == Width(s[a]) = z - a + 1 /\ Starts(s, a, z)

\* The longest sequence from a on that may be the start of a scalar value.
Longest(s, a) ==
  CHOOSE z \in a .. Len(s) :
    /\ z = a \/ Starts(s, a, z)
    /\ z = Len(s) \/ ~Starts(s, a, z + 1)

\* What becomes of s if every sequence that is not a scalar value is replaced.
Repaired(s, replacement) ==
  LET from[a \in Nat] ==
        IF a > Len(s) THEN <<>>
        ELSE LET z == Longest(s, a)
             IN (IF IsScalar(s, a, z) THEN SubSeq(s, a, z) ELSE replacement) \o from[z + 1]
  IN from[1]

\* Every byte belongs to a scalar value.
WellFormed(s) ==
  \A k \in 1 .. Len(s) : \E a \in 1 .. k : \E z \in k .. Len(s) : IsScalar(s, a, z)
=============================================================================
