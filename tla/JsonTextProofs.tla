---------------------------- MODULE JsonTextProofs ----------------------------
(***************************************************************************)
(* A message arrives: what dump writes of it, the parser reads back.  The   *)
(* text of dump spells the message at every step, with what is no UTF-8     *)
(* repaired; so the tokens of the text are known, and with them what the    *)
(* builder has stored at each of them, which is what from_json reads.       *)
(***************************************************************************)
EXTENDS JsonParserProofs

USE DEF UTF8_ACCEPT, UTF8_REJECT

-----------------------------------------------------------------------------
(* What dump writes of a scalar value. *)

\* What is in the buffer of a scalar value before its last byte.
Before(s) == IF ensure_ascii THEN <<>> ELSE SubSeq(s, 1, Len(s) - 1)

LEMMA NothingBefore == ASSUME NEW e \in Seq(Bytes) PROVE <<>> \o e = e
OBVIOUS

\* What dump writes of an ASCII character is read as it.
LEMMA UnitOfAscii ==
  ASSUME NEW cp \in Nat, cp <= 127, ensure_ascii \in BOOLEAN
  PROVE  Encodes(Escaped(cp, cp), <<cp>>)
<1>1. cp \in Bytes /\ <<cp>> \in Seq(Bytes)
  BY SMTT(60) DEF Bytes
<1>2. CASE HasShortEscape(cp)
  <2>1. Escaped(cp, cp) = ShortEscape(cp)
    BY <1>2 DEF Escaped
  <2>2. ShortEscape(cp) \in Seq(Bytes) /\ IsUnitOf(ShortEscape(cp), <<cp>>)
    BY <1>2, ShortUnit
  <2> QED BY <1>1, <2>1, <2>2, UnitEncodes
<1>3. CASE ~HasShortEscape(cp) /\ ByNumber(cp)
  <2>1. cp <= 65535 /\ cp < 55296
    BY SMTT(60)
  <2>2. Escaped(cp, cp) = Hex4(cp)
    BY <1>3, <2>1 DEF Escaped
  <2>3. Hex4(cp) \in Seq(Bytes)
    BY Hex4Type
  <2>4. IsUnitOf(Hex4(cp), Utf8(cp))
    BY <2>1, HexUnit
  <2>5. Utf8(cp) = <<cp>>
    <3>1. cp < 128
      BY SMTT(60)
    <3> QED BY <3>1 DEF Utf8
  <2> QED BY <1>1, <2>2, <2>3, <2>4, <2>5, UnitEncodes
<1>4. CASE ~HasShortEscape(cp) /\ ~ByNumber(cp)
  <2>1. Escaped(cp, cp) = <<cp>>
    BY <1>4 DEF Escaped
  <2>2. cp \in 32 .. 127
    BY <1>4, SMTT(60) DEF ByNumber
  <2>3. cp # Quote /\ cp # Backslash
    <3>1. <<Quote, Quote>> \in ShortEscapes /\ <<Backslash, Backslash>> \in ShortEscapes
      BY DEF ShortEscapes
    <3>2. <<Quote, Quote>>[1] = Quote /\ <<Backslash, Backslash>>[1] = Backslash
      OBVIOUS
    <3> QED BY <1>4, <3>1, <3>2 DEF HasShortEscape
  <2>4. <<cp>> \in Seq(Bytes) /\ IsUnitOf(<<cp>>, <<cp>>)
    BY <1>1, <2>2, <2>3, AsciiUnit
  <2> QED BY <2>1, <2>4, UnitEncodes
<1> QED BY <1>2, <1>3, <1>4

LEMMA NoShortEscape ==
  ASSUME NEW cp \in Nat, cp >= 128 PROVE ~HasShortEscape(cp)
<1>1. \A e \in ShortEscapes : e[1] \in Nat /\ e[1] < 128
  BY SMTT(60) DEF ShortEscapes, Quote, Backslash
<1> QED BY <1>1 DEF HasShortEscape

LEMMA LastAgain ==
  ASSUME NEW s \in Seq(Bytes), Len(s) > 0
  PROVE  SubSeq(s, 1, Len(s) - 1) \o <<s[Len(s)]>> = s
OBVIOUS

\* What dump writes of a longer scalar value is read as it.
LEMMA UnitOfWide ==
  ASSUME NEW s \in Seq(Bytes), OneScalar(s), Len(s) > 1, NEW cp, cp = CodeOf(s), CodeBack(s),
         NEW b, b = s[Len(s)], ensure_ascii \in BOOLEAN
  PROVE  Encodes(Before(s) \o Escaped(cp, b), s)
<1>1. cp \in Nat /\ cp >= 128 /\ cp <= 1114111 /\ (cp < 55296 \/ cp > 57343) /\ Utf8(cp) = s
  BY DEF CodeBack
<1>2. ~HasShortEscape(cp)
  BY <1>1, NoShortEscape
<1>3. cp > 31 /\ cp >= 127
  BY <1>1, SMTT(60)
<1>4. ByNumber(cp) <=> ensure_ascii
  BY <1>1, <1>2, <1>3, SMTT(60) DEF ByNumber
<1>5. CASE ~ensure_ascii
  <2>1. Escaped(cp, b) = <<b>>
    BY <1>2, <1>4, <1>5 DEF Escaped
  <2>2. Before(s) = SubSeq(s, 1, Len(s) - 1)
    BY <1>5 DEF Before
  <2>3. Before(s) \o Escaped(cp, b) = s
    BY <2>1, <2>2, LastAgain
  <2>4. IsUnitOf(s, s)
    BY MultibyteUnit
  <2> QED BY <2>3, <2>4, UnitEncodes
<1>6. CASE ensure_ascii /\ cp <= 65535
  <2>1. Escaped(cp, b) = Hex4(cp)
    BY <1>2, <1>4, <1>6 DEF Escaped
  <2>2. Hex4(cp) \in Seq(Bytes)
    BY <1>1, Hex4Type
  <2>3. Before(s) \o Escaped(cp, b) = Hex4(cp)
    BY <1>6, <2>1, <2>2, NothingBefore DEF Before
  <2>4. IsUnitOf(Hex4(cp), s)
    BY <1>1, <1>6, HexUnit
  <2> QED BY <2>2, <2>3, <2>4, UnitEncodes
<1>7. CASE ensure_ascii /\ ~(cp <= 65535)
  <2>1. Escaped(cp, b) = Pair(cp)
    BY <1>2, <1>4, <1>7 DEF Escaped, Pair
  <2>2. cp >= 65536
    BY <1>1, <1>7, SMTT(60)
  <2>3. Pair(cp) \in Seq(Bytes) /\ IsUnitOf(Pair(cp), s)
    BY <1>1, <2>2, PairUnit
  <2>4. Before(s) \o Escaped(cp, b) = Pair(cp)
    BY <1>7, <2>1, <2>3, NothingBefore DEF Before
  <2> QED BY <2>3, <2>4, UnitEncodes
<1> QED BY <1>5, <1>6, <1>7

\* Behind its last byte, what is written of a scalar value encodes it.
LEMMA WrittenEncodes ==
  ASSUME NEW s \in Seq(Bytes), OneScalar(s), ensure_ascii \in BOOLEAN,
         NEW cp, cp = Bits(s, 1, Len(s)), NEW b, b = s[Len(s)]
  PROVE  Encodes(Before(s) \o Escaped(cp, b), s)
<1>1. Shaped(s) /\ CodeBack(s) /\ Len(s) \in Nat \ {0}
  BY ScalarShaped, CodeIsBack DEF OneScalar
<1>2. cp = CodeOf(s)
  BY <1>1, BitsAreCode
<1>3. CASE Len(s) = 1
  <2>1. cp = s[1] /\ b = s[1] /\ cp \in Nat
    BY <1>1, <1>2, <1>3 DEF CodeBack
  <2>2. s = <<cp>> /\ cp <= 127
    <3>1. s[1] \in 0 .. 127 /\ s = <<s[1]>>
      BY <1>1, <1>3 DEF Shaped
    <3>2. s[1] <= 127
      <4>1. \A x \in 0 .. 127 : x <= 127
        BY SMTT(60)
      <4> QED BY <3>1, <4>1, Zenon
    <3> QED BY <2>1, <3>1, <3>2
  <2>3. Encodes(Escaped(cp, cp), <<cp>>)
    BY <2>1, <2>2, UnitOfAscii
  <2>4. Before(s) = <<>>
    BY <1>3 DEF Before
  <2>5. Escaped(cp, b) \in Seq(Bytes)
    BY <2>1, <2>3 DEF Encodes
  <2> QED BY <2>1, <2>2, <2>3, <2>4, <2>5, NothingBefore
<1>4. CASE Len(s) > 1
  BY <1>1, <1>2, <1>4, UnitOfWide
<1>5. Len(s) = 1 \/ Len(s) > 1
  <2>1. \A n \in Nat \ {0} : n = 1 \/ n > 1
    OBVIOUS
  <2> QED BY <1>1, <2>1, Zenon
<1> QED BY <1>3, <1>4, <1>5, Zenon

\* U+FFFD, as it is or by its number.
LEMMA ReplacementEncodes ==
  ASSUME ensure_ascii \in BOOLEAN
  PROVE  Encodes(Replacement, ReplacementBytes)
<1>1. ReplacementBytes \in Seq(Bytes)
  BY ListOf, SMTT(60) DEF ReplacementBytes, Bytes
<1>2. CASE ~ensure_ascii
  <2>1. OneScalar(ReplacementBytes) /\ Len(ReplacementBytes) > 1
    <3>1. /\ Len(ReplacementBytes) = 3 /\ ReplacementBytes[1] = 239
          /\ ReplacementBytes[2] = 191 /\ ReplacementBytes[3] = 189
      BY DEF ReplacementBytes
    <3>2. Width(239) = 3 /\ Second(239, 191) /\ 239 \in 0 .. 127 \cup 194 .. 244
          /\ 191 \in 128 .. 191 /\ 189 \in 128 .. 191
      BY SMTT(60) DEF Width, Second
    <3>3. \A k \in 2 .. 3 : ReplacementBytes[k] \in 128 .. 191
      <4>1. \A k \in 2 .. 3 : k = 2 \/ k = 3
        OBVIOUS
      <4> QED BY <3>1, <3>2, <4>1
    <3> QED BY <3>1, <3>2, <3>3 DEF OneScalar
  <2>2. IsUnitOf(ReplacementBytes, ReplacementBytes)
    BY <1>1, <2>1, MultibyteUnit
  <2> QED BY <1>1, <1>2, <2>2, UnitEncodes DEF Replacement
<1>3. CASE ensure_ascii
  <2>1. 65533 \in Nat /\ 65533 <= 65535 /\ 65533 > 57343 /\ ~(65533 < 128) /\ ~(65533 <= 2047)
    BY SMTT(60)
  <2>2. IsUnitOf(Hex4(65533), Utf8(65533)) /\ Hex4(65533) \in Seq(Bytes)
    BY <2>1, HexUnit, Hex4Type
  <2>3. Utf8(65533) = ReplacementBytes
    <3>1. Utf8(65533) = <<224 + (65533 \div 4096), Continuation(65533 \div 64),
            Continuation(65533)>>
      BY <2>1, SMTT(60) DEF Utf8
    <3>2. 224 + (65533 \div 4096) = 239 /\ Continuation(65533 \div 64) = 191
          /\ Continuation(65533) = 189
      BY SMTT(60) DEF Continuation
    <3> QED BY <3>1, <3>2, SMTT(60) DEF ReplacementBytes
  <2> QED BY <1>1, <1>3, <2>2, <2>3, UnitEncodes DEF Replacement
<1> QED BY <1>2, <1>3

-----------------------------------------------------------------------------
(* What is written of a string when a part of it is read. *)

\* Of the string s what is before a is repaired, and x is written; w was
\* written before the string.
Writes(s, fill, w, x, a) ==
  \E e : \E r : /\ x = w \o e /\ Encodes(e, r)
                /\ Mended(s, fill)[1] = r \o Mended(s, fill)[a]

Moved(a, b, c) == (a \o b) \o c = a \o (b \o c)

LEMMA Associates ==
  ASSUME NEW a \in Seq(Bytes), NEW b \in Seq(Bytes), NEW c \in Seq(Bytes)
  PROVE  Moved(a, b, c)
BY DEF Moved

\* Nothing is written yet.
LEMMA WritesNothing ==
  ASSUME NEW s \in Seq(Bytes), NEW fill \in Seq(Bytes), NEW w \in Seq(Bytes)
  PROVE  Writes(s, fill, w, w, 1)
<1>1. 1 \in Places
  BY DEF Places
<1>2. PICK x \in Seq(Bytes) : x = Mended(s, fill)[1]
  BY <1>1, MendedIs
<1>3. w = w \o <<>> /\ x = <<>> \o x
  OBVIOUS
<1> QED BY <1>2, <1>3, EncodesNothing DEF Writes

\* One piece more.
LEMMA WritesOn ==
  ASSUME NEW s \in Seq(Bytes), NEW fill \in Seq(Bytes), NEW w \in Seq(Bytes), NEW x, NEW a,
         Writes(s, fill, w, x, a), NEW z \in Nat, NEW b, MendsOn(s, fill, a, z, b),
         NEW f, Encodes(f, b)
  PROVE  Writes(s, fill, w, x \o f, z + 1)
<1>1. PICK e, r : /\ x = w \o e /\ Encodes(e, r)
                  /\ Mended(s, fill)[1] = r \o Mended(s, fill)[a]
  BY DEF Writes
<1>2. /\ e \in Seq(Bytes) /\ r \in Seq(Bytes) /\ f \in Seq(Bytes) /\ b \in Seq(Bytes)
  BY <1>1 DEF Encodes
<1>3. z + 1 \in Places
  BY DEF Places
<1>4. PICK m \in Seq(Bytes) : m = Mended(s, fill)[z + 1]
  BY <1>3, MendedIs
<1>5. Mended(s, fill)[a] = b \o m
  BY <1>4 DEF MendsOn
<1>6. Mended(s, fill)[1] = (r \o b) \o m
  <2>1. Moved(r, b, m)
    BY <1>2, Associates
  <2> QED BY <1>1, <1>4, <1>5, <2>1 DEF Moved
<1>7. x \o f = w \o (e \o f)
  <2>1. Moved(w, e, f)
    BY <1>2, Associates
  <2> QED BY <1>1, <2>1 DEF Moved
<1>8. Encodes(e \o f, r \o b)
  BY <1>1, EncodesBoth
<1> QED BY <1>4, <1>6, <1>7, <1>8 DEF Writes

\* What the buffer has of the bytes that are not yet accepted.
Held(s, n, u) == IF ensure_ascii THEN <<>> ELSE SubSeq(s, n - u + 1, n)

\* n bytes of the string s are read, the last u of them not yet decoded; in the
\* buffer and in out is what is written of those before.
Writing(s, fill, w, n, u, buf, bal, out) ==
  \E kept \in Seq(Bytes) :
    /\ buf = kept \o Held(s, n, u) /\ Len(kept) = bal
    /\ Writes(s, fill, w, out \o kept, n - u + 1)

LEMMA HeldNothing ==
  ASSUME NEW s \in Seq(Bytes), NEW n \in 0 .. Len(s)
  PROVE  Held(s, n, 0) = <<>>
BY DEF Held

LEMMA HeldType ==
  ASSUME NEW s \in Seq(Bytes), NEW n \in 0 .. Len(s), NEW u \in 0 .. n
  PROVE  Held(s, n, u) \in Seq(Bytes)
<1>1. CASE u = 0
  <2>1. Held(s, n, u) = <<>>
    BY <1>1, HeldNothing
  <2>2. <<>> \in Seq(Bytes)
    OBVIOUS
  <2> QED BY <2>1, <2>2
<1>2. CASE u # 0
  <2>1. n - u + 1 \in 1 .. Len(s) /\ n \in n - u + 1 .. Len(s)
    BY <1>2
  <2>2. SubSeq(s, n - u + 1, n) \in Seq(Bytes) /\ <<>> \in Seq(Bytes)
    BY <2>1, SubSeqIs
  <2> QED BY <2>2 DEF Held
<1> QED BY <1>1, <1>2

LEMMA OneLonger ==
  ASSUME NEW s \in Seq(Bytes), NEW n \in 0 .. Len(s) - 1, NEW a \in 1 .. n + 1
  PROVE  Append(SubSeq(s, a, n), s[n + 1]) = SubSeq(s, a, n + 1)
OBVIOUS

LEMMA AppendBehind ==
  ASSUME NEW a \in Seq(Bytes), NEW b \in Seq(Bytes), NEW x \in Bytes
  PROVE  Append(a \o b, x) = a \o Append(b, x)
OBVIOUS

Holding(buf, kept, s, n, u) == buf = kept \o Held(s, n, u)

\* A byte that completes nothing is kept.
LEMMA HeldOn ==
  ASSUME NEW s \in Seq(Bytes), NEW n \in 0 .. Len(s) - 1, NEW u \in 0 .. n,
         NEW kept \in Seq(Bytes), NEW buf, Holding(buf, kept, s, n, u)
  PROVE  Holding(IF ensure_ascii THEN buf ELSE Append(buf, s[n + 1]), kept, s, n + 1, u + 1)
<1>1. n - u + 1 = (n + 1) - (u + 1) + 1 /\ n - u + 1 \in 1 .. n + 1 /\ n + 1 \in 1 .. Len(s)
      /\ n \in 0 .. Len(s)
  OBVIOUS
<1>2. s[n + 1] \in Bytes
  BY <1>1, ByteAt DEF Bytes
<1>3. CASE ensure_ascii
  BY <1>3 DEF Held, Holding
<1>4. CASE ~ensure_ascii
  <2>1. Append(buf, s[n + 1]) = kept \o Append(Held(s, n, u), s[n + 1])
    BY <1>1, <1>2, HeldType, AppendBehind DEF Holding
  <2>2. Append(Held(s, n, u), s[n + 1]) = Held(s, n + 1, u + 1)
    BY <1>1, <1>4, OneLonger DEF Held
  <2> QED BY <1>4, <2>1, <2>2 DEF Holding
<1> QED BY <1>3, <1>4

\* A string begins.
LEMMA WritingBegins ==
  ASSUME NEW s \in Seq(Bytes), NEW fill \in Seq(Bytes), NEW w \in Seq(Bytes)
  PROVE  Writing(s, fill, w, 0, 0, <<>>, 0, w)
<1>1. 0 \in 0 .. Len(s) /\ 0 - 0 + 1 = 1 /\ <<>> \in Seq(Bytes) /\ Len(<<>>) = 0
      /\ <<>> \o <<>> = <<>> /\ w \o <<>> = w
  OBVIOUS
<1>2. Held(s, 0, 0) = <<>>
  BY <1>1, HeldNothing
<1> QED BY <1>1, <1>2, WritesNothing DEF Writing

\* A byte of a yet incomplete code point.
LEMMA WritingWaits ==
  ASSUME NEW s \in Seq(Bytes), NEW fill, NEW w, NEW n \in 0 .. Len(s) - 1, NEW u \in 0 .. n,
         NEW buf, NEW bal, NEW out, Writing(s, fill, w, n, u, buf, bal, out),
         NEW b, b = IF ensure_ascii THEN buf ELSE Append(buf, s[n + 1])
  PROVE  Writing(s, fill, w, n + 1, u + 1, b, bal, out)
<1>1. PICK kept \in Seq(Bytes) :
        /\ buf = kept \o Held(s, n, u) /\ Len(kept) = bal
        /\ Writes(s, fill, w, out \o kept, n - u + 1)
  BY DEF Writing
<1>2. b = kept \o Held(s, n + 1, u + 1)
  <2>1. Holding(buf, kept, s, n, u)
    BY <1>1 DEF Holding
  <2>2. Holding(IF ensure_ascii THEN buf ELSE Append(buf, s[n + 1]), kept, s, n + 1, u + 1)
    BY <2>1, HeldOn
  <2> QED BY <2>2 DEF Holding
<1>3. n - u + 1 = (n + 1) - (u + 1) + 1
  OBVIOUS
<1> QED BY <1>1, <1>2, <1>3 DEF Writing

\* What was accepted stays in the buffer, or is written out.
FlushedOr(b, buf, out, flushed) ==
  \/ buf = b /\ flushed = out
  \/ buf = <<>> /\ flushed = out \o b

\* A full buffer is written out.
LEMMA WritingFlushed ==
  ASSUME NEW s \in Seq(Bytes), NEW fill, NEW w, NEW z \in 0 .. Len(s),
         NEW out \in Seq(Bytes), NEW b \in Seq(Bytes), Writes(s, fill, w, out \o b, z + 1),
         NEW buf, NEW flushed, FlushedOr(b, buf, out, flushed), NEW bal, bal = Len(buf)
  PROVE  Writing(s, fill, w, z, 0, buf, bal, flushed)
<1>1. Held(s, z, 0) = <<>> /\ z - 0 + 1 = z + 1
  BY HeldNothing
<1>2. <<>> \in Seq(Bytes) /\ b \o <<>> = b /\ <<>> \o <<>> = <<>> /\ (out \o b) \o <<>> = out \o b
  OBVIOUS
<1>3. CASE buf = b /\ flushed = out
  BY <1>1, <1>2, <1>3 DEF Writing
<1>4. CASE buf = <<>> /\ flushed = out \o b
  BY <1>1, <1>2, <1>4 DEF Writing
<1> QED BY <1>3, <1>4 DEF FlushedOr

\* The bytes from a to z are one scalar value.
LEMMA OneScalarHere ==
  ASSUME NEW s \in Seq(Bytes), NEW a \in 1 .. Len(s), NEW z \in a .. Len(s),
         Begins(s, a, z), Width(s[a]) = z - a + 1
  PROVE  /\ OneScalar(SubSeq(s, a, z)) /\ Len(SubSeq(s, a, z)) = z - a + 1
         /\ SubSeq(s, a, z)[Len(SubSeq(s, a, z))] = s[z]
         /\ SubSeq(SubSeq(s, a, z), 1, Len(SubSeq(s, a, z)) - 1) = SubSeq(s, a, z - 1)
<1>1. PICK t \in Seq(Bytes) : t = SubSeq(s, a, z)
  BY SubSeqIs
<1>2. Len(t) = z - a + 1 /\ \A k \in 1 .. z - a + 1 : t[k] = s[a + k - 1]
  BY <1>1, SubSeqIs
<1>3. t[1] = s[a] /\ t[Len(t)] = s[z] /\ Len(t) \in Nat \ {0}
  <2>1. 1 \in 1 .. z - a + 1 /\ z - a + 1 \in 1 .. z - a + 1 /\ a + 1 - 1 = a
        /\ a + (z - a + 1) - 1 = z /\ z - a + 1 \in Nat \ {0}
    OBVIOUS
  <2> QED BY <1>2, <2>1
<1>4. ASSUME NEW k \in 2 .. Len(t) PROVE t[k] \in 128 .. 191
  <2>1. k \in 1 .. z - a + 1 /\ a + k - 1 \in a + 1 .. z
    BY <1>2
  <2>2. PICK j \in a + 1 .. z : j = a + k - 1
    BY <2>1
  <2>3. s[j] \in 128 .. 191
    BY DEF Begins
  <2> QED BY <1>2, <2>1, <2>2, <2>3
<1>5. ASSUME Len(t) > 1 PROVE Second(t[1], t[2])
  <2>1. z > a /\ 2 \in 1 .. z - a + 1 /\ a + 2 - 1 = a + 1
    BY <1>2, <1>5
  <2>2. t[2] = s[a + 1]
    BY <1>2, <2>1
  <2>3. Second(s[a], s[a + 1])
    BY <2>1 DEF Begins
  <2> QED BY <1>3, <2>2, <2>3
<1>6. OneScalar(t)
  <2>1. s[a] \in 0 .. 127 \cup 194 .. 244
    BY DEF Begins
  <2> QED BY <1>2, <1>3, <1>4, <1>5, <2>1 DEF OneScalar
<1>7. SubSeq(t, 1, Len(t) - 1) = SubSeq(s, a, z - 1)
  <2>1. SubSeq(SubSeq(s, a, z), 1, z - a) = SubSeq(s, a, z - 1)
    OBVIOUS
  <2>2. Len(t) - 1 = z - a
    BY <1>2
  <2> QED BY <1>1, <2>1, <2>2
<1> QED BY <1>1, <1>2, <1>3, <1>6, <1>7

\* The code point does not depend on where its bytes lie.
LEMMA BitsFromOne ==
  ASSUME NEW s \in Seq(Bytes), NEW a \in 1 .. Len(s), NEW z \in a .. Len(s), z - a + 1 <= 4
  PROVE  Bits(SubSeq(s, a, z), 1, z - a + 1) = Bits(s, a, z)
<1>1. PICK t \in Seq(Bytes) : t = SubSeq(s, a, z)
  BY SubSeqIs
<1>2. \A k \in 1 .. z - a + 1 : t[k] = s[a + k - 1]
  BY <1>1, SubSeqIs
<1>3. 1 \in 1 .. z - a + 1 /\ a + 1 - 1 = a
  OBVIOUS
<1>4. t[1] = s[a]
  BY <1>2, <1>3
<1>5. z = a \/ z = a + 1 \/ z = a + 2 \/ z = a + 3
  OBVIOUS
<1>6. CASE z = a
  <2>1. z - a + 1 = 1
    BY <1>6
  <2> QED BY <1>1, <1>4, <1>6, <2>1 DEF Bits
<1>7. CASE z = a + 1
  <2>1. z - a + 1 = 2 /\ 2 \in 1 .. 2 /\ a + 2 - 1 = a + 1 /\ a + 1 # a
    BY <1>7
  <2>2. t[2] = s[a + 1]
    BY <1>2, <2>1
  <2>3. 2 = 1 + 1 /\ 2 # 1
    OBVIOUS
  <2> QED BY <1>1, <1>4, <1>7, <2>1, <2>2, <2>3 DEF Bits
<1>8. CASE z = a + 2
  <2>1. z - a + 1 = 3 /\ 2 \in 1 .. 3 /\ a + 2 - 1 = a + 1 /\ 3 \in 1 .. 3 /\ a + 3 - 1 = a + 2
        /\ a + 2 # a /\ a + 2 # a + 1
    BY <1>8
  <2>2. t[2] = s[a + 1] /\ t[3] = s[a + 2]
    BY <1>2, <2>1
  <2>3. 3 = 1 + 2 /\ 3 # 1 /\ 3 # 1 + 1 /\ 1 + 1 = 2
    OBVIOUS
  <2> QED BY <1>1, <1>4, <1>8, <2>1, <2>2, <2>3 DEF Bits
<1>9. CASE z = a + 3
  <2>1. z - a + 1 = 4 /\ 2 \in 1 .. 4 /\ a + 2 - 1 = a + 1 /\ 3 \in 1 .. 4 /\ a + 3 - 1 = a + 2
        /\ 4 \in 1 .. 4 /\ a + 4 - 1 = a + 3 /\ a + 3 # a /\ a + 3 # a + 1 /\ a + 3 # a + 2
    BY <1>9
  <2>2. t[2] = s[a + 1] /\ t[3] = s[a + 2] /\ t[4] = s[a + 3]
    BY <1>2, <2>1
  <2>3. 4 # 1 + 2 /\ 4 # 1 /\ 4 # 1 + 1 /\ 1 + 1 = 2 /\ 1 + 2 = 3 /\ 1 + 3 = 4
    OBVIOUS
  <2> QED BY <1>1, <1>4, <1>9, <2>1, <2>2, <2>3 DEF Bits
<1> QED BY <1>5, <1>6, <1>7, <1>8, <1>9

\* A code point is complete.
LEMMA WritingAccepts ==
  ASSUME NEW s \in Seq(Bytes), NEW fill \in Seq(Bytes), NEW w \in Seq(Bytes),
         NEW n \in 0 .. Len(s) - 1, NEW u \in 0 .. n, NEW a, a = n - u + 1,
         NEW buf, NEW bal, NEW out \in Seq(Bytes), Writing(s, fill, w, n, u, buf, bal, out),
         Begins(s, a, n + 1), Width(s[a]) = (n + 1) - a + 1, ensure_ascii \in BOOLEAN,
         NEW cp, cp = Bits(s, a, n + 1), NEW b, b = s[n + 1]
  PROVE  /\ buf \o Escaped(cp, b) \in Seq(Bytes)
         /\ Writes(s, fill, w, out \o (buf \o Escaped(cp, b)), (n + 1) + 1)
<1>1. PICK kept \in Seq(Bytes) :
        /\ buf = kept \o Held(s, n, u) /\ Len(kept) = bal
        /\ Writes(s, fill, w, out \o kept, a)
  BY DEF Writing
<1>2. a \in 1 .. Len(s) /\ n + 1 \in a .. Len(s) /\ (n + 1) - a + 1 = u + 1 /\ n \in 0 .. Len(s)
      /\ n + 1 - 1 = n /\ n + 1 \in Nat
  OBVIOUS
<1>3. PICK t \in Seq(Bytes) : t = SubSeq(s, a, n + 1)
  BY <1>2, SubSeqIs
<1>4. OneScalar(t) /\ Len(t) = u + 1 /\ t[Len(t)] = b /\ SubSeq(t, 1, Len(t) - 1) = SubSeq(s, a, n)
  BY <1>2, <1>3, OneScalarHere, SMTT(30)
<1>5. Len(t) \in 1 .. 4
  BY <1>4, ScalarShaped DEF Shaped
<1>6. cp = Bits(t, 1, Len(t))
  <2>1. (n + 1) - a + 1 <= 4
    BY <1>2, <1>4, <1>5
  <2>2. Bits(SubSeq(s, a, n + 1), 1, (n + 1) - a + 1) = Bits(s, a, n + 1)
    BY <1>2, <2>1, BitsFromOne
  <2> QED BY <1>2, <1>3, <1>4, <2>2
<1>7. Encodes(Before(t) \o Escaped(cp, b), t)
  BY <1>4, <1>6, WrittenEncodes
<1>8. Before(t) = Held(s, n, u)
  BY <1>4 DEF Before, Held
<1>9. PICK h \in Seq(Bytes) : h = Held(s, n, u)
  BY <1>2, HeldType
<1>10. PICK x \in Seq(Bytes) : x = Escaped(cp, b)
  <2>1. CodeBack(t)
    BY <1>4, CodeIsBack
  <2>2. cp = CodeOf(t)
    BY <1>4, <1>6, ScalarShaped, BitsAreCode
  <2>3. cp \in Nat
    BY <2>1, <2>2 DEF CodeBack
  <2>4. n + 1 \in 1 .. Len(s)
    OBVIOUS
  <2>5. b \in Bytes
    BY <2>4, ByteAt DEF Bytes
  <2> QED BY <2>3, <2>5, EscapedType
<1>11. MendsOn(s, fill, a, n + 1, t)
  BY <1>2, <1>3, MendedScalar
<1>12. Writes(s, fill, w, (out \o kept) \o (h \o x), (n + 1) + 1)
  BY <1>1, <1>2, <1>7, <1>8, <1>9, <1>10, <1>11, WritesOn
<1>13. (out \o kept) \o (h \o x) = out \o ((kept \o h) \o x) /\ (kept \o h) \o x \in Seq(Bytes)
  <2>1. h \o x \in Seq(Bytes) /\ kept \o h \in Seq(Bytes)
    BY ConcatOf
  <2>2. Moved(out, kept, h \o x)
    BY <2>1, Associates
  <2>3. Moved(kept, h, x)
    BY Associates
  <2>4. (kept \o h) \o x \in Seq(Bytes)
    BY <2>1, ConcatOf
  <2> QED BY <2>2, <2>3, <2>4 DEF Moved
<1> QED BY <1>1, <1>9, <1>10, <1>12, <1>13

\* The incomplete bytes are taken back.
Invalid(s, n, u, a, z) ==
  a = n - u + 1 /\ a \in 1 .. Len(s) /\ z \in a .. Len(s) /\ LongestEnd(s, a, z)
  /\ NoScalar(s, a, z)

Taken(buf, bal, kept) == kept = SubSeq(buf, 1, bal)

TakenBack(s, fill, w, out, bal, z, f, kept) ==
  /\ kept \o f \in Seq(Bytes)
  /\ kept \in Seq(Bytes) /\ Len(kept) = bal
  /\ Writes(s, fill, w, out \o (kept \o f), z + 1)

\* What is no UTF-8 is taken back, and fill written in its place.
LEMMA RejectsBytes ==
  ASSUME NEW s \in Seq(Bytes), NEW fill \in Seq(Bytes), NEW w \in Seq(Bytes),
         NEW n \in 0 .. Len(s), NEW u \in 0 .. n, NEW a, NEW z, Invalid(s, n, u, a, z),
         NEW buf, NEW bal, NEW out \in Seq(Bytes), Writing(s, fill, w, n, u, buf, bal, out),
         NEW f, Encodes(f, fill), NEW kept, Taken(buf, bal, kept)
  PROVE  TakenBack(s, fill, w, out, bal, z, f, kept)
<1>8. a = n - u + 1 /\ a \in 1 .. Len(s) /\ LongestEnd(s, a, z) /\ NoScalar(s, a, z)
      /\ kept = SubSeq(buf, 1, bal)
  BY DEF Invalid, Taken
<1>9. z \in a .. Len(s)
  BY DEF Invalid
<1>1. PICK k \in Seq(Bytes) :
        /\ buf = k \o Held(s, n, u) /\ Len(k) = bal
        /\ Writes(s, fill, w, out \o k, a)
  BY <1>8 DEF Writing
<1>2. PICK h \in Seq(Bytes) : h = Held(s, n, u)
  BY HeldType
<1>3. kept = k
  <2>1. SubSeq(k \o h, 1, Len(k)) = k
    OBVIOUS
  <2> QED BY <1>1, <1>2, <1>8, <2>1
<1>4. MendsOn(s, fill, a, z, fill)
  BY <1>8, <1>9, MendedBroken DEF NoScalar
<1>5. f \in Seq(Bytes) /\ z \in Nat
  BY <1>8, <1>9 DEF Encodes
<1>6. Writes(s, fill, w, (out \o k) \o f, z + 1)
  BY <1>1, <1>4, <1>5, WritesOn
<1>7. (out \o k) \o f = out \o (k \o f) /\ k \o f \in Seq(Bytes)
  <2>1. Moved(out, k, f)
    BY <1>5, Associates
  <2> QED BY <1>5, <2>1, ConcatOf DEF Moved
<1> QED BY <1>1, <1>3, <1>6, <1>7 DEF TakenBack

-----------------------------------------------------------------------------
(* What is written of a message: the pieces of dump. *)

\* The bytes e are what dump may write for a piece.
Shows(piece, e, fill) ==
  /\ e \in Seq(Bytes)
  /\ IF piece.escape THEN Encodes(e, Repaired(piece.bytes, fill)) ELSE e = piece.bytes

\* In the text t the piece is written from p on, up to x.
Spelled(t, p, x, piece, fill) ==
  \E e : Shows(piece, e, fill) /\ LiesAt(e, t, p) /\ x = p + Len(e)

\* The pieces of q from the one behind a to z are written, one behind the
\* other, where pos says.
SpelledBy(t, q, a, z, pos, fill) ==
  /\ pos \in [Nat -> Places]
  /\ \A k \in a + 1 .. z : Spelled(t, pos[k - 1], pos[k], q[k], fill)

\* The text t is the first n pieces of q.
SpelledTo(t, q, n, fill) ==
  \E pos : SpelledBy(t, q, 0, n, pos, fill) /\ pos[0] = 1 /\ pos[n] = Len(t) + 1

\* What lies in a text lies there when the text gets longer.
LEMMA LiesStill ==
  ASSUME NEW t \in Seq(Bytes), NEW e \in Seq(Bytes), NEW f \in Seq(Bytes), NEW p \in Places,
         LiesAt(f, t, p)
  PROVE  LiesAt(f, t \o e, p)
<1> SUFFICES ASSUME NEW j \in 1 .. Len(f) PROVE At(t \o e, p + j - 1) = f[j]
  BY DEF LiesAt
<1>1. f[j] \in 0 .. 255
  BY ByteAt
<1>2. At(t, p + j - 1) = f[j]
  BY DEF LiesAt
<1>3. p + j - 1 \in Nat /\ p + j - 1 > 0
  BY DEF Places
<1>4. PICK n \in Nat : n = p + j - 1 /\ n > 0
  BY <1>3
<1>5. Len(t) \in Nat /\ Len(t \o e) = Len(t) + Len(e) /\ Len(e) \in Nat
      /\ \A k \in 1 .. Len(t) : (t \o e)[k] = t[k]
  BY ConcatOf
<1>6. n <= Len(t) /\ t[n] = f[j]
  <2>1. ReadAt(t, n)
    BY <1>5, ReadAtAll
  <2>2. f[j] # -1
    <3>1. \A x \in 0 .. 255 : x # -1
      BY SMTT(60)
    <3> QED BY <1>1, <3>1, Zenon
  <2> QED BY <1>2, <1>4, <1>5, <2>1, <2>2 DEF ReadAt
<1>7. n <= Len(t \o e) /\ (t \o e)[n] = t[n]
  BY <1>4, <1>5, <1>6
<1> QED BY <1>4, <1>6, <1>7 DEF At

LEMMA LiesBehind ==
  ASSUME NEW t \in Seq(Bytes), NEW e \in Seq(Bytes)
  PROVE  LiesAt(e, t \o e, Len(t) + 1)
<1> SUFFICES ASSUME NEW j \in 1 .. Len(e) PROVE At(t \o e, Len(t) + 1 + j - 1) = e[j]
  BY DEF LiesAt
<1>1. /\ Len(t) \in Nat /\ Len(t \o e) = Len(t) + Len(e) /\ Len(e) \in Nat
      /\ \A k \in 1 .. Len(e) : (t \o e)[Len(t) + k] = e[k]
  BY ConcatOf
<1>2. Len(t) + 1 + j - 1 = Len(t) + j /\ Len(t) + j <= Len(t \o e)
  BY <1>1
<1> QED BY <1>1, <1>2 DEF At

\* One more piece is written.
LEMMA SpelledOn ==
  ASSUME NEW w \in Seq(Bytes), NEW q, NEW n \in Nat, NEW fill, SpelledTo(w, q, n, fill),
         NEW e, Shows(q[n + 1], e, fill)
  PROVE  w \o e \in Seq(Bytes) /\ SpelledTo(w \o e, q, n + 1, fill)
<1>1. PICK pos : SpelledBy(w, q, 0, n, pos, fill) /\ pos[0] = 1 /\ pos[n] = Len(w) + 1
  BY DEF SpelledTo
<1>2. e \in Seq(Bytes)
  BY DEF Shows
<1>3. PICK t \in Seq(Bytes) : t = w \o e /\ Len(t) = Len(w) + Len(e) /\ Len(w) \in Nat
           /\ Len(e) \in Nat
  BY <1>2, ConcatOf
<1>4. PICK to \in Places : to = Len(w) + 1 + Len(e)
  BY <1>3 DEF Places
<1>5. PICK here : here = [k \in Nat |-> IF k <= n THEN pos[k] ELSE to]
  OBVIOUS
<1>6. pos \in [Nat -> Places] /\ here \in [Nat -> Places]
  BY <1>1, <1>5 DEF SpelledBy
<1>7. here[0] = 1 /\ here[n + 1] = Len(t) + 1 /\ here[n] = Len(w) + 1 /\ here[n + 1] = to
  <2>1. 0 <= n /\ ~(n + 1 <= n) /\ n <= n /\ n + 1 \in Nat
    OBVIOUS
  <2> QED BY <1>1, <1>3, <1>4, <1>5, <2>1
<1>8. ASSUME NEW k \in 0 + 1 .. n + 1 PROVE Spelled(t, here[k - 1], here[k], q[k], fill)
  <2>1. CASE k = n + 1
    <3>1. k - 1 = n
      BY <2>1
    <3>2. LiesAt(e, t, Len(w) + 1)
      BY <1>2, <1>3, LiesBehind
    <3>3. to = here[n] + Len(e)
      BY <1>3, <1>4, <1>7
    <3> QED BY <1>7, <2>1, <3>1, <3>2, <3>3 DEF Spelled
  <2>2. CASE k # n + 1
    <3>1. k \in 0 + 1 .. n /\ k <= n /\ k - 1 <= n /\ k \in Nat /\ k - 1 \in Nat
      BY <2>2
    <3>2. here[k] = pos[k] /\ here[k - 1] = pos[k - 1]
      BY <1>5, <3>1
    <3>3. Spelled(w, pos[k - 1], pos[k], q[k], fill)
      BY <1>1, <3>1 DEF SpelledBy
    <3>4. PICK f : Shows(q[k], f, fill) /\ LiesAt(f, w, pos[k - 1]) /\ pos[k] = pos[k - 1] + Len(f)
      BY <3>3 DEF Spelled
    <3>5. f \in Seq(Bytes) /\ pos[k - 1] \in Places
      BY <1>6, <3>1, <3>4 DEF Shows
    <3>6. LiesAt(f, t, pos[k - 1])
      BY <1>2, <1>3, <3>4, <3>5, LiesStill
    <3> QED BY <3>2, <3>4, <3>6 DEF Spelled
  <2> QED BY <2>1, <2>2
<1>9. SpelledBy(t, q, 0, n + 1, here, fill)
  BY <1>6, <1>8 DEF SpelledBy
<1> QED BY <1>3, <1>7, <1>9 DEF SpelledTo

LEMMA SpelledNothing ==
  ASSUME NEW q, NEW fill PROVE SpelledTo(<<>>, q, 0, fill)
<1>1. PICK pos : pos = [k \in Nat |-> 1]
  OBVIOUS
<1>2. pos \in [Nat -> Places] /\ pos[0] = 1 /\ Len(<<>>) + 1 = 1
  BY <1>1 DEF Places
<1>3. 0 + 1 .. 0 = {}
  OBVIOUS
<1> QED BY <1>2, <1>3 DEF SpelledTo, SpelledBy

\* What dump writes in the place of what is no UTF-8.
Fill == IF error_handler = "replace" THEN ReplacementBytes ELSE <<>>

LEMMA FillType == Fill \in Seq(Bytes)
<1>1. ReplacementBytes \in Seq(Bytes)
  BY ListOf, SMTT(60) DEF ReplacementBytes, Bytes
<1>2. <<>> \in Seq(Bytes)
  OBVIOUS
<1> QED BY <1>1, <1>2 DEF Fill

\* w is what the first n pieces of the message are written as; the others are
\* still to be written.
Told(w, n) ==
  /\ n \in Nat /\ w \in Seq(Bytes)
  /\ n + Len(todo) = Len(Dump(message))
  /\ \A k \in 1 .. Len(todo) : todo[k] = Dump(message)[n + k]
  /\ SpelledTo(w, Dump(message), n, Fill)

\* A new string has nothing in the buffer.
StringIsNew ==
  i = 0 /\ undumped_chars = 0 /\ state = 0 /\ string_buffer = <<>> /\ bytes_after_last_accept = 0

\* How far dump is in the piece under way.
InPiece(w) ==
  IF InString
  THEN /\ Waiting(str, i, undumped_chars, state)
       /\ undumped_chars > 0 => codepoint = Bits(str, i - undumped_chars + 1, i)
       /\ Writing(str, Fill, w, i, undumped_chars, string_buffer, bytes_after_last_accept, o)
  ELSE StringIsNew /\ o = w

\* While a message is dumped the output spells the pieces that are done and a part
\* of the one under way; in the end it spells the message.
SpellInv ==
  /\ outcome = "dumping" => origin = "sender" /\ \E w : \E n : Told(w, n) /\ InPiece(w)
  /\ outcome = "done" /\ origin = "sender" =>
       SpelledTo(o, Dump(message), Len(Dump(message)), Fill)

-----------------------------------------------------------------------------
(* The steps of dump. *)

\* The piece under way is done.
LEMMA PieceTold ==
  ASSUME BufferInv, NEW w, NEW n, Told(w, n), Dumping, todo' = Tail(todo),
         UNCHANGED <<message, error_handler>>, NEW e, Shows(Head(todo), e, Fill)
  PROVE  Told(w \o e, n + 1)'
<1>1. /\ n \in Nat /\ w \in Seq(Bytes)
      /\ n + Len(todo) = Len(Dump(message))
      /\ \A k \in 1 .. Len(todo) : todo[k] = Dump(message)[n + k]
      /\ SpelledTo(w, Dump(message), n, Fill)
  BY DEF Told
<1>2. todo \in Seq(Piece) /\ todo # <<>>
  BY DEF BufferInv, DumpTypeOK, Dumping
<1>3. PICK rest : rest = Tail(todo)
  OBVIOUS
<1>4. /\ Len(rest) \in Nat /\ Len(todo) = Len(rest) + 1 /\ Head(todo) = todo[1]
      /\ \A k \in 1 .. Len(rest) : rest[k] = todo[k + 1]
  BY <1>2, <1>3
<1>5. Head(todo) = Dump(message)[n + 1]
  <2>1. 1 \in 1 .. Len(todo)
    BY <1>4
  <2> QED BY <1>1, <1>4, <2>1
<1>6. w \o e \in Seq(Bytes) /\ SpelledTo(w \o e, Dump(message), n + 1, Fill)
  BY <1>1, <1>5, SpelledOn
<1>7. (n + 1) + Len(rest) = Len(Dump(message)) /\ n + 1 \in Nat
  BY <1>1, <1>4
<1>8. ASSUME NEW k \in 1 .. Len(rest) PROVE rest[k] = Dump(message)[(n + 1) + k]
  <2>1. k + 1 \in 1 .. Len(todo) /\ n + (k + 1) = (n + 1) + k
    BY <1>1, <1>4
  <2> QED BY <1>1, <1>4, <2>1
<1>9. Fill' = Fill /\ todo' = rest /\ message' = message
  BY <1>3 DEF Fill
<1> QED BY <1>6, <1>7, <1>8, <1>9 DEF Told

LEMMA TypeOfStr ==
  ASSUME BufferInv, InString
  PROVE  str \in Seq(Bytes)
BY StringUnderWay

\* The next one begins.
LEMMA PieceNew ==
  ASSUME BufferInv', NEW w \in Seq(Bytes), StringIsNew', o' = w
  PROVE  InPiece(w)'
<1>1. CASE InString'
  <2>1. PICK s \in Seq(Bytes) : s = str'
    <3>1. todo' \in Seq(Piece) /\ todo' # <<>> /\ Head(todo').escape
      BY <1>1 DEF BufferInv, DumpTypeOK, InString, Dumping
    <3>2. Head(todo') \in Piece
      BY <3>1, StringsOfHead
    <3> QED BY <3>2 DEF str, Piece
  <2>2. /\ i' = 0 /\ undumped_chars' = 0 /\ state' = 0 /\ string_buffer' = <<>>
        /\ bytes_after_last_accept' = 0
    BY DEF StringIsNew
  <2>3. PICK f \in Seq(Bytes) : f = Fill'
    <3>1. ReplacementBytes \in Seq(Bytes)
      BY ListOf, SMTT(60) DEF ReplacementBytes, Bytes
    <3>2. <<>> \in Seq(Bytes)
      OBVIOUS
    <3> QED BY <3>1, <3>2 DEF Fill
  <2>4. Waiting(s, 0, 0, 0)
    BY DEF Waiting
  <2>5. Writing(s, f, w, 0, 0, <<>>, 0, w)'
    <3>1. \E kept \in Seq(Bytes) : /\ <<>> = kept \o <<>> /\ Len(kept) = 0
                                   /\ Writes(s, f, w, w \o kept, 0 - 0 + 1)
      <4>1. 0 - 0 + 1 = 1 /\ <<>> \in Seq(Bytes) /\ Len(<<>>) = 0 /\ <<>> \o <<>> = <<>>
            /\ w \o <<>> = w
        OBVIOUS
      <4> QED BY <4>1, WritesNothing
    <3>2. SubSeq(s, 0 - 0 + 1, 0) = <<>>
      OBVIOUS
    <3> QED BY <3>1, <3>2 DEF Writing, Held
  <2>6. ~(0 > 0)
    OBVIOUS
  <2> QED BY <1>1, <2>1, <2>2, <2>3, <2>4, <2>5, <2>6 DEF InPiece
<1>2. CASE ~InString'
  BY <1>2 DEF InPiece
<1> QED BY <1>1, <1>2

\* What decode makes of the next byte of the string under way.
LEMMA ByteDecoded ==
  ASSUME BufferInv, MoreBytes, Waiting(str, i, undumped_chars, state)
  PROVE  /\ Decoded(str, i, undumped_chars, NewState)
         /\ str \in Seq(Bytes) /\ i \in 0 .. Len(str) - 1 /\ undumped_chars \in 0 .. i
         /\ byte = str[i + 1]
<1>1. InString /\ i < Len(str)
  BY DEF MoreBytes
<1>2. str \in Seq(Bytes) /\ i \in Nat
  BY <1>1, StringUnderWay
<1>3. PICK s \in Seq(Bytes) : s = str
  BY <1>2
<1>4. PICK n \in 0 .. Len(s) - 1 : n = i
  BY <1>1, <1>2, <1>3
<1>5. PICK u, q, r : u = undumped_chars /\ q = state /\ r = NextState(q, s[n + 1])
  OBVIOUS
<1>6. Decoded(s, n, u, r)
  BY <1>3, <1>4, <1>5, DecodedByte
<1>7. NewState = r
  BY <1>3, <1>4, <1>5 DEF NewState, byte
<1>8. undumped_chars \in 0 .. i
  BY DEF Waiting
<1> QED BY <1>3, <1>4, <1>5, <1>6, <1>7, <1>8 DEF byte

\* The message and the string under way are the same, and so is what was told.
LEMMA StillTold ==
  ASSUME NEW w, NEW n, Told(w, n), UNCHANGED <<message, error_handler, todo>>
  PROVE  Told(w, n)'
<1>1. Fill' = Fill /\ todo' = todo /\ message' = message
  BY DEF Fill
<1> QED BY <1>1 DEF Told

LEMMA StillInString ==
  ASSUME NEW w, NEW n, Told(w, n), InString, UNCHANGED <<message, error_handler, todo, outcome,
         origin>>,
         outcome = "dumping", origin = "sender",
         Waiting(str, i', undumped_chars', state'),
         undumped_chars' > 0 => codepoint' = Bits(str, i' - undumped_chars' + 1, i'),
         Writing(str, Fill, w, i, undumped_chars, string_buffer, bytes_after_last_accept, o)'
  PROVE  SpellInv'
<1>1. Told(w, n)'
  BY StillTold
<1>2. str' = str /\ InString' /\ Fill' = Fill
  BY DEF str, InString, Dumping, Fill
<1>3. InPiece(w)'
  BY <1>2 DEF InPiece
<1> QED BY <1>1, <1>3 DEF SpellInv

LEMMA WritingSame ==
  ASSUME NEW s, NEW fill, NEW w, NEW n, NEW u, NEW buf, NEW bal, NEW out,
         Writing(s, fill, w, n, u, buf, bal, out), ensure_ascii' = ensure_ascii
  PROVE  Writing(s, fill, w, n, u, buf, bal, out)'
BY DEF Writing, Held

\* The code point goes on with the bytes.
LEMMA CodepointOn ==
  ASSUME BufferInv, MoreBytes, Waiting(str, i, undumped_chars, state),
         undumped_chars > 0 => codepoint = Bits(str, i - undumped_chars + 1, i)
  PROVE  NextCodepoint(byte) = Bits(str, i - undumped_chars + 1, i + 1)
<1>1. /\ str \in Seq(Bytes) /\ i \in 0 .. Len(str) - 1 /\ undumped_chars \in 0 .. i
      /\ byte = str[i + 1]
  BY ByteDecoded
<1>2. PICK s \in Seq(Bytes) : s = str
  BY <1>1
<1>3. PICK n \in 0 .. Len(s) - 1 : n = i
  BY <1>1, <1>2
<1>4. PICK u \in 0 .. n : u = undumped_chars
  BY <1>1, <1>3
<1>5. PICK q : q = state
  OBVIOUS
<1>6. Waiting(s, n, u, q) /\ byte = s[n + 1]
  BY <1>1, <1>2, <1>3, <1>4, <1>5
<1>7. n \in Nat /\ u \in Nat
  OBVIOUS
<1>8. CASE u = 0
  <2>1. q = 0
    BY <1>6, <1>8 DEF Waiting
  <2>2. NextCodepoint(byte) = FirstBits(s[n + 1])
    BY <1>5, <1>6, <2>1 DEF NextCodepoint
  <2>3. n - u + 1 = n + 1
    BY <1>7, <1>8
  <2>4. Bits(s, n + 1, n + 1) = FirstBits(s[n + 1])
    BY DEF Bits
  <2> QED BY <1>2, <1>3, <1>4, <2>2, <2>3, <2>4
<1>9. CASE u > 0
  <2>1. u \in 1 .. 3 /\ q \in 2 .. 8
    BY <1>6, <1>9, WaitingFor
  <2>2. NextCodepoint(byte) = 64 * codepoint + (s[n + 1] % 64)
    <3>1. state # 0
      BY <1>5, <2>1
    <3> QED BY <1>6, <3>1 DEF NextCodepoint
  <2>3. PICK a : a = n - u + 1
    OBVIOUS
  <2>4. a \in Nat /\ a <= n /\ n <= a + 2
    BY <1>7, <2>1, <2>3
  <2>5. codepoint = Bits(s, a, n)
    BY <1>2, <1>3, <1>4, <1>9, <2>3
  <2>6. Bits(s, a, n + 1) = 64 * Bits(s, a, n) + (s[n + 1] % 64)
    BY <1>7, <2>4, BitsOn
  <2>7. NextCodepoint(byte) = Bits(s, a, n + 1)
    BY <2>2, <2>5, <2>6, Zenon
  <2> QED BY <1>2, <1>3, <1>4, <2>3, <2>7
<1> QED BY <1>7, <1>8, <1>9

\* The string under way, by its parts.
LEMMA UnderWay ==
  ASSUME BufferInv, SpellInv, InString
  PROVE  /\ outcome = "dumping" /\ origin = "sender" /\ ensure_ascii \in BOOLEAN
         /\ o \in Seq(Bytes) /\ string_buffer \in Seq(Bytes) /\ str \in Seq(Bytes)
         /\ \E w \in Seq(Bytes) : \E n :
              /\ Told(w, n)
              /\ Waiting(str, i, undumped_chars, state)
              /\ undumped_chars > 0 => codepoint = Bits(str, i - undumped_chars + 1, i)
              /\ Writing(str, Fill, w, i, undumped_chars, string_buffer, bytes_after_last_accept, o)
<1>1. outcome = "dumping"
  BY DEF InString, Dumping
<1>2. ensure_ascii \in BOOLEAN /\ o \in Seq(Bytes) /\ string_buffer \in Seq(Bytes)
  BY DEF BufferInv, DumpTypeOK
<1>3. str \in Seq(Bytes)
  BY TypeOfStr
<1>4. origin = "sender" /\ \E w : \E n : Told(w, n) /\ InPiece(w)
  BY <1>1 DEF SpellInv
<1>5. PICK w : \E n : Told(w, n) /\ InPiece(w)
  BY <1>4
<1>6. w \in Seq(Bytes)
  BY <1>5 DEF Told
<1> QED BY <1>1, <1>2, <1>3, <1>4, <1>5, <1>6 DEF InPiece

\* The steps of dump keep to the message: a byte that completes a scalar value,
LEMMA AcceptSpells ==
  ASSUME BufferInv, SpellInv, AcceptByte, UNCHANGED <<message, origin>>
  PROVE  SpellInv'
<1>1. MoreBytes /\ InString
  BY DEF AcceptByte, MoreBytes
<1>2. /\ outcome = "dumping" /\ origin = "sender" /\ ensure_ascii \in BOOLEAN
      /\ o \in Seq(Bytes) /\ string_buffer \in Seq(Bytes) /\ str \in Seq(Bytes)
  BY <1>1, UnderWay
<1>3. PICK w \in Seq(Bytes) : \E k :
              /\ Told(w, k)
              /\ Waiting(str, i, undumped_chars, state)
              /\ undumped_chars > 0 => codepoint = Bits(str, i - undumped_chars + 1, i)
              /\ Writing(str, Fill, w, i, undumped_chars, string_buffer, bytes_after_last_accept, o)
  BY <1>1, UnderWay
<1>4. PICK k :
              /\ Told(w, k)
              /\ Waiting(str, i, undumped_chars, state)
              /\ undumped_chars > 0 => codepoint = Bits(str, i - undumped_chars + 1, i)
              /\ Writing(str, Fill, w, i, undumped_chars, string_buffer, bytes_after_last_accept, o)
  BY <1>3
<1>5. /\ Decoded(str, i, undumped_chars, NewState)
      /\ i \in 0 .. Len(str) - 1 /\ undumped_chars \in 0 .. i /\ byte = str[i + 1]
  BY <1>1, <1>4, ByteDecoded
<1>6. NextCodepoint(byte) = Bits(str, i - undumped_chars + 1, i + 1)
  BY <1>1, <1>4, CodepointOn
<1>7. PICK s \in Seq(Bytes), fill \in Seq(Bytes) : s = str /\ fill = Fill
  BY <1>2, FillType
<1>8. PICK n \in 0 .. Len(s) - 1 : n = i
  BY <1>5, <1>7
<1>9. PICK u \in 0 .. n : u = undumped_chars
  BY <1>5, <1>8
<1>10. PICK a, cp, b, bal : /\ a = n - u + 1 /\ cp = Bits(s, a, n + 1) /\ b = s[n + 1]
                            /\ bal = bytes_after_last_accept
  OBVIOUS
<1>11. PICK buf \in Seq(Bytes), out \in Seq(Bytes) : buf = string_buffer /\ out = o
  BY <1>2
<1>12. Writing(s, fill, w, n, u, buf, bal, out) /\ Decoded(s, n, u, 0)
  <2>1. NewState = 0
    BY DEF AcceptByte
  <2> QED BY <1>4, <1>5, <1>7, <1>8, <1>9, <1>10, <1>11, <2>1
<1>13. Begins(s, a, n + 1) /\ Width(s[a]) = (n + 1) - a + 1
  BY <1>10, <1>12 DEF Decoded
<1>14. PICK all : all = buf \o Escaped(cp, b)
  OBVIOUS
<1>15. all \in Seq(Bytes) /\ Writes(s, fill, w, out \o all, (n + 1) + 1)
  BY <1>2, <1>10, <1>12, <1>13, <1>14, WritingAccepts
<1>16. Accepted(all) /\ state' = 0 /\ i' = n + 1
       /\ UNCHANGED <<todo, ensure_ascii, error_handler, outcome>>
  <2>1. byte = b /\ NextCodepoint(byte) = cp
    BY <1>5, <1>6, <1>7, <1>8, <1>9, <1>10
  <2> QED BY <1>8, <1>11, <1>14, <2>1 DEF AcceptByte
<1>17. PICK buf2, out2, bal2 : buf2 = string_buffer' /\ out2 = o' /\ bal2 = bytes_after_last_accept'
  OBVIOUS
<1>18. FlushedOr(all, buf2, out, out2) /\ bal2 = Len(buf2) /\ undumped_chars' = 0
  BY <1>11, <1>16, <1>17 DEF Accepted, FlushedOr
<1>19. n + 1 \in 0 .. Len(s)
  BY <1>7, SeqLength
<1>20. Writing(s, fill, w, n + 1, 0, buf2, bal2, out2)
  BY <1>15, <1>18, <1>19, WritingFlushed
<1>21. Writing(s, fill, w, n + 1, 0, buf2, bal2, out2)'
  BY <1>16, <1>20, WritingSame
<1>22. str' = s /\ Fill' = fill /\ i' = n + 1 /\ undumped_chars' = 0
  BY <1>7, <1>16, <1>18 DEF str, Fill
<1>23. Writing(str, Fill, w, i, undumped_chars, string_buffer, bytes_after_last_accept, o)'
  BY <1>17, <1>21, <1>22
<1>24. Waiting(str, i', undumped_chars', state')
  <2>1. Waiting(s, n + 1, 0, 0)
    BY <1>19 DEF Waiting
  <2> QED BY <1>7, <1>16, <1>18, <2>1
<1>25. ~(undumped_chars' > 0)
  BY <1>18
<1> QED BY <1>1, <1>2, <1>4, <1>16, <1>23, <1>24, <1>25, StillInString

\* a byte that completes none,
LEMMA IncompleteSpells ==
  ASSUME BufferInv, SpellInv, IncompleteByte, UNCHANGED <<message, origin>>
  PROVE  SpellInv'
<1>1. MoreBytes /\ InString
  BY DEF IncompleteByte, MoreBytes
<1>2. /\ outcome = "dumping" /\ origin = "sender" /\ ensure_ascii \in BOOLEAN
      /\ o \in Seq(Bytes) /\ string_buffer \in Seq(Bytes) /\ str \in Seq(Bytes)
  BY <1>1, UnderWay
<1>3. PICK w \in Seq(Bytes) : \E k :
              /\ Told(w, k)
              /\ Waiting(str, i, undumped_chars, state)
              /\ undumped_chars > 0 => codepoint = Bits(str, i - undumped_chars + 1, i)
              /\ Writing(str, Fill, w, i, undumped_chars, string_buffer, bytes_after_last_accept, o)
  BY <1>1, UnderWay
<1>4. PICK k :
              /\ Told(w, k)
              /\ Waiting(str, i, undumped_chars, state)
              /\ undumped_chars > 0 => codepoint = Bits(str, i - undumped_chars + 1, i)
              /\ Writing(str, Fill, w, i, undumped_chars, string_buffer, bytes_after_last_accept, o)
  BY <1>3
<1>5. /\ Decoded(str, i, undumped_chars, NewState)
      /\ i \in 0 .. Len(str) - 1 /\ undumped_chars \in 0 .. i /\ byte = str[i + 1]
  BY <1>1, <1>4, ByteDecoded
<1>6. NextCodepoint(byte) = Bits(str, i - undumped_chars + 1, i + 1)
  BY <1>1, <1>4, CodepointOn
<1>7. PICK s \in Seq(Bytes), fill \in Seq(Bytes) : s = str /\ fill = Fill
  BY <1>2, FillType
<1>8. PICK n \in 0 .. Len(s) - 1 : n = i
  BY <1>5, <1>7
<1>9. PICK u \in 0 .. n : u = undumped_chars
  BY <1>5, <1>8
<1>10. PICK r, buf, bal, out : r = NewState /\ buf = string_buffer /\ out = o
                               /\ bal = bytes_after_last_accept
  OBVIOUS
<1>11. Writing(s, fill, w, n, u, buf, bal, out) /\ Decoded(s, n, u, r)
  BY <1>4, <1>5, <1>7, <1>8, <1>9, <1>10
<1>12. /\ r \notin {0, 1} /\ string_buffer' = IF ensure_ascii THEN string_buffer
            ELSE Append(string_buffer, byte)
       /\ undumped_chars' = undumped_chars + 1 /\ codepoint' = NextCodepoint(byte)
       /\ state' = r /\ i' = i + 1
       /\ UNCHANGED <<todo, ensure_ascii, error_handler, bytes_after_last_accept, o, outcome>>
  BY <1>10 DEF IncompleteByte
<1>13. Waiting(s, n + 1, u + 1, r)
  BY <1>11, <1>12 DEF Decoded
<1>14. PICK b : b = IF ensure_ascii THEN buf ELSE Append(buf, s[n + 1])
  OBVIOUS
<1>15. Writing(s, fill, w, n + 1, u + 1, b, bal, out)
  BY <1>11, <1>14, WritingWaits
<1>16. Writing(s, fill, w, n + 1, u + 1, b, bal, out)'
  BY <1>12, <1>15, WritingSame
<1>17. byte = s[n + 1]
  BY <1>5, <1>7, <1>8
<1>18. string_buffer' = b
  BY <1>10, <1>12, <1>14, <1>17
<1>19. str' = s /\ Fill' = fill /\ i' = n + 1 /\ undumped_chars' = u + 1 /\ o' = out
       /\ bytes_after_last_accept' = bal
  BY <1>7, <1>8, <1>9, <1>10, <1>12 DEF str, Fill
<1>20. Writing(str, Fill, w, i, undumped_chars, string_buffer, bytes_after_last_accept, o)'
  BY <1>16, <1>18, <1>19
<1>21. Waiting(str, i', undumped_chars', state')
  BY <1>7, <1>12, <1>13, <1>19
<1>22. i' - undumped_chars' + 1 = i - undumped_chars + 1
  <2>1. n \in Nat /\ u \in Nat
    OBVIOUS
  <2>2. (n + 1) - (u + 1) + 1 = n - u + 1
    BY <2>1
  <2> QED BY <1>8, <1>9, <1>19, <2>2
<1>23. codepoint' = Bits(str, i' - undumped_chars' + 1, i')
  BY <1>6, <1>12, <1>22
<1> QED BY <1>1, <1>2, <1>4, <1>12, <1>20, <1>21, <1>23, StillInString

LEMMA NothingAdded ==
  ASSUME NEW e \in Seq(Bytes) PROVE e \o <<>> = e
OBVIOUS

\* a byte that is refused,
LEMMA RejectSpells ==
  ASSUME BufferInv, SpellInv, RejectByte, UNCHANGED <<message, origin>>
  PROVE  SpellInv'
<1>1. MoreBytes /\ InString
  BY DEF RejectByte, MoreBytes
<1>2. /\ outcome = "dumping" /\ origin = "sender" /\ ensure_ascii \in BOOLEAN
      /\ o \in Seq(Bytes) /\ string_buffer \in Seq(Bytes) /\ str \in Seq(Bytes)
  BY <1>1, UnderWay
<1>3. PICK w \in Seq(Bytes) : \E k :
              /\ Told(w, k)
              /\ Waiting(str, i, undumped_chars, state)
              /\ undumped_chars > 0 => codepoint = Bits(str, i - undumped_chars + 1, i)
              /\ Writing(str, Fill, w, i, undumped_chars, string_buffer, bytes_after_last_accept, o)
  BY <1>1, UnderWay
<1>4. PICK k :
              /\ Told(w, k)
              /\ Waiting(str, i, undumped_chars, state)
              /\ undumped_chars > 0 => codepoint = Bits(str, i - undumped_chars + 1, i)
              /\ Writing(str, Fill, w, i, undumped_chars, string_buffer, bytes_after_last_accept, o)
  BY <1>3
<1>5. /\ Decoded(str, i, undumped_chars, NewState)
      /\ i \in 0 .. Len(str) - 1 /\ undumped_chars \in 0 .. i /\ byte = str[i + 1]
  BY <1>1, <1>4, ByteDecoded
<1>7. PICK s \in Seq(Bytes), fill \in Seq(Bytes) : s = str /\ fill = Fill
  BY <1>2, FillType
<1>8. PICK n \in 0 .. Len(s) - 1 : n = i
  BY <1>5, <1>7
<1>9. PICK u \in 0 .. n : u = undumped_chars
  BY <1>5, <1>8
<1>10. PICK a, z, bal : a = n - u + 1 /\ z = Again(n, u) /\ bal = bytes_after_last_accept
  OBVIOUS
<1>11. PICK buf \in Seq(Bytes), out \in Seq(Bytes) : buf = string_buffer /\ out = o
  BY <1>2
<1>12. Writing(s, fill, w, n, u, buf, bal, out) /\ Decoded(s, n, u, 1)
  <2>1. NewState = 1
    BY DEF RejectByte
  <2> QED BY <1>4, <1>5, <1>7, <1>8, <1>9, <1>10, <1>11, <2>1
<1>13. a \in 1 .. Len(s) /\ z \in a .. Len(s) /\ LongestEnd(s, a, z) /\ NoScalar(s, a, z)
  BY <1>10, <1>12 DEF Decoded
<1>14. z \in 0 .. Len(s) /\ i' = z
  <2>1. ReadAgain = z
    BY <1>8, <1>9, <1>10 DEF ReadAgain, Again
  <2>2. z \in 0 .. Len(s)
    BY <1>13, SeqLength
  <2> QED BY <2>1, <2>2 DEF RejectByte
<1>15. PICK kept : kept = SubSeq(buf, 1, bal)
  OBVIOUS
<1>16. n \in 0 .. Len(s)
  BY <1>7, SeqLength
<1>17. PICK f : f = IF error_handler = "replace" THEN Replacement ELSE <<>>
  OBVIOUS
<1>18. Encodes(f, fill)
  BY <1>2, <1>7, <1>17, ReplacementEncodes, EncodesNothing DEF Fill
<1>19. kept \o f \in Seq(Bytes) /\ kept \in Seq(Bytes) /\ Len(kept) = bal
       /\ Writes(s, fill, w, out \o (kept \o f), z + 1)
  <2>1. Invalid(s, n, u, a, z) /\ Taken(buf, bal, kept)
    BY <1>10, <1>13, <1>15 DEF Invalid, Taken
  <2>2. TakenBack(s, fill, w, out, bal, z, f, kept)
    BY <1>12, <1>16, <1>18, <2>1, RejectsBytes
  <2> QED BY <2>2 DEF TakenBack
<1>20. state' = 0 /\ UNCHANGED <<todo, ensure_ascii, error_handler, outcome>>
  BY DEF RejectByte
<1>21. undumped_chars' = 0 /\ bytes_after_last_accept' = Len(string_buffer')
       /\ FlushedOr(kept \o f, string_buffer', out, o')
  <2>1. CASE error_handler = "ignore"
    <3>1. Ignore(kept)
      BY <1>10, <1>11, <1>15, <2>1 DEF RejectByte
    <3>2. string_buffer' = kept /\ undumped_chars' = 0 /\ bytes_after_last_accept' = bal /\ o' = out
      BY <1>10, <1>11, <3>1 DEF Ignore
    <3>3. kept \o f = kept
      BY <1>17, <1>19, <2>1, NothingAdded
    <3> QED BY <1>19, <3>2, <3>3 DEF FlushedOr
  <2>2. CASE error_handler = "replace"
    <3>1. Replace(kept)
      BY <1>10, <1>11, <1>15, <2>2 DEF RejectByte
    <3>2. Accepted(kept \o f)
      BY <1>17, <2>2, <3>1 DEF Replace
    <3> QED BY <1>11, <3>2 DEF Accepted, FlushedOr
  <2> QED BY <2>1, <2>2 DEF RejectByte
<1>22. PICK buf2, out2, bal2 : buf2 = string_buffer' /\ out2 = o' /\ bal2 = bytes_after_last_accept'
  OBVIOUS
<1>23. Writing(s, fill, w, z, 0, buf2, bal2, out2)
  <2>1. FlushedOr(kept \o f, buf2, out, out2) /\ bal2 = Len(buf2)
    BY <1>21, <1>22
  <2> QED BY <1>14, <1>19, <2>1, WritingFlushed
<1>24. Writing(s, fill, w, z, 0, buf2, bal2, out2)'
  BY <1>20, <1>23, WritingSame
<1>25. str' = s /\ Fill' = fill
  BY <1>7, <1>20 DEF str, Fill
<1>26. Writing(str, Fill, w, i, undumped_chars, string_buffer, bytes_after_last_accept, o)'
  BY <1>14, <1>21, <1>22, <1>24, <1>25
<1>27. Waiting(str, i', undumped_chars', state')
  <2>1. Waiting(s, z, 0, 0)
    BY <1>14 DEF Waiting
  <2> QED BY <1>7, <1>14, <1>20, <1>21, <2>1
<1>28. ~(undumped_chars' > 0)
  BY <1>21
<1> QED BY <1>1, <1>2, <1>4, <1>20, <1>26, <1>27, <1>28, StillInString

\* The next piece, if there is one, begins.
LEMMA NextSpells ==
  ASSUME BufferInv, BufferInv', Dumping, origin = "sender", UNCHANGED <<message, origin>>,
         NextPiece,
         NEW w, NEW n, Told(w, n), NEW e, Shows(Head(todo), e, Fill), StringIsNew', o' = w \o e
  PROVE  SpellInv'
<1>1. todo' = Tail(todo) /\ UNCHANGED <<message, error_handler>> /\ outcome' = "dumping"
      /\ origin' = "sender"
  BY DEF NextPiece, Dumping
<1>2. PICK x, m : x = w \o e /\ m = n + 1
  OBVIOUS
<1>3. Told(x, m)'
  <2>1. Told(w \o e, n + 1)'
    BY <1>1, PieceTold
  <2> QED BY <1>2, <2>1
<1>4. x \in Seq(Bytes)
  BY <1>3 DEF Told
<1>5. InPiece(x)'
  BY <1>2, <1>4, PieceNew
<1> QED BY <1>1, <1>3, <1>5 DEF SpellInv

WrittenAs(s, fill, w, x) == \E e : x = w \o e /\ Encodes(e, Repaired(s, fill))

\* At its end the whole string is written.
LEMMA WritesAll ==
  ASSUME NEW s \in Seq(Bytes), NEW fill \in Seq(Bytes), NEW w, NEW x, NEW z, z = Len(s) + 1,
         Writes(s, fill, w, x, z)
  PROVE  WrittenAs(s, fill, w, x)
<1>1. PICK e, r : x = w \o e /\ Encodes(e, r) /\ Mended(s, fill)[1] = r \o Mended(s, fill)[z]
  BY DEF Writes
<1>2. Mended(s, fill)[z] = <<>>
  BY MendedEnd
<1>3. r \in Seq(Bytes)
  BY <1>1 DEF Encodes
<1>4. r \o <<>> = r
  BY <1>3, NothingAdded
<1>5. Repaired(s, fill) = r
  BY <1>1, <1>2, <1>4, MendedIs
<1> QED BY <1>1, <1>5 DEF WrittenAs

\* A string ends behind a scalar value ...
LEMMA EndsComplete ==
  ASSUME NEW s \in Seq(Bytes), NEW fill \in Seq(Bytes), NEW w, NEW n, n = Len(s),
         NEW buf, NEW bal, NEW out, Writing(s, fill, w, n, 0, buf, bal, out)
  PROVE  WrittenAs(s, fill, w, out \o buf)
<1>1. PICK k \in Seq(Bytes) :
        /\ buf = k \o Held(s, n, 0) /\ Len(k) = bal
        /\ Writes(s, fill, w, out \o k, n - 0 + 1)
  BY DEF Writing
<1>2. n \in 0 .. Len(s) /\ n - 0 + 1 = Len(s) + 1
  BY SeqLength
<1>3. Held(s, n, 0) = <<>>
  BY <1>2, HeldNothing
<1>4. buf = k
  BY <1>1, <1>3, NothingAdded
<1>5. PICK z : z = Len(s) + 1
  OBVIOUS
<1>6. Writes(s, fill, w, out \o buf, z)
  BY <1>1, <1>2, <1>4, <1>5
<1> QED BY <1>5, <1>6, WritesAll

\* ... or in the middle of a sequence.
LEMMA EndsIncomplete ==
  ASSUME NEW s \in Seq(Bytes), NEW fill \in Seq(Bytes), NEW w \in Seq(Bytes), NEW n, n = Len(s),
         NEW u, NEW q, Waiting(s, n, u, q), q # 0,
         NEW buf, NEW bal, NEW out \in Seq(Bytes), Writing(s, fill, w, n, u, buf, bal, out),
         NEW f, Encodes(f, fill), NEW kept, Taken(buf, bal, kept)
  PROVE  /\ kept \in Seq(Bytes) /\ f \in Seq(Bytes)
         /\ WrittenAs(s, fill, w, out \o (kept \o f))
<1>1. /\ Len(s) - u + 1 \in 1 .. Len(s)
      /\ LongestEnd(s, Len(s) - u + 1, Len(s)) /\ NoScalar(s, Len(s) - u + 1, Len(s))
  BY DecodedEnd
<1>2. PICK a : a = n - u + 1
  OBVIOUS
<1>3. a \in 1 .. Len(s) /\ LongestEnd(s, a, n) /\ NoScalar(s, a, n)
  BY <1>1, <1>2
<1>4. Len(s) \in Nat
  BY SeqLength
<1>5. n \in a .. Len(s) /\ n \in 0 .. Len(s)
  BY <1>3, <1>4
<1>6. Invalid(s, n, u, a, n)
  BY <1>2, <1>3, <1>5 DEF Invalid
<1>7. u \in 0 .. n
  BY DEF Waiting
<1>8. TakenBack(s, fill, w, out, bal, n, f, kept)
  BY <1>5, <1>6, <1>7, RejectsBytes
<1>9. kept \in Seq(Bytes) /\ Writes(s, fill, w, out \o (kept \o f), n + 1)
  BY <1>8 DEF TakenBack
<1>10. PICK z : z = n + 1
  OBVIOUS
<1>11. PICK x : x = out \o (kept \o f)
  OBVIOUS
<1>12. Writes(s, fill, w, x, z) /\ z = Len(s) + 1
  BY <1>9, <1>10, <1>11
<1>13. WrittenAs(s, fill, w, x)
  BY <1>12, WritesAll
<1>14. f \in Seq(Bytes)
  BY DEF Encodes
<1> QED BY <1>9, <1>11, <1>13, <1>14

\* the end of a string,
LEMMA EndSpells ==
  ASSUME BufferInv, BufferInv', SpellInv, EndString, UNCHANGED <<message, origin>>
  PROVE  SpellInv'
<1>1. InString /\ i = Len(str) /\ Dumping
  BY DEF EndString, InString
<1>2. /\ outcome = "dumping" /\ origin = "sender" /\ ensure_ascii \in BOOLEAN
      /\ o \in Seq(Bytes) /\ string_buffer \in Seq(Bytes) /\ str \in Seq(Bytes)
  BY <1>1, UnderWay
<1>3. PICK w \in Seq(Bytes) : \E k :
              /\ Told(w, k)
              /\ Waiting(str, i, undumped_chars, state)
              /\ undumped_chars > 0 => codepoint = Bits(str, i - undumped_chars + 1, i)
              /\ Writing(str, Fill, w, i, undumped_chars, string_buffer, bytes_after_last_accept, o)
  BY <1>1, UnderWay
<1>4. PICK k :
              /\ Told(w, k)
              /\ Waiting(str, i, undumped_chars, state)
              /\ undumped_chars > 0 => codepoint = Bits(str, i - undumped_chars + 1, i)
              /\ Writing(str, Fill, w, i, undumped_chars, string_buffer, bytes_after_last_accept, o)
  BY <1>3
<1>5. PICK s \in Seq(Bytes), fill \in Seq(Bytes) : s = str /\ fill = Fill
  BY <1>2, FillType
<1>6. PICK n, u, q, bal : n = i /\ u = undumped_chars /\ q = state /\ bal = bytes_after_last_accept
  OBVIOUS
<1>7. PICK buf \in Seq(Bytes), out \in Seq(Bytes) : buf = string_buffer /\ out = o
  BY <1>2
<1>8. Writing(s, fill, w, n, u, buf, bal, out) /\ Waiting(s, n, u, q) /\ n = Len(s)
  BY <1>1, <1>4, <1>5, <1>6, <1>7
<1>9. WrittenAs(s, fill, w, o')
  <2>1. CASE Complete
    <3>1. u = 0
      BY <1>6, <2>1 DEF Complete, BufferInv
    <3>2. o' = out \o buf
      BY <1>7, <2>1 DEF EndString
    <3>3. WrittenAs(s, fill, w, out \o buf)
      <4>1. Writing(s, fill, w, n, 0, buf, bal, out) /\ n = Len(s)
        BY <1>8, <3>1
      <4> QED BY <4>1, EndsComplete
    <3> QED BY <3>2, <3>3
  <2>2. CASE ~Complete
    <3>1. PICK f, kept : /\ f = IF error_handler = "replace" THEN Replacement ELSE <<>>
                         /\ kept = SubSeq(buf, 1, bal)
      OBVIOUS
    <3>2. o' = (out \o kept) \o f
      BY <1>6, <1>7, <2>2, <3>1 DEF EndString
    <3>3. Encodes(f, fill)
      BY <1>2, <1>5, <3>1, ReplacementEncodes, EncodesNothing DEF Fill
    <3>4. q # 0
      BY <1>6, <2>2 DEF Complete
    <3>5. Taken(buf, bal, kept)
      BY <3>1 DEF Taken
    <3>6. /\ kept \in Seq(Bytes) /\ f \in Seq(Bytes)
          /\ WrittenAs(s, fill, w, out \o (kept \o f))
      BY <1>8, <3>3, <3>4, <3>5, EndsIncomplete
    <3>7. Moved(out, kept, f)
      BY <3>6, Associates
    <3> QED BY <3>2, <3>6, <3>7 DEF Moved
  <2> QED BY <2>1, <2>2
<1>10. PICK e : o' = w \o e /\ Encodes(e, Repaired(s, fill))
  BY <1>9 DEF WrittenAs
<1>11. Shows(Head(todo), e, Fill)
  <2>1. e \in Seq(Bytes)
    BY <1>10 DEF Encodes
  <2>2. Head(todo).escape /\ Head(todo).bytes = s
    BY <1>1, <1>5 DEF InString, str
  <2> QED BY <1>5, <1>10, <2>1, <2>2 DEF Shows
<1>12. StringIsNew' /\ NextPiece
  BY DEF EndString, StartString, StringIsNew
<1> QED BY <1>1, <1>2, <1>4, <1>10, <1>11, <1>12, NextSpells

\* a piece that is no string,
LEMMA RawSpells ==
  ASSUME BufferInv, BufferInv', SpellInv, WriteRaw, UNCHANGED <<message, origin>>
  PROVE  SpellInv'
<1>1. Dumping /\ ~Head(todo).escape /\ o' = o \o Head(todo).bytes /\ NextPiece
      /\ UNCHANGED stringVars
      /\ ~InString
  BY DEF WriteRaw, InString
<1>2. origin = "sender" /\ \E w : \E n : Told(w, n) /\ InPiece(w)
  BY <1>1 DEF SpellInv, Dumping
<1>3. PICK w, n : Told(w, n) /\ InPiece(w)
  BY <1>2
<1>4. StringIsNew /\ o = w
  BY <1>1, <1>3 DEF InPiece
<1>5. StringIsNew'
  BY <1>1, <1>4 DEF StringIsNew, stringVars
<1>6. PICK e : e = Head(todo).bytes
  OBVIOUS
<1>7. Shows(Head(todo), e, Fill)
  <2>1. Head(todo) \in Piece
    BY <1>1, StringsOfHead DEF BufferInv, DumpTypeOK, Dumping
  <2> QED BY <1>1, <1>6, <2>1 DEF Shows, Piece
<1>8. o' = w \o e
  BY <1>1, <1>4, <1>6
<1> QED BY <1>1, <1>2, <1>3, <1>5, <1>7, <1>8, NextSpells

\* the return.
LEMMA ReturnSpells ==
  ASSUME BufferInv, SpellInv, Return, UNCHANGED <<message, origin>>
  PROVE  SpellInv'
<1>1. /\ outcome = "dumping" /\ todo = <<>> /\ outcome' = "done" /\ ~InString /\ o' = o
      /\ error_handler' = error_handler /\ message' = message
  BY DEF Return, InString, Dumping
<1>2. PICK w, n : Told(w, n) /\ InPiece(w)
  BY <1>1 DEF SpellInv
<1>3. o = w
  BY <1>1, <1>2 DEF InPiece
<1>4. n = Len(Dump(message)) /\ SpelledTo(w, Dump(message), n, Fill)
  <2>1. Len(todo) = 0
    BY <1>1
  <2>2. n \in Nat /\ n + Len(todo) = Len(Dump(message)) /\ SpelledTo(w, Dump(message), n, Fill)
    BY <1>2 DEF Told
  <2>3. n + 0 = n
    BY <2>2
  <2> QED BY <2>1, <2>2, <2>3
<1>5. SpelledTo(o, Dump(message), Len(Dump(message)), Fill)
  BY <1>3, <1>4
<1>6. SpelledTo(o, Dump(message), Len(Dump(message)), Fill)'
  <2>1. Fill' = Fill
    BY <1>1 DEF Fill
  <2> QED BY <1>1, <1>5, <2>1
<1> QED BY <1>1, <1>6 DEF SpellInv

\* Each of them.
LEMMA SpellStep ==
  ASSUME BufferInv, BufferInv', SpellInv, DumpNext, UNCHANGED <<message, origin>>
  PROVE  SpellInv'
<1>1. CASE RejectStrict \/ EndStrict
  <2>1. outcome' = "thrown"
    BY <1>1 DEF RejectStrict, EndStrict
  <2> QED BY <2>1 DEF SpellInv
<1> QED BY <1>1, AcceptSpells, RejectSpells, IncompleteSpells, EndSpells, RawSpells, ReturnSpells
        DEF DumpNext

LEMMA InitSpells == ASSUME Init, BufferInv PROVE SpellInv
<1>1. NewString /\ o = <<>>
  BY DEF Init
<1>2. CASE SendMessage
  <2>1. todo = Dump(message) /\ outcome = "dumping" /\ origin = "sender"
    BY <1>2 DEF SendMessage
  <2>2. Told(<<>>, 0)
    <3>1. todo \in Seq(Piece)
      BY DEF BufferInv, DumpTypeOK
    <3>2. Len(todo) \in Nat
      BY <3>1
    <3>3. 0 + Len(todo) = Len(Dump(message)) /\ \A k \in 1 .. Len(todo) : 0 + k = k
      BY <2>1, <3>2
    <3>4. SpelledTo(<<>>, Dump(message), 0, Fill)
      BY SpelledNothing
    <3>5. <<>> \in Seq(Bytes)
      OBVIOUS
    <3> QED BY <2>1, <3>3, <3>4, <3>5 DEF Told
  <2>3. InPiece(<<>>)
    <3>1. StringIsNew
      BY <1>1 DEF StringIsNew, NewString
    <3>2. CASE InString
      <4>1. PICK s \in Seq(Bytes), fill \in Seq(Bytes) : s = str /\ fill = Fill
        BY <3>2, TypeOfStr, FillType
      <4>6. <<>> \in Seq(Bytes)
        OBVIOUS
      <4>2. PICK w \in Seq(Bytes) : w = <<>>
        BY <4>6
      <4>3. Writing(s, fill, w, 0, 0, <<>>, 0, w)
        BY WritingBegins
      <4>4. Waiting(s, 0, 0, 0)
        <5>1. Len(s) \in Nat
          BY SeqLength
        <5>2. 0 \in 0 .. Len(s) /\ 0 \in 0 .. 0 /\ ~(0 > 0)
          BY <5>1
        <5> QED BY <5>2 DEF Waiting
      <4>5. ~(0 > 0)
        OBVIOUS
      <4> QED BY <1>1, <3>1, <3>2, <4>1, <4>2, <4>3, <4>4, <4>5 DEF InPiece, StringIsNew
    <3>3. CASE ~InString
      BY <1>1, <3>1, <3>3 DEF InPiece
    <3> QED BY <3>2, <3>3
  <2> QED BY <2>1, <2>2, <2>3 DEF SpellInv
<1>3. CASE StrangeText
  BY <1>3 DEF StrangeText, SpellInv
<1> QED BY <1>2, <1>3 DEF Init

\* The text of a sent message spells it.
LEMMA SpellInvariant == Spec => [](BufferInv /\ SpellInv)
<1>1. Init /\ BufferInv => SpellInv
  BY InitSpells
<1>2. SpellInv /\ BufferInv /\ BufferInv' /\ [Next]_vars => SpellInv'
  <2> SUFFICES ASSUME SpellInv, BufferInv, BufferInv', [Next]_vars PROVE SpellInv'
    OBVIOUS
  <2>1. CASE DumpNext /\ UNCHANGED wayVars
    <3>1. UNCHANGED <<message, origin>>
      BY <2>1 DEF wayVars
    <3> QED BY <2>1, <3>1, SpellStep
  <2>2. CASE UNCHANGED dumpVars /\ UNCHANGED <<message, origin>>
    <3>1. Fill' = Fill /\ InString' = InString /\ str' = str
      BY <2>2 DEF dumpVars, Fill, InString, Dumping, str
    <3>2. CASE outcome = "dumping"
      <4>1. PICK w, n : Told(w, n) /\ InPiece(w)
        BY <3>2 DEF SpellInv
      <4>2. Told(w, n)'
        BY <2>2, <4>1, StillTold DEF dumpVars
      <4>3. InPiece(w)'
        <5>1. CASE InString
          <6>1. Writing(str, Fill, w, i, undumped_chars, string_buffer, bytes_after_last_accept, o)
                /\ Waiting(str, i, undumped_chars, state)
                /\ (undumped_chars > 0 => codepoint = Bits(str, i - undumped_chars + 1, i))
            BY <4>1, <5>1 DEF InPiece
          <6>2. PICK s, fill, n1, u, buf, bal, out :
                  /\ s = str /\ fill = Fill /\ n1 = i /\ u = undumped_chars
                  /\ buf = string_buffer /\ bal = bytes_after_last_accept /\ out = o
            OBVIOUS
          <6>3. Writing(s, fill, w, n1, u, buf, bal, out)'
            BY <2>2, <6>1, <6>2, WritingSame DEF dumpVars
          <6>4. Writing(str, Fill, w, i, undumped_chars, string_buffer, bytes_after_last_accept, o)'
            BY <2>2, <3>1, <6>2, <6>3 DEF dumpVars, stringVars
          <6>5. UNCHANGED <<i, undumped_chars, state, codepoint>>
            BY <2>2 DEF dumpVars, stringVars
          <6> QED BY <3>1, <5>1, <6>1, <6>4, <6>5 DEF InPiece
        <5>2. CASE ~InString
          BY <2>2, <3>1, <4>1, <5>2 DEF InPiece, StringIsNew, dumpVars, stringVars
        <5> QED BY <5>1, <5>2
      <4> QED BY <2>2, <3>2, <4>2, <4>3 DEF SpellInv, dumpVars
    <3>3. CASE outcome # "dumping"
      BY <2>2, <3>1, <3>3 DEF SpellInv, dumpVars
    <3> QED BY <3>2, <3>3
  <2> QED BY <2>1, <2>2 DEF Next, Serialize, NotSent, Arrive, Parse, Dispatch, vars, wayVars
<1> QED BY <1>1, <1>2, BufferInvOnTheWay, PTL DEF Spec

-----------------------------------------------------------------------------
(* The text of a message, put together of the texts of its parts. *)

\* In the text t the pieces q lie from p on, up to x.
Spells(t, p, x, q, fill) ==
  \E pos : SpelledBy(t, q, 0, Len(q), pos, fill) /\ pos[0] = p /\ pos[Len(q)] = x

\* The sequence q is a, then b.
IsConcat(q, a, b) ==
  /\ Len(a) \in Nat /\ Len(b) \in Nat /\ Len(q) = Len(a) + Len(b)
  /\ \A k \in 1 .. Len(a) : q[k] = a[k]
  /\ \A k \in 1 .. Len(b) : q[Len(a) + k] = b[k]

\* A text of two sequences of pieces is a text of each, side by side.
LEMMA SpellsParts ==
  ASSUME NEW t, NEW p, NEW x, NEW q, NEW a, NEW b, NEW fill, IsConcat(q, a, b),
         Spells(t, p, x, q, fill)
  PROVE  \E y \in Places : Spells(t, p, y, a, fill) /\ Spells(t, y, x, b, fill)
<1>1. PICK m \in Nat, n \in Nat : m = Len(a) /\ n = Len(b) /\ Len(q) = m + n
  BY DEF IsConcat
<1>2. (\A k \in 1 .. m : q[k] = a[k]) /\ (\A k \in 1 .. n : q[m + k] = b[k])
  BY <1>1 DEF IsConcat
<1>3. PICK pos : SpelledBy(t, q, 0, m + n, pos, fill) /\ pos[0] = p /\ pos[m + n] = x
  BY <1>1 DEF Spells
<1>4. pos \in [Nat -> Places] /\ \A k \in 1 .. m + n : Spelled(t, pos[k - 1], pos[k], q[k], fill)
  BY <1>3 DEF SpelledBy
<1>5. PICK here : here = [k \in Nat |-> pos[m + k]]
  OBVIOUS
<1>6. here \in [Nat -> Places]
  BY <1>4, <1>5
<1>7. SpelledBy(t, a, 0, m, pos, fill)
  <2>1. ASSUME NEW k \in 1 .. m PROVE Spelled(t, pos[k - 1], pos[k], a[k], fill)
    <3>1. k \in 1 .. m + n
      OBVIOUS
    <3> QED BY <1>2, <1>4, <3>1
  <2>2. 0 + 1 .. m = 1 .. m
    OBVIOUS
  <2> QED BY <1>4, <2>1, <2>2 DEF SpelledBy
<1>8. SpelledBy(t, b, 0, n, here, fill)
  <2>1. ASSUME NEW k \in 1 .. n PROVE Spelled(t, here[k - 1], here[k], b[k], fill)
    <3>1. m + k \in 1 .. m + n /\ k - 1 \in Nat /\ k \in Nat /\ m + (k - 1) = (m + k) - 1
      OBVIOUS
    <3>2. here[k - 1] = pos[(m + k) - 1] /\ here[k] = pos[m + k] /\ b[k] = q[m + k]
      BY <1>2, <1>5, <3>1
    <3> QED BY <1>4, <3>1, <3>2
  <2>2. 0 + 1 .. n = 1 .. n
    OBVIOUS
  <2> QED BY <1>6, <2>1, <2>2 DEF SpelledBy
<1>9. here[0] = pos[m] /\ here[n] = x /\ pos[m] \in Places
  <2>1. m + 0 = m
    OBVIOUS
  <2> QED BY <1>3, <1>4, <1>5, <2>1
<1> QED BY <1>1, <1>3, <1>7, <1>8, <1>9 DEF Spells

LEMMA SpellsBoth ==
  ASSUME NEW t, NEW p, NEW x, NEW a \in Seq(Piece), NEW b \in Seq(Piece), NEW fill,
         Spells(t, p, x, a \o b, fill)
  PROVE  \E y \in Places : Spells(t, p, y, a, fill) /\ Spells(t, y, x, b, fill)
<1>1. IsConcat(a \o b, a, b)
  BY ConcatOf DEF IsConcat
<1> QED BY <1>1, SpellsParts

\* So it is for three,
LEMMA SpellsThree ==
  ASSUME NEW t, NEW p, NEW x, NEW a \in Seq(Piece), NEW b \in Seq(Piece), NEW c \in Seq(Piece),
         NEW q, NEW fill, Joined(q, a, b, c), Spells(t, p, x, q, fill)
  PROVE  \E y \in Places : \E z \in Places :
           Spells(t, p, y, a, fill) /\ Spells(t, y, z, b, fill) /\ Spells(t, z, x, c, fill)
<1>1. CASE q = (a \o b) \o c
  <2>1. PICK d \in Seq(Piece) : d = a \o b
    BY ConcatOf
  <2>2. PICK z \in Places : Spells(t, p, z, d, fill) /\ Spells(t, z, x, c, fill)
    BY <1>1, <2>1, SpellsBoth
  <2>3. PICK y \in Places : Spells(t, p, y, a, fill) /\ Spells(t, y, z, b, fill)
    BY <2>1, <2>2, SpellsBoth
  <2> QED BY <2>2, <2>3
<1>2. CASE q = a \o (b \o c)
  <2>1. PICK d \in Seq(Piece) : d = b \o c
    BY ConcatOf
  <2>2. PICK y \in Places : Spells(t, p, y, a, fill) /\ Spells(t, y, x, d, fill)
    BY <1>2, <2>1, SpellsBoth
  <2>3. PICK z \in Places : Spells(t, y, z, b, fill) /\ Spells(t, z, x, c, fill)
    BY <2>1, <2>2, SpellsBoth
  <2> QED BY <2>2, <2>3
<1> QED BY <1>1, <1>2 DEF Joined

LEMMA SpellsNothing ==
  ASSUME NEW t, NEW p, NEW x, NEW fill, Spells(t, p, x, <<>>, fill)
  PROVE  x = p
BY DEF Spells

LEMMA SpellsOne ==
  ASSUME NEW t, NEW p, NEW x, NEW q, NEW piece, Len(q) = 1, q[1] = piece, NEW fill,
         Spells(t, p, x, q, fill)
  PROVE  Spelled(t, p, x, piece, fill) /\ p \in Places /\ x \in Places
<1>1. PICK pos : SpelledBy(t, q, 0, 1, pos, fill) /\ pos[0] = p /\ pos[1] = x
  BY DEF Spells
<1>2. 1 \in 0 + 1 .. 1 /\ 1 - 1 = 0
  OBVIOUS
<1>3. Spelled(t, pos[1 - 1], pos[1], q[1], fill) /\ pos \in [Nat -> Places]
  BY <1>1, <1>2 DEF SpelledBy
<1> QED BY <1>1, <1>2, <1>3

LEMMA SpellsRaw ==
  ASSUME NEW t, NEW p, NEW x, NEW bytes, NEW fill, Spells(t, p, x, Raw(bytes), fill)
  PROVE  LiesAt(bytes, t, p) /\ x = p + Len(bytes) /\ p \in Places /\ x \in Places
<1>1. PICK piece : piece = [escape |-> FALSE, bytes |-> bytes]
  OBVIOUS
<1>2. Len(Raw(bytes)) = 1 /\ Raw(bytes)[1] = piece
  BY <1>1 DEF Raw
<1>3. Spelled(t, p, x, piece, fill) /\ p \in Places /\ x \in Places
  BY <1>2, SpellsOne
<1> QED BY <1>1, <1>3 DEF Spelled, Shows

\* A byte that is written as it is.
LEMMA SpellsByte ==
  ASSUME NEW t, NEW p, NEW x, NEW b, NEW fill, Spells(t, p, x, Raw(<<b>>), fill)
  PROVE  At(t, p) = b /\ x = p + 1 /\ p \in Places
<1>1. LiesAt(<<b>>, t, p) /\ x = p + Len(<<b>>) /\ p \in Places
  <2>1. PICK bytes : bytes = <<b>>
    OBVIOUS
  <2>2. Spells(t, p, x, Raw(bytes), fill)
    BY <2>1
  <2>3. LiesAt(bytes, t, p) /\ x = p + Len(bytes) /\ p \in Places
    BY <2>2, SpellsRaw
  <2> QED BY <2>1, <2>3
<1>2. Len(<<b>>) = 1 /\ <<b>>[1] = b /\ 1 \in 1 .. 1
  OBVIOUS
<1>3. At(t, p + 1 - 1) = b
  <2>1. 1 \in 1 .. Len(<<b>>)
    BY <1>2
  <2>2. At(t, p + 1 - 1) = <<b>>[1]
    BY <1>1, <2>1 DEF LiesAt
  <2> QED BY <1>2, <2>2
<1>4. p + 1 - 1 = p
  BY <1>1 DEF Places
<1> QED BY <1>1, <1>2, <1>3, <1>4

\* A string that is written between quotes.
Quotes(t, p, x, s) ==
  \E e : \E y \in Places :
    /\ At(t, p) = Quote /\ p \in Places
    /\ Encodes(e, s) /\ LiesAt(e, t, p + 1)
    /\ y = p + 1 + Len(e) /\ At(t, y) = Quote /\ x = y + 1

\* A string is written between quotation marks.
LEMMA SpellsQuoted ==
  ASSUME NEW t, NEW p, NEW x, NEW s \in Seq(Bytes), NEW fill, Spells(t, p, x, Quoted(s), fill)
  PROVE  Quotes(t, p, x, Repaired(s, fill))
<1>1. PICK a, b : a = Raw(<<Quote>>) /\ b = <<[escape |-> TRUE, bytes |-> s]>>
  OBVIOUS
<1>2. a \in Seq(Piece) /\ b \in Seq(Piece)
  <2>1. <<Quote>> \in Seq(Bytes)
    BY ListOf DEF Quote, Bytes
  <2> QED BY <1>1, <2>1, RawPiece
<1>3. Joined(Quoted(s), a, b, a)
  BY <1>1 DEF Quoted, Joined
<1>4. PICK y \in Places, z \in Places :
         Spells(t, p, y, a, fill) /\ Spells(t, y, z, b, fill) /\ Spells(t, z, x, a, fill)
  BY <1>2, <1>3, SpellsThree
<1>5. At(t, p) = Quote /\ y = p + 1 /\ p \in Places /\ At(t, z) = Quote /\ x = z + 1
  BY <1>1, <1>4, SpellsByte
<1>6. PICK piece : piece = [escape |-> TRUE, bytes |-> s]
  OBVIOUS
<1>7. Spelled(t, y, z, piece, fill)
  <2>1. Len(b) = 1 /\ b[1] = piece
    BY <1>1, <1>6
  <2> QED BY <1>4, <2>1, SpellsOne
<1>8. PICK e : Shows(piece, e, fill) /\ LiesAt(e, t, y) /\ z = y + Len(e)
  BY <1>7 DEF Spelled
<1>9. Encodes(e, Repaired(s, fill))
  BY <1>6, <1>8 DEF Shows
<1> QED BY <1>5, <1>8, <1>9 DEF Quotes

\* One behind the other the pieces of each part of ss lie where at says.
SpellsEach(t, p, x, ss, n, at, fill) ==
  /\ at \in [Nat -> Places] /\ at[0] = p /\ at[n] = x
  /\ \A k \in 1 .. n : Spells(t, at[k - 1], at[k], ss[k], fill)

\* for n,
LEMMA SpellsSum ==
  ASSUME NEW t, NEW p \in Places, NEW ss \in Seq(Seq(Piece)),
         NEW f \in [1 .. Len(ss) -> Seq(Piece)],
         f[1] = ss[1], \A k \in 2 .. Len(ss) : f[k] = f[k - 1] \o ss[k], NEW fill,
         NEW n \in 1 .. Len(ss), NEW x \in Places, Spells(t, p, x, f[n], fill)
  PROVE  \E at : SpellsEach(t, p, x, ss, n, at, fill)
<1> DEFINE G == {k \in Nat : k \in 1 .. Len(ss) =>
                   \A y \in Places : Spells(t, p, y, f[k], fill) =>
                     \E at : SpellsEach(t, p, y, ss, k, at, fill)}
<1>1. ASSUME NEW k \in Nat, \A j \in 0 .. k - 1 : j \in G PROVE k \in G
  <2> SUFFICES ASSUME k \in 1 .. Len(ss), NEW y \in Places, Spells(t, p, y, f[k], fill)
               PROVE  \E at : SpellsEach(t, p, y, ss, k, at, fill)
    OBVIOUS
  <2>1. CASE k = 1
    <3>1. PICK at : at = [j \in Nat |-> IF j = 0 THEN p ELSE y]
      OBVIOUS
    <3>2. at \in [Nat -> Places] /\ at[0] = p /\ at[1] = y
      BY <3>1
    <3>3. Spells(t, at[1 - 1], at[1], ss[1], fill)
      <4>1. Spells(t, p, y, ss[1], fill)
        BY <2>1
      <4>2. 1 - 1 = 0
        OBVIOUS
      <4> QED BY <3>2, <4>1, <4>2
    <3>4. \A j \in 1 .. 1 : j = 1
      OBVIOUS
    <3> QED BY <2>1, <3>2, <3>3, <3>4 DEF SpellsEach
  <2>2. CASE k # 1
    <3>1. k \in 2 .. Len(ss) /\ k - 1 \in 1 .. Len(ss) /\ k - 1 \in 0 .. k - 1 /\ k - 1 \in Nat
      BY <2>2
    <3>2. PICK a \in Seq(Piece), b \in Seq(Piece) : a = f[k - 1] /\ b = ss[k]
      <4>1. PICK j \in 1 .. Len(ss) : j = k - 1
        BY <3>1
      <4>2. f[j] \in Seq(Piece)
        OBVIOUS
      <4>3. ss[k] \in Seq(Piece)
        OBVIOUS
      <4> QED BY <4>1, <4>2, <4>3
    <3>3. Spells(t, p, y, a \o b, fill)
      BY <3>1, <3>2
    <3>4. PICK z \in Places : Spells(t, p, z, a, fill) /\ Spells(t, z, y, b, fill)
      BY <3>3, SpellsBoth
    <3>5. \E at : SpellsEach(t, p, z, ss, k - 1, at, fill)
      <4>1. k - 1 \in G
        BY <1>1, <3>1
      <4>2. Spells(t, p, z, f[k - 1], fill)
        BY <3>2, <3>4
      <4> QED BY <3>1, <4>1, <4>2
    <3>6. PICK at : SpellsEach(t, p, z, ss, k - 1, at, fill)
      BY <3>5
    <3>7. /\ at \in [Nat -> Places] /\ at[0] = p /\ at[k - 1] = z
          /\ \A j \in 1 .. k - 1 : Spells(t, at[j - 1], at[j], ss[j], fill)
      BY <3>6 DEF SpellsEach
    <3>8. PICK to : to = [j \in Nat |-> IF j = k THEN y ELSE at[j]]
      OBVIOUS
    <3>9. to \in [Nat -> Places] /\ to[0] = p /\ to[k] = y /\ to[k - 1] = z
      <4>1. 0 # k /\ k - 1 # k
        BY <3>1
      <4> QED BY <3>1, <3>7, <3>8, <4>1
    <3>10. ASSUME NEW j \in 1 .. k PROVE Spells(t, to[j - 1], to[j], ss[j], fill)
      <4>1. CASE j = k
        BY <3>2, <3>4, <3>9, <4>1
      <4>2. CASE j # k
        <5>1. j \in 1 .. k - 1 /\ j - 1 # k /\ j - 1 \in Nat /\ j \in Nat
          BY <3>1, <4>2
        <5>2. to[j] = at[j] /\ to[j - 1] = at[j - 1]
          BY <3>8, <4>2, <5>1
        <5> QED BY <3>7, <5>1, <5>2
      <4> QED BY <4>1, <4>2
    <3> QED BY <3>9, <3>10 DEF SpellsEach
  <2> QED BY <2>1, <2>2
<1>2. \A k \in Nat : k \in G
  <2> HIDE DEF G
  <2> QED BY <1>1, Induction
<1>3. n \in G
  <2>1. n \in Nat
    OBVIOUS
  <2> HIDE DEF G
  <2> QED BY <1>2, <2>1
<1> QED BY <1>3

\* for all of a sequence of them,
LEMMA SpellsFlat ==
  ASSUME NEW t, NEW p \in Places, NEW x \in Places, NEW ss \in Seq(Seq(Piece)), NEW fill,
         Spells(t, p, x, FlattenSeq(ss), fill)
  PROVE  \E at : SpellsEach(t, p, x, ss, Len(ss), at, fill)
<1>1. CASE ss = <<>>
  <2>1. FlattenSeq(ss) = <<>>
    BY <1>1 DEF FlattenSeq
  <2>2. x = p
    BY <2>1, SpellsNothing
  <2>3. PICK at : at = [k \in Nat |-> p]
    OBVIOUS
  <2>4. Len(ss) = 0 /\ at \in [Nat -> Places] /\ at[0] = p
    BY <1>1, <2>3
  <2> QED BY <2>2, <2>4 DEF SpellsEach
<1>2. CASE ss # <<>>
  <2>1. PICK f \in [1 .. Len(ss) -> Seq(Piece)] :
           /\ f[1] = ss[1]
           /\ \A k \in 2 .. Len(ss) : f[k] = f[k - 1] \o ss[k]
           /\ FlattenSeq(ss) = f[Len(ss)]
    BY <1>2, FlattenSums
  <2>2. PICK n : n = Len(ss)
    OBVIOUS
  <2>3. n \in 1 .. Len(ss)
    BY <1>2, <2>2, EmptySeq
  <2>4. Spells(t, p, x, f[n], fill)
    BY <2>1, <2>2
  <2>5. \E at : SpellsEach(t, p, x, ss, n, at, fill)
    <3>1. f[1] = ss[1] /\ \A k \in 2 .. Len(ss) : f[k] = f[k - 1] \o ss[k]
      BY <2>1
    <3> QED BY <2>3, <2>4, <3>1, SpellsSum
  <2> QED BY <2>2, <2>5
<1> QED BY <1>1, <1>2

\* The parts lie from beg to fin, with commas in between.
SpellsList(t, p, x, parts, n, beg, fin, fill) ==
  /\ beg \in [Nat -> Places] /\ fin \in [Nat -> Places]
  /\ \A k \in 1 .. n : Spells(t, beg[k], fin[k], parts[k], fill)
  /\ n = 0 => x = p
  /\ n > 0 => beg[1] = p /\ fin[n] = x
  /\ \A k \in 1 .. n - 1 : At(t, fin[k]) = 44 /\ beg[k + 1] = fin[k] + 1

\* and for a list, with the commas between.
LEMMA SpellsListed ==
  ASSUME NEW t, NEW p \in Places, NEW x \in Places, NEW parts \in Seq(Seq(Piece)), NEW fill,
         Spells(t, p, x, Listed(parts), fill)
  PROVE  \E beg : \E fin : SpellsList(t, p, x, parts, Len(parts), beg, fin, fill)
<1>1. PICK n \in Nat : n = Len(parts) /\ DOMAIN parts = 1 .. n
  OBVIOUS
<1>2. PICK ss : ss = [k \in DOMAIN parts |-> IF k < Len(parts) THEN parts[k] \o Raw(<<44>>)
             ELSE parts[k]]
  OBVIOUS
<1>3. Raw(<<44>>) \in Seq(Piece)
  <2>1. <<44>> \in Seq(Bytes)
    BY ListOf DEF Bytes
  <2> QED BY <2>1, RawPiece
<1>4. PICK comma \in Seq(Piece) : comma = Raw(<<44>>)
  BY <1>3
<1>5. \A k \in 1 .. n : ss[k] = IF k < n THEN parts[k] \o comma ELSE parts[k]
  BY <1>1, <1>2, <1>4
<1>6. ss \in Seq(Seq(Piece)) /\ Len(ss) = n
  <2>1. \A k \in 1 .. n : parts[k] \in Seq(Piece)
    BY <1>1
  <2>2. \A k \in 1 .. n : parts[k] \o comma \in Seq(Piece)
    BY <2>1, ConcatOf
  <2>3. \A k \in 1 .. n : ss[k] \in Seq(Piece)
    BY <1>5, <2>1, <2>2
  <2>4. ss = [k \in 1 .. n |-> ss[k]]
    BY <1>1, <1>2
  <2> QED BY <2>3, <2>4, SeqDef
<1>7. Listed(parts) = FlattenSeq(ss)
  BY <1>2 DEF Listed
<1>8. PICK at : SpellsEach(t, p, x, ss, n, at, fill)
  BY <1>6, <1>7, SpellsFlat
<1>9. /\ at \in [Nat -> Places] /\ at[0] = p /\ at[n] = x
      /\ \A k \in 1 .. n : Spells(t, at[k - 1], at[k], ss[k], fill)
  BY <1>8 DEF SpellsEach
<1>10. ASSUME NEW k \in 1 .. n - 1
       PROVE  \E y \in Places : Spells(t, at[k - 1], y, parts[k], fill) /\ At(t, y) = 44
              /\ at[k] = y + 1
  <2>1. k \in 1 .. n /\ k < n
    OBVIOUS
  <2>2. PICK a \in Seq(Piece) : a = parts[k]
    BY <1>1, <2>1
  <2>3. Spells(t, at[k - 1], at[k], a \o comma, fill)
    BY <1>5, <1>9, <2>1, <2>2
  <2>4. PICK y \in Places : Spells(t, at[k - 1], y, a, fill) /\ Spells(t, y, at[k], comma, fill)
    BY <2>3, SpellsBoth
  <2>5. At(t, y) = 44 /\ at[k] = y + 1
    BY <1>4, <2>4, SpellsByte
  <2> QED BY <2>2, <2>4, <2>5
<1>11. PICK end : end = [k \in Nat |-> IF k \in 1 .. n - 1
             THEN CHOOSE y \in Places : Spells(t, at[k - 1], y, parts[k], fill) /\ At(t, y) = 44
             /\ at[k] = y + 1
             ELSE at[k]]
  OBVIOUS
<1>12. ASSUME NEW k \in 1 .. n - 1
       PROVE  end[k] \in Places /\ Spells(t, at[k - 1], end[k], parts[k], fill)
              /\ At(t, end[k]) = 44
              /\ at[k] = end[k] + 1
  <2>1. k \in Nat
    OBVIOUS
  <2> QED BY <1>10, <1>11, <2>1
<1>13. \A k \in Nat : k \notin 1 .. n - 1 => end[k] = at[k]
  BY <1>11
<1>14. end \in [Nat -> Places]
  BY <1>9, <1>11, <1>12, <1>13
<1>15. PICK beg : beg = [k \in Nat |-> IF k = 0 THEN p ELSE at[k - 1]]
  OBVIOUS
<1>16. beg \in [Nat -> Places] /\ \A k \in Nat \ {0} : beg[k] = at[k - 1]
  BY <1>9, <1>15
<1>17. ASSUME NEW k \in 1 .. n PROVE Spells(t, beg[k], end[k], parts[k], fill)
  <2>1. k \in Nat \ {0} /\ beg[k] = at[k - 1]
    BY <1>16
  <2>2. CASE k \in 1 .. n - 1
    BY <1>12, <2>1, <2>2
  <2>3. CASE k \notin 1 .. n - 1
    <3>1. k = n /\ ~ k < n
      BY <2>3
    <3> QED BY <1>5, <1>9, <1>13, <2>1, <2>3, <3>1
  <2> QED BY <2>2, <2>3
<1>18. ASSUME NEW k \in 1 .. n - 1 PROVE At(t, end[k]) = 44 /\ beg[k + 1] = end[k] + 1
  <2>1. k + 1 \in Nat \ {0} /\ (k + 1) - 1 = k
    OBVIOUS
  <2> QED BY <1>12, <1>16, <2>1
<1>19. n > 0 => beg[1] = p /\ end[n] = x
  <2>1. 1 \in Nat \ {0} /\ 1 - 1 = 0 /\ n \notin 1 .. n - 1
    OBVIOUS
  <2> QED BY <1>9, <1>13, <1>16, <2>1
<1>20. n = 0 => x = p
  BY <1>9
<1>21. SpellsList(t, p, x, parts, n, beg, end, fill)
  BY <1>14, <1>16, <1>17, <1>18, <1>19, <1>20 DEF SpellsList
<1> QED BY <1>1, <1>21

-----------------------------------------------------------------------------
(* The tokens of such a text. *)

\* A token begins at p.
LEMMA ScansHere ==
  ASSUME NEW t \in Seq(Bytes), NEW p \in Places, At(t, p) \notin Space, At(t, p) # 239
  PROVE  Scan(t, p) = TokenAt(t, p)
<1>0. PICK l \in Nat : l = Len(t)
  OBVIOUS
<1>2. p \in Nat \ {0} /\ p # 0
  BY DEF Places
<1>3. Begin(t, p) = p
  <2>1. CASE p > 1
    BY <2>1 DEF Begin
  <2>2. CASE ~ p > 1
    <3>1. p = 1
      BY <1>2, <2>2
    <3> QED BY <3>1 DEF Begin, SkipBom
  <2> QED BY <2>1, <2>2
<1>4. PICK s : s = SkipWhitespace(t, p)
  OBVIOUS
<1>5. s = p
  <2>1. s \in p .. p + l /\ \A r \in p .. s - 1 : At(t, r) \in Space
    BY <1>0, <1>2, <1>4, WhitespaceEnds DEF IsSkipped
  <2>3. p \notin p .. s - 1
    BY <2>1
  <2> QED BY <1>2, <2>1, <2>3
<1> QED BY <1>0, <1>2, <1>3, <1>4, <1>5, ScanIs

LEMMA NoLiteralHere ==
  ASSUME NEW t, NEW p \in Places, At(t, p) \notin {116, 102, 110}, NEW w \in Literals
  PROVE  ~IsLiteral(t, p, w[1])
<1>1. PICK word : word = w[1]
  OBVIOUS
<1>2. 1 \in 1 .. Len(word) /\ word[1] \in {116, 102, 110}
  <2>1. /\ Len(<<116, 114, 117, 101>>) = 4 /\ Len(<<102, 97, 108, 115, 101>>) = 5
        /\ Len(<<110, 117, 108, 108>>) = 4
    OBVIOUS
  <2> QED BY <1>1, <2>1 DEF Literals
<1>3. p + 1 - 1 = p
  BY DEF Places
<1>4. At(t, p + 1 - 1) # word[1]
  BY <1>2, <1>3
<1>5. ~IsLiteral(t, p, word)
  BY <1>2, <1>4 DEF IsLiteral
<1> QED BY <1>1, <1>5

\* The structural characters that dump writes.
StructureToken(t, p, b, type) == At(t, p) = b => Scan(t, p) = Token(type, p + 1)

\* The tokens of one byte.
LEMMA StructureScanned ==
  ASSUME NEW t \in Seq(Bytes), NEW p \in Places, NEW s \in Structure, At(t, p) = s[1]
  PROVE  Scan(t, p) = Token(s[2], p + 1)
<1>1. s[1] \notin Space /\ s[1] # 239
  BY SMTT(60) DEF Structure, Space
<1>2. Scan(t, p) = TokenAt(t, p)
  BY <1>1, ScansHere
<1>3. \A r \in Structure : r[1] = s[1] => r[2] = s[2]
  BY SMTT(60) DEF Structure
<1>4. PICK r : r = CHOOSE x \in Structure : x[1] = At(t, p)
  OBVIOUS
<1>5. (\E x \in Structure : x[1] = At(t, p)) /\ r \in Structure /\ r[1] = s[1]
  BY <1>4
<1>6. TokenAt(t, p) = Token(r[2], p + 1)
  BY <1>4, <1>5 DEF TokenAt
<1> QED BY <1>2, <1>3, <1>5, <1>6

LEMMA StructuresScanned ==
  ASSUME NEW t \in Seq(Bytes), NEW p \in Places
  PROVE  /\ StructureToken(t, p, 91, "begin_array") /\ StructureToken(t, p, 93, "end_array")
         /\ StructureToken(t, p, 123, "begin_object") /\ StructureToken(t, p, 125, "end_object")
         /\ StructureToken(t, p, 58, "name_separator") /\ StructureToken(t, p, 44,
              "value_separator")
<1>1. ASSUME NEW b, NEW type, <<b, type>> \in Structure PROVE StructureToken(t, p, b, type)
  <2> SUFFICES ASSUME At(t, p) = b PROVE Scan(t, p) = Token(type, p + 1)
    BY DEF StructureToken
  <2>1. PICK s : s = <<b, type>>
    OBVIOUS
  <2>2. s \in Structure /\ s[1] = b /\ s[2] = type
    BY <1>1, <2>1
  <2> QED BY <2>2, StructureScanned
<1>2. /\ <<91, "begin_array">> \in Structure /\ <<93, "end_array">> \in Structure
      /\ <<123, "begin_object">> \in Structure /\ <<125, "end_object">> \in Structure
      /\ <<58, "name_separator">> \in Structure /\ <<44, "value_separator">> \in Structure
  BY DEF Structure
<1> QED BY <1>1, <1>2

\* The lexer reads a string between quotes as what its bytes encode.
LEMMA QuotesScanned ==
  ASSUME NEW t \in Seq(Bytes), NEW p, NEW x, NEW s, Quotes(t, p, x, s)
  PROVE  Scan(t, p) = StringToken(s, x) /\ p \in Places /\ x \in Places
<1>0. PICK e : \E z \in Places :
    /\ At(t, p) = Quote /\ p \in Places
    /\ Encodes(e, s) /\ LiesAt(e, t, p + 1)
    /\ z = p + 1 + Len(e) /\ At(t, z) = Quote /\ x = z + 1
  BY DEF Quotes
<1>1. PICK y \in Places :
    /\ At(t, p) = Quote /\ p \in Places
    /\ Encodes(e, s) /\ LiesAt(e, t, p + 1)
    /\ y = p + 1 + Len(e) /\ At(t, y) = Quote /\ x = y + 1
  BY <1>0
<1>2. PICK q \in Places : q = p + 1
  BY <1>1 DEF Places
<1>3. At(t, p) = 34
  BY <1>1 DEF Quote
<1>4. 34 \notin Space /\ 34 # 239 /\ (\A r \in Structure : r[1] # 34) /\ 34 \notin {116, 102, 110}
  BY SMTT(60) DEF Space, Structure
<1>5. Scan(t, p) = TokenAt(t, p)
  BY <1>1, <1>3, <1>4, ScansHere
<1>6. \A w \in Literals : ~IsLiteral(t, p, w[1])
  BY <1>1, <1>3, <1>4, NoLiteralHere
<1>7. TokenAt(t, p) = ScanString(t, q)
  BY <1>2, <1>3, <1>4, <1>6 DEF TokenAt, Quote
<1>8. PICK f : Scanned(f, t) /\ \A z : ScanString(t, z) = f[Unit(<<>>, z)]
  BY ScanStringIs
<1>9. ReadTo(t, q, y, s) /\ s \in Seq(Bytes)
  <2>1. LiesAt(e, t, q) /\ y = q + Len(e)
    BY <1>1, <1>2
  <2> QED BY <1>1, <2>1 DEF Encodes
<1>10. f[Unit(<<>>, q)] = f[Unit(s, y)]
  <2>1. <<>> \in Seq(Bytes) /\ <<>> \o s = s
    BY <1>9
  <2>2. f[Unit(<<>>, q)] = f[Unit(<<>> \o s, y)]
    BY <1>8, <1>9, <2>1 DEF ReadTo
  <2> QED BY <2>1, <2>2
<1>11. f[Unit(s, y)] = StringToken(s, y + 1)
  <2>1. PICK u : u = Unit(s, y)
    OBVIOUS
  <2>2. u.ok /\ u.next = y /\ u.bytes = s
    BY <2>1 DEF Unit
  <2>3. u \in Reading
    <3>1. y \in Nat
      BY DEF Places
    <3> QED BY <1>9, <2>1, <3>1, ReadingFields DEF Unit, Reading
  <2>4. f[u] = IF ~u.ok THEN Error(u.next)
               ELSE IF At(t, u.next) = Quote THEN StringToken(u.bytes, u.next + 1)
               ELSE f[Extended(u, UnitAt(t, u.next))]
    BY <1>8, <2>3 DEF Scanned
  <2> QED BY <1>1, <2>1, <2>2, <2>4
<1>12. x \in Places
  BY <1>1 DEF Places
<1> QED BY <1>1, <1>5, <1>7, <1>8, <1>10, <1>11, <1>12

\* What is ASCII is not repaired.
LEMMA KeyKept ==
  ASSUME NEW b \in 0 .. 127, NEW fill \in Seq(Bytes)
  PROVE  Repaired(<<b>>, fill) = <<b>>
<1>1. b \in Bytes
  BY SMTT(60) DEF Bytes
<1>10. <<b>> \in Seq(Bytes) /\ Len(<<b>>) = 1 /\ <<b>>[1] = b
  BY <1>1, ListOf
<1>2. PICK s \in Seq(Bytes) : s = <<b>>
  BY <1>10
<1>11. Len(s) = 1 /\ s[1] = b
  BY <1>2, <1>10
<1>3. Begins(s, 1, 1) /\ Width(s[1]) = 1 - 1 + 1
  <2>1. Width(b) = 1
    BY SMTT(60) DEF Width
  <2>2. 1 - 1 + 1 = 1 /\ 1 + 1 .. 1 = {} /\ ~ 1 > 1
    OBVIOUS
  <2>3. b \in 0 .. 127 \cup 194 .. 244 /\ 1 >= 1
    OBVIOUS
  <2> QED BY <1>11, <2>1, <2>2, <2>3 DEF Begins
<1>4. MendsOn(s, fill, 1, 1, SubSeq(s, 1, 1))
  <2>1. 1 \in 1 .. Len(s) /\ 1 \in 1 .. Len(s)
    BY <1>11
  <2> QED BY <1>3, <2>1, MendedScalar
<1>5. SubSeq(s, 1, 1) = s
  <2>1. SubSeq(s, 1, Len(s)) = s
    OBVIOUS
  <2> QED BY <1>11, <2>1
<1>6. Mended(s, fill)[1 + 1] = <<>>
  <2>1. 1 + 1 = Len(s) + 1
    BY <1>11
  <2> QED BY <2>1, MendedEnd
<1>7. Mended(s, fill)[1] = s \o <<>>
  BY <1>4, <1>5, <1>6 DEF MendsOn
<1>8. s \o <<>> = s
  BY NothingAdded
<1>9. Repaired(s, fill) = Mended(s, fill)[1]
  BY MendedIs
<1> QED BY <1>2, <1>7, <1>8, <1>9

LEMMA NothingKept ==
  ASSUME NEW fill \in Seq(Bytes)
  PROVE  Repaired(<<>>, fill) = <<>>
<1>1. PICK s \in Seq(Bytes) : s = <<>>
  <2>1. <<>> \in Seq(Bytes)
    OBVIOUS
  <2> QED BY <2>1
<1>2. Mended(s, fill)[Len(s) + 1] = <<>> /\ Repaired(s, fill) = Mended(s, fill)[1]
  BY MendedEnd, MendedIs
<1>3. Len(s) + 1 = 1
  BY <1>1
<1> QED BY <1>1, <1>2, <1>3

\* The digits e lie from a on, up to x, where an object is closed.
DigitsLie(t, e, a, x) ==
  LiesAt(e, t, a) /\ x = a + Len(e) /\ At(t, x) = 125

\* They begin a number, or stand behind its minus sign.
NumberFrom(t, p, a) == a = p \/ (a = p + 1 /\ At(t, p) = 45)

\* scan_number reads the written number.
LEMMA DigitsRead ==
  ASSUME NEW t \in Seq(Bytes), NEW p \in Places, NEW a \in Places, NumberFrom(t, p, a),
         NEW f, Below(f), NEW k \in Nat, NEW x, DigitsLie(t, f[k], a, x)
  PROVE  /\ ScanNumber(t, p) = NumberToken(a # p, FALSE, k, x)
         /\ At(t, p) \in 45 .. 57
<1>0. p \in Nat /\ p > 0 /\ a \in Nat /\ (a = p \/ a = p + 1)
  BY DEF Places, NumberFrom
<1>1. PICK e : e = f[k]
  OBVIOUS
<1>2. PICK n \in Nat \ {0} : n = Len(e)
  BY <1>1, DigitsRun DEF RunOf
<1>3. /\ \A j \in 1 .. n : At(t, a + j - 1) = e[j]
      /\ x = a + n /\ At(t, x) = 125
  BY <1>1, <1>2 DEF DigitsLie, LiesAt
<1>4. \A j \in 1 .. n : e[j] \in 48 .. 57
  BY <1>1, <1>2, DigitsRun DEF RunOf
<1>5. e[1] = 48 => n = 1
  BY <1>1, <1>2, DigitsRun DEF RunOf
<1>6. ASSUME NEW j \in 0 .. n - 1
      PROVE  At(t, a + j) \in 48 .. 57 /\ t[a + j] \in 48 .. 57 /\ t[a + j] = e[j + 1]
  <2>1. j + 1 \in 1 .. n /\ a + (j + 1) - 1 = a + j /\ a + j \in Nat
    BY <1>0
  <2>2. PICK q \in Nat : q = a + j
    BY <2>1
  <2>3. At(t, q) = e[j + 1] /\ At(t, q) \in 48 .. 57
    <3>1. At(t, a + (j + 1) - 1) = e[j + 1] /\ e[j + 1] \in 48 .. 57
      BY <1>3, <1>4, <2>1
    <3> QED BY <2>1, <2>2, <3>1
  <2>4. Len(t) \in Nat /\ At(t, q) \in Nat
    BY <2>3
  <2>5. t[q] = At(t, q)
    BY <2>4, Within
  <2> QED BY <2>2, <2>3, <2>5
<1>7. At(t, a) = e[1] /\ At(t, a) \in 48 .. 57 /\ t[a] \in 48 .. 57
  <2>1. 0 \in 0 .. n - 1 /\ a + 0 = a
    BY <1>0
  <2>2. 1 \in 1 .. n /\ a + 1 - 1 = a
    BY <1>0
  <2> QED BY <1>3, <1>6, <2>1, <2>2
<1>8. a # p => a = p + 1 /\ At(t, p) = 45 /\ t[p] = 45
  <2>1. ASSUME At(t, p) = 45 PROVE t[p] = 45
    <3>1. Len(t) \in Nat /\ At(t, p) \in Nat
      BY <2>1
    <3> QED BY <1>0, <2>1, <3>1, Within
  <2> QED BY <2>1 DEF NumberFrom
<1>9. At(t, p) \in 45 .. 57
  BY <1>7, <1>8
<1>10. (t[p] = Minus) <=> (a # p)
  BY <1>7, <1>8 DEF Minus
<1>11. NumberEnd(t, p) = x
  <2> DEFINE g == CHOOSE h : Ended(h, t)
  <2>1. Ended(g, t)
    <3>1. Len(t) \in Nat
      OBVIOUS
    <3>2. PICK h : Ended(h, t)
      BY <3>1, NumberEnds
    <3> QED BY <3>2
  <2>2. NumberEnd(t, p) = g[p]["init"]
    BY DEF NumberEnd
  <2> HIDE DEF g
  <2>3. ASSUME NEW from \in {"init", "minus"} PROVE g[a][from] = x
    <3>1. At(t, a) = 48 => n = 1
      BY <1>5, <1>7
    <3>2. \A j \in 0 .. n - 1 : At(t, a + j) \in 48 .. 57
      BY <1>6
    <3> QED BY <1>3, <2>1, <3>1, <3>2, RunEnds
  <2>4. CASE a = p
    BY <2>2, <2>3, <2>4
  <2>5. CASE a # p
    <3>1. NumberNext("init", At(t, p)) = "minus"
      BY <1>8, <2>5, DigitSteps
    <3>2. "init" \in NumberStates
      BY DEF NumberStates
    <3>3. g[p]["init"] = g[p + 1]["minus"]
      BY <1>0, <2>1, <3>1, <3>2, EndedOn
    <3> QED BY <1>8, <2>2, <2>3, <2>5, <3>3
  <2> QED BY <2>4, <2>5
<1>12. PICK v : Valued(v, t, p) /\ NumberRead(t, p, v, x, ScanNumber(t, p))
  BY <1>11, ScanNumberCounts
<1>13. v[a - 1] = 0
  <2>1. a - 1 \in Nat
    BY <1>0
  <2>2. v[a - 1] = IF a - 1 < p \/ t[a - 1] \notin Digit THEN 0
          ELSE 10 * v[(a - 1) - 1] + t[a - 1] - 48
    BY <1>12, <2>1 DEF Valued
  <2>3. a - 1 < p \/ t[a - 1] \notin Digit
    <3>1. a = p => a - 1 < p
      BY <1>0
    <3>2. a # p => t[a - 1] = 45
      BY <1>0, <1>8
    <3>3. 45 \notin Digit
      BY DEF Digit
    <3> QED BY <3>1, <3>2, <3>3
  <2> QED BY <2>2, <2>3
<1>14. v[x - 1] = k
  <2>1. \A j \in 1 .. Len(f[k]) : t[a + j - 1] = f[k][j]
    <3>1. ASSUME NEW j \in 1 .. n PROVE t[a + j - 1] = e[j]
      <4>1. PICK i0 \in 0 .. n - 1 : i0 = j - 1
        OBVIOUS
      <4>2. a + i0 = a + j - 1 /\ i0 + 1 = j
        BY <1>0, <4>1
      <4>3. t[a + i0] = e[i0 + 1]
        BY <1>6
      <4> QED BY <4>2, <4>3
    <3> QED BY <1>1, <1>2, <3>1
  <2>2. v[a + Len(f[k]) - 1] = k
    <3>1. a >= p
      BY <1>0
    <3> QED BY <1>12, <1>13, <2>1, <3>1, DigitsCounted
  <2>3. x - 1 = a + n - 1
    <3>1. x = a + n
      BY <1>3
    <3> QED BY <1>0, <3>1
  <2>4. v[a + n - 1] = k
    BY <1>1, <1>2, <2>2, Zenon
  <2> QED BY <2>3, <2>4, Zenon
<1>15. x # 0 /\ \A q \in p .. x - 1 : t[q] \notin {Dot} \cup Exp
  <2>1. x # 0
    BY <1>0, <1>3
  <2>2. ASSUME NEW q \in p .. x - 1 PROVE t[q] \in 48 .. 57 \/ t[q] = 45
    <3>1. CASE q >= a
      <4>1. PICK j \in 0 .. n - 1 : j = q - a /\ a + j = q
        BY <1>0, <1>3, <3>1
      <4> QED BY <1>6, <4>1
    <3>2. CASE ~ q >= a
      <4>1. q = p /\ a # p
        BY <1>0, <3>2
      <4> QED BY <1>8, <4>1
    <3>3. q >= a \/ ~ q >= a
      OBVIOUS
    <3> QED BY <3>1, <3>2, <3>3
  <2>3. \A b : b \in 48 .. 57 \/ b = 45 => b \notin {Dot} \cup Exp
    BY DEF Dot, Exp
  <2> QED BY <2>1, <2>2, <2>3
<1>16. ScanNumber(t, p) = NumberToken(t[p] = Minus, FALSE, v[x - 1], x)
  BY <1>12, <1>15 DEF NumberRead
<1>17. PICK minus \in BOOLEAN : minus = (t[p] = Minus) /\ minus = (a # p)
  BY <1>10
<1> QED BY <1>9, <1>14, <1>16, <1>17

\* The token of the number n.
NumberIs(k, n, x) ==
  /\ k.type \in {"value_unsigned", "value_integer"}
  /\ k.num = n /\ k.text = <<>> /\ k.next = x

\* What fits into 64 bits is read as an integer.
LEMMA NumberFits ==
  ASSUME NEW n \in Int, Storable(n), NEW m \in Nat, NEW minus \in BOOLEAN,
         minus <=> n < 0, m = IF minus THEN -n ELSE n, NEW x
  PROVE  NumberIs(NumberToken(minus, FALSE, m, x), n, x)
<1>1. PICK h : h = (MaxUnsigned + 1) \div 2
  OBVIOUS
<1>2. h \in Int /\ MaxUnsigned \in Nat
  BY <1>1, LexerAssumption
<1>3. -h <= n /\ n <= MaxUnsigned
  BY <1>1 DEF Storable
<1>4. CASE minus
  <2>1. m <= h /\ m = -n
    BY <1>2, <1>3, <1>4
  <2>2. PICK k : k = [Token("value_integer", x) EXCEPT !.num = -m]
    OBVIOUS
  <2>3. NumberToken(minus, FALSE, m, x) = k
    BY <1>1, <1>4, <2>1, <2>2 DEF NumberToken
  <2>4. k.type = "value_integer" /\ k.num = -m /\ k.text = <<>> /\ k.next = x
    BY <2>2 DEF Token
  <2>5. -m = n
    BY <2>1
  <2> QED BY <2>3, <2>4, <2>5 DEF NumberIs
<1>5. CASE ~minus
  <2>1. m <= MaxUnsigned /\ m = n
    BY <1>3, <1>5
  <2>2. PICK k : k = [Token("value_unsigned", x) EXCEPT !.num = m]
    OBVIOUS
  <2>3. NumberToken(minus, FALSE, m, x) = k
    BY <1>5, <2>1, <2>2 DEF NumberToken
  <2>4. k.type = "value_unsigned" /\ k.num = m /\ k.text = <<>> /\ k.next = x
    BY <2>2 DEF Token
  <2> QED BY <2>1, <2>3, <2>4 DEF NumberIs
<1> QED BY <1>4, <1>5

\* What dump_integer writes the lexer reads back.
LEMMA DigitsScanned ==
  ASSUME NEW t \in Seq(Bytes), NEW p \in Places, NEW n \in Int, Storable(n),
         NEW x, DigitsLie(t, Digits(n), p, x)
  PROVE  NumberIs(Scan(t, p), n, x) /\ x \in Places
<1>1. PICK f : Below(f) /\ \A k \in Int : Digits(k) = IF k < 0 THEN <<45>> \o f[-k] ELSE f[k]
  BY DigitsBelow
<1>2. PICK m \in Nat : m = IF n < 0 THEN -n ELSE n
  OBVIOUS
<1>3. PICK minus \in BOOLEAN : minus <=> n < 0
  OBVIOUS
<1>4. PICK e : e = f[m]
  OBVIOUS
<1>5. e \in Seq(Bytes) /\ Len(e) \in Nat \ {0}
  BY <1>1, <1>4, DigitsRun DEF RunOf
<1>6. PICK a \in Places : a = IF minus THEN p + 1 ELSE p
  BY DEF Places
<1>7. NumberFrom(t, p, a) /\ DigitsLie(t, e, a, x)
  <2>1. CASE ~minus
    <3>1. Digits(n) = e
      BY <1>1, <1>2, <1>3, <1>4, <2>1
    <3> QED BY <1>6, <2>1, <3>1 DEF NumberFrom
  <2>2. CASE minus
    <3>1. Digits(n) = <<45>> \o e
      BY <1>1, <1>2, <1>3, <1>4, <2>2
    <3>2. 45 \in Bytes
      BY SMTT(60) DEF Bytes
    <3>3. PICK s \in Seq(Bytes) : s = <<45>> /\ Len(s) = 1 /\ s[1] = 45
      <4>1. <<45>> \in Seq(Bytes) /\ Len(<<45>>) = 1 /\ <<45>>[1] = 45
        BY <3>2, ListOf
      <4> QED BY <4>1
    <3>4. LiesAt(s \o e, t, p)
      BY <3>1, <3>3 DEF DigitsLie
    <3>5. LiesAt(s, t, p) /\ LiesAt(e, t, p + Len(s))
      BY <1>5, <3>4, LiesBoth
    <3>6. At(t, p) = 45
      <4>1. 1 \in 1 .. Len(s) /\ p + 1 - 1 = p
        BY <3>3 DEF Places
      <4>2. At(t, p + 1 - 1) = s[1]
        BY <3>5, <4>1 DEF LiesAt
      <4> QED BY <3>3, <4>1, <4>2
    <3>7. Len(s \o e) = 1 + Len(e)
      BY <1>5, <3>3, ConcatOf
    <3>8. x = p + (1 + Len(e)) /\ At(t, x) = 125
      BY <3>1, <3>3, <3>7 DEF DigitsLie
    <3>9. x = a + Len(e)
      BY <1>5, <1>6, <2>2, <3>8 DEF Places
    <3> QED BY <1>6, <2>2, <3>3, <3>5, <3>6, <3>8, <3>9 DEF NumberFrom, DigitsLie
  <2> QED BY <2>1, <2>2
<1>8. ScanNumber(t, p) = NumberToken(a # p, FALSE, m, x) /\ At(t, p) \in 45 .. 57
  BY <1>1, <1>4, <1>7, DigitsRead
<1>9. (a # p) = minus
  BY <1>6 DEF Places
<1>10. NumberIs(ScanNumber(t, p), n, x)
  BY <1>2, <1>3, <1>8, <1>9, NumberFits
<1>11. PICK c \in 45 .. 57 : c = At(t, p)
  BY <1>8
<1>12. c \in Digit \cup {Minus}
  <2>1. c # 46 /\ c # 47
    <3>1. a = p => c \in 48 .. 57
      <4> SUFFICES ASSUME a = p PROVE c \in 48 .. 57
        OBVIOUS
      <4>1. e[1] \in 48 .. 57 /\ 1 \in 1 .. Len(e)
        BY <1>1, <1>4, <1>5, DigitsRun DEF RunOf
      <4>2. At(t, p + 1 - 1) = e[1] /\ p + 1 - 1 = p
        BY <1>7, <4>1 DEF DigitsLie, LiesAt, Places
      <4> QED BY <1>11, <4>1, <4>2
    <3>2. a # p => c = 45
      BY <1>7, <1>11 DEF NumberFrom
    <3> QED BY <3>1, <3>2
  <2> QED BY <2>1 DEF Digit, Minus
<1>13. c \notin Space /\ c # 239 /\ c \notin {116, 102, 110} /\ c # Quote
  BY SMTT(60) DEF Space, Quote
<1>14. \A s \in Structure : s[1] # c
  <2>1. c # 44
    OBVIOUS
  <2> QED BY <2>1, SMTT(60) DEF Structure
<1>15. \A w \in Literals : ~IsLiteral(t, p, w[1])
  BY <1>11, <1>13, NoLiteralHere
<1>16. Scan(t, p) = TokenAt(t, p)
  BY <1>11, <1>13, ScansHere
<1>17. TokenAt(t, p) = ScanNumber(t, p)
  BY <1>11, <1>12, <1>13, <1>14, <1>15 DEF TokenAt
<1>18. x \in Places
  <2>1. x = a + Len(e)
    BY <1>7 DEF DigitsLie
  <2> QED BY <1>5, <2>1 DEF Places
<1> QED BY <1>10, <1>16, <1>17, <1>18

\* The tokens of an array of strings, from p to x.
ListScans(t, list, p, x, beg, fin, fill) ==
  /\ Scan(t, p) = Token("begin_array", p + 1)
  /\ beg \in [Nat -> Places] /\ fin \in [Nat -> Places]
  /\ \A k \in 1 .. Len(list) : Scan(t, beg[k]) = StringToken(Repaired(list[k], fill), fin[k])
  /\ Len(list) = 0 => Scan(t, p + 1) = Token("end_array", x)
  /\ Len(list) > 0 => beg[1] = p + 1 /\ Scan(t, fin[Len(list)]) = Token("end_array", x)
  /\ \A k \in 1 .. Len(list) - 1 : Scan(t, fin[k]) = Token("value_separator", beg[k + 1])

\* The tokens of a value.
ValueScans(t, kind, v, p, x, fill) ==
  /\ p \in Places /\ x \in Places
  /\ kind = "string" => Scan(t, p) = StringToken(Repaired(v.text, fill), x)
  /\ kind = "int" => NumberIs(Scan(t, p), v.num, x)
  /\ kind = "list" => \E beg : \E fin : ListScans(t, v.list, p, x, beg, fin, fill)

\* What dump writes of a list scans as the list.
LEMMA ListSpelled ==
  ASSUME NEW t \in Seq(Bytes), NEW list \in Seq(Seq(Bytes)), NEW p \in Places, NEW x, NEW fill,
         NEW q, Joined(q, Raw(<< 91 >>), Listed([k \in DOMAIN list |-> Quoted(list[k])]),
           Raw(<< 93 >>)),
         Spells(t, p, x, q, fill)
  PROVE  x \in Places /\ \E beg : \E fin : ListScans(t, list, p, x, beg, fin, fill)
<1>1. PICK n \in Nat : n = Len(list) /\ DOMAIN list = 1 .. n
  OBVIOUS
<1>2. PICK parts : parts = [k \in DOMAIN list |-> Quoted(list[k])]
  OBVIOUS
<1>3. \A k \in 1 .. n : parts[k] = Quoted(list[k]) /\ list[k] \in Seq(Bytes)
  BY <1>1, <1>2
<1>4. parts \in Seq(Seq(Piece)) /\ Len(parts) = n
  <2>1. \A k \in 1 .. n : parts[k] \in Seq(Piece)
    BY <1>3, QuotedPieces
  <2>2. DOMAIN parts = 1 .. n /\ parts = [k \in 1 .. n |-> parts[k]]
    BY <1>1, <1>2
  <2>3. parts \in [1 .. n -> Seq(Piece)]
    BY <2>1, <2>2
  <2>4. PICK S : S = Seq(Piece)
    OBVIOUS
  <2>5. parts \in [1 .. n -> S]
    BY <2>3, <2>4
  <2>6. parts \in Seq(S) /\ Len(parts) = n
    BY <2>5
  <2> QED BY <2>4, <2>6
<1>5. PICK a, b, c : a = Raw(<<91>>) /\ b = Listed(parts) /\ c = Raw(<<93>>)
  OBVIOUS
<1>6. a \in Seq(Piece) /\ b \in Seq(Piece) /\ c \in Seq(Piece)
  <2>1. <<91>> \in Seq(Bytes) /\ <<93>> \in Seq(Bytes)
    BY DEF Bytes
  <2> QED BY <1>4, <1>5, <2>1, RawPiece, ListedPieces
<1>7. Joined(q, a, b, c)
  BY <1>2, <1>5
<1>8. PICK y \in Places : \E z \in Places :
        Spells(t, p, y, a, fill) /\ Spells(t, y, z, b, fill) /\ Spells(t, z, x, c, fill)
  BY <1>6, <1>7, SpellsThree
<1>9. PICK z \in Places :
        Spells(t, p, y, a, fill) /\ Spells(t, y, z, b, fill) /\ Spells(t, z, x, c, fill)
  BY <1>8
<1>10. At(t, p) = 91 /\ y = p + 1
  BY <1>5, <1>9, SpellsByte
<1>11. At(t, z) = 93 /\ x = z + 1
  BY <1>5, <1>9, SpellsByte
<1>12. PICK beg, fin : SpellsList(t, y, z, parts, n, beg, fin, fill)
  BY <1>4, <1>5, <1>9, SpellsListed
<1>13. Scan(t, p) = Token("begin_array", p + 1) /\ Scan(t, z) = Token("end_array", x)
  BY <1>10, <1>11, StructuresScanned DEF StructureToken
<1>14. beg \in [Nat -> Places] /\ fin \in [Nat -> Places]
  BY <1>12 DEF SpellsList
<1>15. ASSUME NEW k \in 1 .. n
       PROVE  Scan(t, beg[k]) = StringToken(Repaired(list[k], fill), fin[k])
  <2>1. Spells(t, beg[k], fin[k], Quoted(list[k]), fill)
    <3>1. Spells(t, beg[k], fin[k], parts[k], fill)
      BY <1>12 DEF SpellsList
    <3> QED BY <1>3, <3>1
  <2>2. PICK s \in Seq(Bytes) : s = list[k]
    BY <1>3
  <2>3. Quotes(t, beg[k], fin[k], Repaired(s, fill))
    BY <2>1, <2>2, SpellsQuoted
  <2> QED BY <2>2, <2>3, QuotesScanned
<1>16. ASSUME NEW k \in 1 .. n - 1 PROVE Scan(t, fin[k]) = Token("value_separator", beg[k + 1])
  <2>1. At(t, fin[k]) = 44 /\ beg[k + 1] = fin[k] + 1
    BY <1>12 DEF SpellsList
  <2>2. fin[k] \in Places
    BY <1>14
  <2> QED BY <2>1, <2>2, StructuresScanned DEF StructureToken
<1>17. n = 0 => Scan(t, p + 1) = Token("end_array", x)
  BY <1>10, <1>12, <1>13 DEF SpellsList
<1>18. n > 0 => beg[1] = p + 1 /\ Scan(t, fin[n]) = Token("end_array", x)
  BY <1>10, <1>12, <1>13 DEF SpellsList
<1>19. x \in Places
  BY <1>11 DEF Places
<1>20. ListScans(t, list, p, x, beg, fin, fill)
  BY <1>1, <1>13, <1>14, <1>15, <1>16, <1>17, <1>18 DEF ListScans
<1> QED BY <1>19, <1>20

\* What dump writes for a value is read back, with its strings repaired.
LEMMA ValueSpelled ==
  ASSUME NEW t \in Seq(Bytes), NEW kind \in {"string", "int", "list"}, NEW v, IsValueOf(kind, v),
         Storable(v.num), NEW p \in Places, NEW x, NEW fill,
         Spells(t, p, x, DumpValue(kind, v), fill), kind = "int" => At(t, x) = 125
  PROVE  ValueScans(t, kind, v, p, x, fill)
<1>1. v.text \in Seq(Bytes) /\ v.num \in Int /\ v.list \in Seq(Seq(Bytes))
  BY DEF IsValueOf
<1>2. CASE kind = "string"
  <2>1. PICK s \in Seq(Bytes) : s = v.text
    BY <1>1
  <2>2. DumpValue(kind, v) = Quoted(s)
    BY <1>2, <2>1 DEF DumpValue
  <2>3. Quotes(t, p, x, Repaired(s, fill))
    BY <2>2, SpellsQuoted
  <2>4. Scan(t, p) = StringToken(Repaired(s, fill), x) /\ x \in Places
    BY <2>3, QuotesScanned
  <2> QED BY <1>2, <2>1, <2>4 DEF ValueScans
<1>3. CASE kind = "int"
  <2>1. PICK n \in Int : n = v.num /\ Storable(n)
    BY <1>1
  <2>2. DumpValue(kind, v) = Raw(Digits(n))
    BY <1>3, <2>1 DEF DumpValue
  <2>3. LiesAt(Digits(n), t, p) /\ x = p + Len(Digits(n))
    BY <2>2, SpellsRaw
  <2>4. DigitsLie(t, Digits(n), p, x)
    BY <1>3, <2>3 DEF DigitsLie
  <2>5. NumberIs(Scan(t, p), n, x) /\ x \in Places
    BY <2>1, <2>4, DigitsScanned
  <2> QED BY <1>3, <2>1, <2>5 DEF ValueScans
<1>4. CASE kind = "list"
  <2>1. PICK list \in Seq(Seq(Bytes)) : list = v.list
    BY <1>1
  <2>2. PICK q : q = DumpValue(kind, v)
    OBVIOUS
  <2>3. Joined(q, Raw(<<91>>), Listed([k \in DOMAIN list |-> Quoted(list[k])]), Raw(<<93>>))
    <3>1. PICK a, b, c : a = Raw(<<91>>) /\ c = Raw(<<93>>)
            /\ b = Listed([k \in DOMAIN list |-> Quoted(list[k])])
      OBVIOUS
    <3>2. q = (a \o b) \o c \/ q = a \o (b \o c)
      BY <1>4, <2>1, <2>2, <3>1 DEF DumpValue
    <3> QED BY <3>1, <3>2 DEF Joined
  <2>4. x \in Places /\ \E beg : \E fin : ListScans(t, list, p, x, beg, fin, fill)
    BY <2>2, <2>3, ListSpelled
  <2> QED BY <1>4, <2>1, <2>4 DEF ValueScans
<1> QED BY <1>2, <1>3, <1>4

\* The tokens of a member: its key, a colon and, from y on, its value.
MemberScans(t, member, v, p, y, x, fill) ==
  /\ \E q \in Places : /\ Scan(t, p) = StringToken(member.key, q)
                       /\ Scan(t, q) = Token("name_separator", y)
  /\ ValueScans(t, member.kind, v, y, x, fill)

IsMember(member, b, kind) == member = [key |-> <<b>>, kind |-> kind]
Closed(t, kind, x)        == kind = "int" => At(t, x) = 125

\* What it writes of a member scans as its key and its value.
LEMMA MemberSpelled ==
  ASSUME NEW t \in Seq(Bytes), NEW b \in 0 .. 127, NEW kind \in {"string", "int", "list"},
         NEW member, IsMember(member, b, kind), NEW v, IsValueOf(kind, v),
         Storable(v.num), NEW p \in Places, NEW x, NEW fill \in Seq(Bytes),
         Spells(t, p, x, DumpMember(member, v), fill), Closed(t, kind, x)
  PROVE  \E y : MemberScans(t, member, v, p, y, x, fill)
<1>0. member = [key |-> <<b>>, kind |-> kind] /\ (kind = "int" => At(t, x) = 125)
  BY DEF IsMember, Closed
<1>1. PICK s, r, d : s = Quoted(<<b>>) /\ r = Raw(<<58>>) /\ d = DumpValue(kind, v)
  OBVIOUS
<1>2. PICK q : q = DumpMember(member, v)
  OBVIOUS
<1>3. Joined(q, s, r, d)
  BY <1>0, <1>1, <1>2 DEF DumpMember, Joined
<1>4. PICK key \in Seq(Bytes) : key = <<b>>
  <2>1. b \in Bytes
    BY SMTT(60) DEF Bytes
  <2>2. <<b>> \in Seq(Bytes)
    BY <2>1
  <2> QED BY <2>2
<1>5. s \in Seq(Piece) /\ r \in Seq(Piece) /\ d \in Seq(Piece)
  <2>1. <<58>> \in Seq(Bytes)
    BY DEF Bytes
  <2>2. s \in Seq(Piece)
    BY <1>1, <1>4, QuotedPieces
  <2> QED BY <1>1, <2>1, <2>2, RawPiece, ValuePieces
<1>6. PICK z \in Places : \E y \in Places :
        Spells(t, p, z, s, fill) /\ Spells(t, z, y, r, fill) /\ Spells(t, y, x, d, fill)
  BY <1>2, <1>3, <1>5, SpellsThree
<1>7. PICK y \in Places :
        Spells(t, p, z, s, fill) /\ Spells(t, z, y, r, fill) /\ Spells(t, y, x, d, fill)
  BY <1>6
<1>8. Scan(t, p) = StringToken(key, z)
  <2>1. Quotes(t, p, z, Repaired(key, fill))
    BY <1>1, <1>4, <1>7, SpellsQuoted
  <2>2. Repaired(key, fill) = key
    BY <1>4, KeyKept
  <2> QED BY <2>1, <2>2, QuotesScanned
<1>9. Scan(t, z) = Token("name_separator", y)
  <2>1. At(t, z) = 58 /\ y = z + 1
    BY <1>1, <1>7, SpellsByte
  <2> QED BY <2>1, StructuresScanned DEF StructureToken
<1>10. ValueScans(t, kind, v, y, x, fill)
  BY <1>0, <1>1, <1>7, ValueSpelled
<1>11. member.key = key /\ member.kind = kind
  BY <1>0, <1>4
<1>12. MemberScans(t, member, v, p, y, x, fill)
  BY <1>8, <1>9, <1>10, <1>11 DEF MemberScans
<1> QED BY <1>12

\* The members of a message that is no request: a number is the last of them, a
\* list the only one, and no two have the same name.
MembersFit(ms) ==
  /\ Len(ms) \in Nat \ {0} /\ DOMAIN ms = 1 .. Len(ms)
  /\ \A k \in 1 .. Len(ms) : \E b \in 0 .. 127 : \E kind \in {"string", "int", "list"} :
       ms[k] = [key |-> <<b>>, kind |-> kind]
  /\ \A k \in 1 .. Len(ms) : ms[k].kind = "int" => k = Len(ms)
  /\ \A k \in 1 .. Len(ms) : ms[k].kind = "list" => Len(ms) = 1
  /\ \A j \in 1 .. Len(ms) : \A k \in 1 .. Len(ms) : ms[j].key = ms[k].key => j = k

\* The values of a message are of the kinds that its members have.
LEMMA OneMemberFits ==
  ASSUME NEW b \in 0 .. 127, NEW kind \in {"string", "list"}
  PROVE  MembersFit(<<Member(b, kind)>>)
<1>1. PICK ms : ms = <<Member(b, kind)>>
  OBVIOUS
<1>2. Len(ms) = 1 /\ DOMAIN ms = {1} /\ 1 .. 1 = {1} /\ ms[1] = [key |-> <<b>>, kind |-> kind]
  BY <1>1 DEF Member
<1>3. MembersFit(ms)
  BY <1>2 DEF MembersFit
<1> QED BY <1>1, <1>3

LEMMA TwoMembersFit ==
  ASSUME NEW a \in 0 .. 127, NEW b \in 0 .. 127, a # b
  PROVE  MembersFit(<<Member(a, "string"), Member(b, "string")>>)
<1>1. PICK ms : ms = <<Member(a, "string"), Member(b, "string")>>
  OBVIOUS
<1>2. /\ Len(ms) = 2 /\ DOMAIN ms = {1, 2} /\ 1 .. 2 = {1, 2}
      /\ ms[1] = [key |-> <<a>>, kind |-> "string"] /\ ms[2] = [key |-> <<b>>, kind |-> "string"]
  BY <1>1 DEF Member
<1>3. <<a>> # <<b>>
  OBVIOUS
<1>4. MembersFit(ms)
  BY <1>2, <1>3 DEF MembersFit
<1> QED BY <1>1, <1>4

LEMMA ThreeMembersFit ==
  ASSUME NEW a \in 0 .. 127, NEW b \in 0 .. 127, NEW c \in 0 .. 127, a # b, a # c, b # c
  PROVE  MembersFit(<<Member(a, "string"), Member(b, "string"), Member(c, "int")>>)
<1>1. PICK ms : ms = <<Member(a, "string"), Member(b, "string"), Member(c, "int")>>
  OBVIOUS
<1>2. /\ Len(ms) = 3 /\ DOMAIN ms = {1, 2, 3} /\ 1 .. 3 = {1, 2, 3}
      /\ ms[1] = [key |-> <<a>>, kind |-> "string"] /\ ms[2] = [key |-> <<b>>, kind |-> "string"]
      /\ ms[3] = [key |-> <<c>>, kind |-> "int"]
  BY <1>1 DEF Member
<1>3. <<a>> # <<b>> /\ <<a>> # <<c>> /\ <<b>> # <<c>>
  OBVIOUS
<1>4. MembersFit(ms)
  BY <1>2, <1>3, SMTT(30) DEF MembersFit
<1> QED BY <1>1, <1>4

\* So it is for every type of message.
LEMMA MembersAllFit ==
  ASSUME NEW type \in MessageTypes, type \notin Requests
  PROVE  MembersFit(Members(type))
<1>2. 112 \in 0 .. 127 /\ 117 \in 0 .. 127 /\ 114 \in 0 .. 127 /\ 99 \in 0 .. 127
      /\ 116 \in 0 .. 127 /\ 115 \in 0 .. 127
  OBVIOUS
<1>3. /\ 112 # 117 /\ 99 # 114 /\ 99 # 116 /\ 114 # 116 /\ 99 # 115
  OBVIOUS
<1>5. /\ MembersFit(<<Member(112, "string"), Member(117, "string")>>)
      /\ MembersFit(<<Member(114, "string")>>)
      /\ MembersFit(<<Member(99, "string"), Member(114, "string"), Member(116, "int")>>)
      /\ MembersFit(<<Member(99, "string"), Member(115, "string")>>)
      /\ MembersFit(<<Member(117, "list")>>) /\ MembersFit(<<Member(114, "list")>>)
  <2>1. MembersFit(<<Member(112, "string"), Member(117, "string")>>)
    BY <1>2, <1>3, TwoMembersFit, ZenonT(30)
  <2>2. MembersFit(<<Member(114, "string")>>)
    BY <1>2, OneMemberFits, ZenonT(30)
  <2>3. MembersFit(<<Member(99, "string"), Member(114, "string"), Member(116, "int")>>)
    BY <1>2, <1>3, ThreeMembersFit, ZenonT(30)
  <2>4. MembersFit(<<Member(99, "string"), Member(115, "string")>>)
    BY <1>2, <1>3, TwoMembersFit, ZenonT(30)
  <2>5. MembersFit(<<Member(117, "list")>>) /\ MembersFit(<<Member(114, "list")>>)
    BY <1>2, OneMemberFits, ZenonT(30)
  <2> QED BY <2>1, <2>2, <2>3, <2>4, <2>5, Zenon
<1>6. \/ Members(type) = <<Member(112, "string"), Member(117, "string")>>
      \/ Members(type) = <<Member(114, "string")>>
      \/ Members(type) = <<Member(99, "string"), Member(114, "string"), Member(116, "int")>>
      \/ Members(type) = <<Member(99, "string"), Member(115, "string")>>
      \/ Members(type) = <<Member(117, "list")>> \/ Members(type) = <<Member(114, "list")>>
  BY SMTT(60) DEF MessageTypes, ServerHandles, ClientHandles, Requests, Members, RoomName
<1> QED BY <1>5, <1>6, ZenonT(60)

-----------------------------------------------------------------------------
(* The text of a message. *)

\* The tokens of an object with the members ms.
MessageScans(t, ms, vs, beg, val, fin, fill) ==
  /\ beg \in [Nat -> Places] /\ val \in [Nat -> Places] /\ fin \in [Nat -> Places]
  /\ Scan(t, 1) = Token("begin_object", beg[1])
  /\ \A k \in 1 .. Len(ms) : MemberScans(t, ms[k], vs[k], beg[k], val[k], fin[k], fill)
  /\ \A k \in 1 .. Len(ms) - 1 : Scan(t, fin[k]) = Token("value_separator", beg[k + 1])
  /\ \E e : Scan(t, fin[Len(ms)]) = Token("end_object", e) /\ Scan(t, e).type = "end_of_input"

Valid(ms, vs) ==
  \A k \in 1 .. Len(ms) : IsValueOf(ms[k].kind, vs[k]) /\ Storable(vs[k].num)

\* What dump writes of an object scans as its members.
LEMMA ObjectSpelled ==
  ASSUME NEW t \in Seq(Bytes), NEW ms, MembersFit(ms), NEW vs, Valid(ms, vs),
         NEW fill \in Seq(Bytes),
         NEW q, Joined(q, Raw(<< 123 >>), Listed([k \in DOMAIN ms |-> DumpMember(ms[k], vs[k])]),
                       Raw(<< 125 >>)),
         Spells(t, 1, Len(t) + 1, q, fill)
  PROVE  \E beg : \E val : \E fin : MessageScans(t, ms, vs, beg, val, fin, fill)
<1>1. PICK n \in Nat \ {0} : n = Len(ms) /\ DOMAIN ms = 1 .. n
  BY DEF MembersFit
<1>2. PICK parts : parts = [k \in DOMAIN ms |-> DumpMember(ms[k], vs[k])]
  OBVIOUS
<1>3. \A k \in 1 .. n : parts[k] = DumpMember(ms[k], vs[k])
  BY <1>1, <1>2
<1>4. ASSUME NEW k \in 1 .. n
      PROVE  \E b \in 0 .. 127 : \E kind \in {"string", "int", "list"} :
               ms[k] = [key |-> <<b>>, kind |-> kind]
  BY <1>1 DEF MembersFit
<1>5. ASSUME NEW k \in 1 .. n PROVE IsValueOf(ms[k].kind, vs[k]) /\ Storable(vs[k].num)
  BY <1>1 DEF Valid
<1>6. parts \in Seq(Seq(Piece)) /\ Len(parts) = n
  <2>1. ASSUME NEW k \in 1 .. n PROVE parts[k] \in Seq(Piece)
    <3>1. PICK b \in 0 .. 127 : \E kind \in {"string", "int", "list"} :
            ms[k] = [key |-> <<b>>, kind |-> kind]
      BY <1>4
    <3>2. PICK kind \in {"string", "int", "list"} : ms[k] = [key |-> <<b>>, kind |-> kind]
      BY <3>1
    <3>3. ms[k].kind = kind
      BY <3>2
    <3>4. PICK member, v : member = ms[k] /\ v = vs[k]
      OBVIOUS
    <3>5. member = [key |-> <<b>>, kind |-> kind] /\ IsValueOf(kind, v)
      BY <1>5, <3>2, <3>3, <3>4
    <3>6. DumpMember(member, v) \in Seq(Piece)
      BY <3>5, MemberPieces, ZenonT(60)
    <3> QED BY <1>3, <3>4, <3>6
  <2>2. DOMAIN parts = 1 .. n /\ parts = [k \in 1 .. n |-> parts[k]]
    BY <1>1, <1>2
  <2>4. PICK S : S = Seq(Piece)
    OBVIOUS
  <2>5. parts \in [1 .. n -> S]
    BY <2>1, <2>2, <2>4
  <2>6. parts \in Seq(S) /\ Len(parts) = n
    BY <2>5
  <2> QED BY <2>4, <2>6
<1>7. PICK a, b, c : a = Raw(<<123>>) /\ b = Listed(parts) /\ c = Raw(<<125>>)
  OBVIOUS
<1>8. a \in Seq(Piece) /\ b \in Seq(Piece) /\ c \in Seq(Piece)
  <2>1. <<123>> \in Seq(Bytes) /\ <<125>> \in Seq(Bytes)
    BY DEF Bytes
  <2> QED BY <1>6, <1>7, <2>1, RawPiece, ListedPieces
<1>9. Joined(q, a, b, c)
  BY <1>2, <1>7
<1>10. PICK l \in Nat : l = Len(t)
  OBVIOUS
<1>11. PICK y \in Places : \E z \in Places :
        Spells(t, 1, y, a, fill) /\ Spells(t, y, z, b, fill) /\ Spells(t, z, l + 1, c, fill)
  BY <1>8, <1>9, <1>10, SpellsThree
<1>12. PICK z \in Places :
        Spells(t, 1, y, a, fill) /\ Spells(t, y, z, b, fill) /\ Spells(t, z, l + 1, c, fill)
  BY <1>11
<1>13. At(t, 1) = 123 /\ y = 1 + 1 /\ 1 \in Places
  BY <1>7, <1>12, SpellsByte
<1>14. At(t, z) = 125 /\ l + 1 = z + 1
  BY <1>7, <1>12, SpellsByte
<1>15. PICK beg, fin : SpellsList(t, y, z, parts, n, beg, fin, fill)
  BY <1>6, <1>7, <1>12, SpellsListed
<1>16. beg \in [Nat -> Places] /\ fin \in [Nat -> Places] /\ beg[1] = y /\ fin[n] = z
  BY <1>15 DEF SpellsList
<1>17. Scan(t, 1) = Token("begin_object", beg[1]) /\ Scan(t, fin[n]) = Token("end_object", z + 1)
  BY <1>13, <1>14, <1>16, StructuresScanned DEF StructureToken
<1>18. Scan(t, z + 1).type = "end_of_input"
  <2>1. z + 1 \in Places /\ z + 1 > Len(t)
    BY <1>10, <1>14 DEF Places
  <2> QED BY <1>10, <2>1, ScanBehind
<1>19. ASSUME NEW k \in 1 .. n - 1 PROVE Scan(t, fin[k]) = Token("value_separator", beg[k + 1])
  <2>1. At(t, fin[k]) = 44 /\ beg[k + 1] = fin[k] + 1
    BY <1>15 DEF SpellsList
  <2>2. fin[k] \in Places
    BY <1>16
  <2> QED BY <2>1, <2>2, StructuresScanned DEF StructureToken
<1>20. ASSUME NEW k \in 1 .. n
       PROVE  \E v \in Places : MemberScans(t, ms[k], vs[k], beg[k], v, fin[k], fill)
  <2>1. PICK x \in 0 .. 127 : \E kind \in {"string", "int", "list"} :
          ms[k] = [key |-> <<x>>, kind |-> kind]
    BY <1>4
  <2>2. PICK kind \in {"string", "int", "list"} : ms[k] = [key |-> <<x>>, kind |-> kind]
    BY <2>1
  <2>3. ms[k].kind = kind
    BY <2>2
  <2>4. PICK member, v : member = ms[k] /\ v = vs[k]
    OBVIOUS
  <2>5. member = [key |-> <<x>>, kind |-> kind] /\ IsValueOf(kind, v) /\ Storable(v.num)
    BY <1>5, <2>2, <2>3, <2>4
  <2>6. PICK p \in Places : p = beg[k]
    BY <1>16
  <2>7. PICK e \in Places : e = fin[k]
    BY <1>16
  <2>8. Spells(t, p, e, DumpMember(member, v), fill)
    <3>1. Spells(t, beg[k], fin[k], parts[k], fill)
      BY <1>15 DEF SpellsList
    <3> QED BY <1>3, <2>4, <2>6, <2>7, <3>1
  <2>9. kind = "int" => At(t, e) = 125
    <3>1. kind = "int" => k = n
      BY <1>1, <2>3 DEF MembersFit
    <3> QED BY <1>14, <1>16, <2>7, <3>1
  <2>10. PICK w : MemberScans(t, member, v, p, w, e, fill)
    <3>1. IsMember(member, x, kind) /\ Closed(t, kind, e)
      BY <2>5, <2>9 DEF IsMember, Closed
    <3> QED BY <2>5, <2>8, <3>1, MemberSpelled
  <2>11. w \in Places
    BY <2>10 DEF MemberScans, ValueScans
  <2> QED BY <2>4, <2>6, <2>7, <2>10, <2>11
<1>21. PICK val : val = [k \in Nat |-> IF k \in 1 .. n
                          THEN CHOOSE v \in Places : MemberScans(t, ms[k], vs[k], beg[k], v,
                            fin[k], fill)
                          ELSE 1]
  OBVIOUS
<1>22. ASSUME NEW k \in 1 .. n
       PROVE  val[k] \in Places /\ MemberScans(t, ms[k], vs[k], beg[k], val[k], fin[k], fill)
  <2>1. k \in Nat
    OBVIOUS
  <2>2. val[k] = CHOOSE v \in Places : MemberScans(t, ms[k], vs[k], beg[k], v, fin[k], fill)
    BY <1>21, <2>1
  <2> QED BY <1>20, <2>2
<1>23. val \in [Nat -> Places]
  <2>1. ASSUME NEW k \in Nat PROVE val[k] \in Places
    <3>1. CASE k \in 1 .. n
      BY <1>22, <3>1
    <3>2. CASE k \notin 1 .. n
      BY <1>13, <1>21, <3>2
    <3> QED BY <3>1, <3>2
  <2>2. val = [k \in Nat |-> val[k]]
    BY <1>21
  <2> QED BY <2>1, <2>2
<1>24. MessageScans(t, ms, vs, beg, val, fin, fill)
  <2>1. n = Len(ms)
    BY <1>1
  <2> QED BY <2>1, <1>16, <1>17, <1>18, <1>19, <1>22, <1>23 DEF MessageScans
<1> QED BY <1>24

\* The tokens of the text of a message.
TextOf(t, m, fill) ==
  IF m.type \in Requests
  THEN \E e : Scan(t, 1) = StringToken(<<>>, e) /\ Scan(t, e).type = "end_of_input"
  ELSE \E beg : \E val : \E fin : MessageScans(t, Members(m.type), m.values, beg, val, fin, fill)

\* A message whose integers have 64 bits.
CanBeSent(m) == IsMessage(m) /\ \A k \in DOMAIN m.values : Storable(m.values[k].num)

\* The tokens of the text of a message are those of the message.
LEMMA MessageSpelled ==
  ASSUME NEW t \in Seq(Bytes), NEW m, CanBeSent(m), NEW fill \in Seq(Bytes),
         SpelledTo(t, Dump(m), Len(Dump(m)), fill)
  PROVE  TextOf(t, m, fill)
<1>0. PICK l \in Nat : l = Len(t)
  OBVIOUS
<1>1. PICK q : q = Dump(m)
  OBVIOUS
<1>2. Spells(t, 1, l + 1, q, fill)
  BY <1>0, <1>1 DEF SpelledTo, Spells
<1>3. CASE m.type \in Requests
  <2>1. q = Quoted(<<>>)
    BY <1>1, <1>3 DEF Dump
  <2>2. PICK s \in Seq(Bytes) : s = <<>>
    <3>1. <<>> \in Seq(Bytes)
      OBVIOUS
    <3> QED BY <3>1
  <2>3. Quotes(t, 1, l + 1, Repaired(s, fill))
    BY <1>2, <2>1, <2>2, SpellsQuoted
  <2>4. Scan(t, 1) = StringToken(<<>>, l + 1)
    BY <2>2, <2>3, NothingKept, QuotesScanned
  <2>5. Scan(t, l + 1).type = "end_of_input"
    <3>1. l + 1 \in Places /\ l + 1 > Len(t)
      BY <1>0 DEF Places
    <3> QED BY <1>0, <3>1, ScanBehind
  <2> QED BY <1>3, <2>4, <2>5 DEF TextOf
<1>4. CASE m.type \notin Requests
  <2>1. PICK ms, vs : ms = Members(m.type) /\ vs = m.values
    OBVIOUS
  <2>2. /\ m.type \in MessageTypes /\ DOMAIN vs = DOMAIN ms
        /\ \A k \in DOMAIN vs : IsValueOf(ms[k].kind, vs[k])
        /\ \A k \in DOMAIN vs : Storable(vs[k].num)
    BY <2>1 DEF CanBeSent, IsMessage
  <2>3. MembersFit(ms)
    BY <1>4, <2>1, <2>2, MembersAllFit
  <2>4. DOMAIN ms = 1 .. Len(ms)
    BY <2>3 DEF MembersFit
  <2>5. Valid(ms, vs)
    BY <2>2, <2>4 DEF Valid
  <2>6. PICK a, b, c : a = Raw(<<123>>) /\ c = Raw(<<125>>)
          /\ b = Listed([k \in DOMAIN ms |-> DumpMember(ms[k], vs[k])])
    OBVIOUS
  <2>7. q = (a \o b) \o c \/ q = a \o (b \o c)
    BY <1>1, <1>4, <2>1, <2>6 DEF Dump
  <2>8. Joined(q, a, b, c)
    BY <2>7 DEF Joined
  <2>9. Joined(q, Raw(<<123>>), Listed([k \in DOMAIN ms |-> DumpMember(ms[k], vs[k])]),
          Raw(<<125>>))
    BY <2>6, <2>8
  <2>10. \E beg : \E val : \E fin : MessageScans(t, ms, vs, beg, val, fin, fill)
    BY <1>0, <1>2, <2>3, <2>5, <2>9, ObjectSpelled
  <2> QED BY <1>4, <2>1, <2>10 DEF TextOf
<1> QED BY <1>3, <1>4

-----------------------------------------------------------------------------
(* What the builder makes of these tokens. *)

\* The stacks of one and of two.
LEMMA SmallStacks ==
  /\ Last(<<1>>) = 1 /\ Front(<<1>>) = <<>> /\ Last(<<1, 2>>) = 2 /\ Front(<<1, 2>>) = <<1>>
  /\ Append(<<>>, 1) = <<1>> /\ Append(<<1>>, 2) = <<1, 2>>
  /\ Last(<<"object">>) = "object" /\ Front(<<"object">>) = <<>>
  /\ Last(<<"object", "array">>) = "array" /\ Front(<<"object", "array">>) = <<"object">>
  /\ Append(<<>>, "object") = <<"object">> /\ Append(<<"object">>, "array") = <<"object", "array">>
  /\ <<1>> # <<>> /\ <<1, 2>> # <<>> /\ <<"object">> # <<>> /\ <<"object", "array">> # <<>>
<1>1. ASSUME NEW S, NEW a \in S, NEW b \in S
      PROVE  /\ Last(<<a>>) = a /\ Last(<<a, b>>) = b
             /\ Append(<<>>, a) = <<a>> /\ Append(<<a>>, b) = <<a, b>>
             /\ <<a>> # <<>> /\ <<a, b>> # <<>>
  <2>1. Len(<<a>>) = 1 /\ Len(<<a, b>>) = 2 /\ <<a>>[1] = a /\ <<a, b>>[2] = b
    OBVIOUS
  <2>2. Last(<<a>>) = a
    BY <2>1 DEF Last
  <2>3. Last(<<a, b>>) = b
    BY <2>1 DEF Last
  <2>4. Append(<<>>, a) = <<a>>
    <3>1. PICK s \in Seq(S) : s = <<>>
      <4>1. <<>> \in Seq(S)
        OBVIOUS
      <4> QED BY <4>1
    <3>2. /\ Append(s, a) \in Seq(S) /\ Len(Append(s, a)) = Len(s) + 1
          /\ Append(s, a)[Len(s) + 1] = a
      OBVIOUS
    <3>3. Len(s) = 0
      BY <3>1
    <3>4. PICK u \in Seq(S) : u = Append(s, a) /\ Len(u) = 1 /\ u[1] = a
      <4>1. Len(s) + 1 = 1
        BY <3>3
      <4> QED BY <3>2, <4>1, Zenon
    <3>5. PICK w \in Seq(S) : w = <<a>> /\ Len(w) = 1 /\ w[1] = a
      <4>1. <<a>> \in Seq(S) /\ Len(<<a>>) = 1 /\ <<a>>[1] = a
        OBVIOUS
      <4> QED BY <4>1
    <3>6. \A k \in 1 .. Len(u) : u[k] = w[k]
      BY <3>4, <3>5
    <3>7. u = w
      BY <3>4, <3>5, <3>6, SeqEqual
    <3> QED BY <3>1, <3>4, <3>5, <3>7
  <2>5. Append(<<a>>, b) = <<a, b>>
    <3>1. PICK s \in Seq(S) : s = <<a>> /\ Len(s) = 1 /\ s[1] = a
      <4>1. <<a>> \in Seq(S) /\ Len(<<a>>) = 1 /\ <<a>>[1] = a
        OBVIOUS
      <4> QED BY <4>1
    <3>2. /\ Append(s, b) \in Seq(S) /\ Len(Append(s, b)) = Len(s) + 1
          /\ Append(s, b)[Len(s) + 1] = b /\ \A k \in 1 .. Len(s) : Append(s, b)[k] = s[k]
      OBVIOUS
    <3>4. PICK u \in Seq(S) : u = Append(s, b) /\ Len(u) = 2 /\ u[1] = a /\ u[2] = b
      <4>1. Len(s) + 1 = 2 /\ 1 \in 1 .. Len(s)
        BY <3>1
      <4>2. Append(s, b)[1] = a
        BY <3>1, <3>2, <4>1, Zenon
      <4> QED BY <3>2, <4>1, <4>2, Zenon
    <3>5. PICK w \in Seq(S) : w = <<a, b>> /\ Len(w) = 2 /\ w[1] = a /\ w[2] = b
      <4>1. <<a, b>> \in Seq(S) /\ Len(<<a, b>>) = 2 /\ <<a, b>>[1] = a /\ <<a, b>>[2] = b
        OBVIOUS
      <4> QED BY <4>1
    <3>6. \A k \in 1 .. Len(u) : u[k] = w[k]
      BY <3>4, <3>5
    <3>7. u = w
      BY <3>4, <3>5, <3>6, SeqEqual
    <3> QED BY <3>1, <3>4, <3>5, <3>7
  <2>6. <<a>> # <<>>
    BY <2>1
  <2>7. <<a, b>> # <<>>
    BY <2>1
  <2> QED BY <2>2, <2>3, <2>4, <2>5, <2>6, <2>7
<1>2. ASSUME NEW S, NEW a \in S, NEW b \in S
      PROVE  Front(<<a>>) = <<>> /\ Front(<<a, b>>) = <<a>>
  <2>1. PICK s \in Seq(S) : s = <<>>
    <3>1. <<>> \in Seq(S)
      OBVIOUS
    <3> QED BY <3>1
  <2>2. PICK u \in Seq(S) : u = <<a>>
    <3>1. <<a>> \in Seq(S)
      OBVIOUS
    <3> QED BY <3>1
  <2>3. Front(Append(s, a)) = s /\ Front(Append(u, b)) = u
    BY FrontOfAppend
  <2> QED BY <1>1, <2>1, <2>2, <2>3
<1>3. 1 \in Nat /\ 2 \in Nat /\ "object" \in {"object", "array"} /\ "array" \in {"object", "array"}
  OBVIOUS
<1> QED BY <1>1, <1>2, <1>3, Zenon

\* The children of a container, and one more.
ItemsAre(v, type, n) == v.type = type /\ IsSeq(v.items) /\ Len(v.items) = n

Replaced(s, n, e, r) ==
  IsSeq(r) /\ Len(r) = Len(s) /\ \A k \in 1 .. Len(s) : r[k] = IF k = n THEN e ELSE s[k]

LEMMA OneReplaced ==
  ASSUME NEW s, IsSeq(s), NEW n \in 1 .. Len(s), NEW e, NEW r, r = [s EXCEPT ![n] = e]
  PROVE  Replaced(s, n, e, r)
<1>1. PICK S : s \in Seq(S)
  BY DEF IsSeq
<1>2. s \in Seq(S \cup {e}) /\ e \in S \cup {e}
  BY <1>1, SeqMonotonic
<1>3. /\ r \in Seq(S \cup {e}) /\ Len(r) = Len(s)
      /\ \A k \in 1 .. Len(s) : r[k] = IF k = n THEN e ELSE s[k]
  BY <1>2, ExceptSeq
<1> QED BY <1>3 DEF Replaced, IsSeq

\* g is h with a child more for the container top, the node v.
Gained(h, g, top, type, n, key, v) ==
  /\ g.ref_stack = h.ref_stack
  /\ Len(g.nodes) = Len(h.nodes) + 1 /\ g.nodes[Len(h.nodes) + 1] = v
  /\ \A k \in 1 .. Len(h.nodes) : k # top => g.nodes[k] = h.nodes[k]
  /\ ItemsAre(g.nodes[top], type, n + 1)
  /\ \A k \in 1 .. n : g.nodes[top].items[k] = h.nodes[top].items[k]
  /\ g.nodes[top].items[n + 1] = Entry(key, Len(h.nodes) + 1)

\* A value is stored behind the others.
LEMMA OneMoreChild ==
  ASSUME NEW h, Tree(h), NEW top, top = Last(h.ref_stack), top \in 1 .. Len(h.nodes), NEW key,
         NEW v,
         NEW type, NEW n \in Nat, ItemsAre(h.nodes[top], type, n),
         NEW g, g = AddChild(h, key, v)
  PROVE  Gained(h, g, top, type, n, key, v)
<1>0. PICK l : l = Len(h.nodes)
  OBVIOUS
<1>1. PICK ns : ns = h.nodes
  OBVIOUS
<1>2. IsSeq(ns) /\ l = Len(ns) /\ l \in Nat /\ top \in 1 .. l
  BY <1>0, <1>1, SeqLength DEF Tree
<1>3. h = [nodes |-> ns, ref_stack |-> h.ref_stack, object_element |-> h.object_element]
  BY <1>1 DEF Tree
<1>4. PICK c : c = ns[top]
  OBVIOUS
<1>5. IsNode(c) /\ ItemsAre(c, type, n)
  BY <1>1, <1>2, <1>4 DEF Tree
<1>6. PICK entry : entry = Entry(key, l + 1)
  OBVIOUS
<1>7. PICK items : items = Append(c.items, entry)
  OBVIOUS
<1>8. /\ IsSeq(items) /\ Len(items) = n + 1 /\ items[n + 1] = entry
      /\ \A k \in 1 .. n : items[k] = c.items[k]
  BY <1>5, <1>7, SeqAppend DEF ItemsAre
<1>9. PICK d : d = [c EXCEPT !.items = items]
  OBVIOUS
<1>10. d.items = items /\ d.type = c.type
  BY <1>5, <1>9 DEF IsNode
<1>11. PICK linked : linked = [ns EXCEPT ![top] = d]
  OBVIOUS
<1>12. /\ IsSeq(linked) /\ Len(linked) = l
       /\ \A k \in 1 .. l : linked[k] = IF k = top THEN d ELSE ns[k]
  <2>1. PICK m \in 1 .. Len(ns) : m = top
    BY <1>2
  <2>2. linked = [ns EXCEPT ![m] = d]
    BY <1>11, <2>1
  <2>3. Replaced(ns, m, d, linked)
    BY <1>2, <2>2, OneReplaced
  <2> QED BY <1>2, <2>1, <2>3 DEF Replaced
<1>14. g = [h EXCEPT !.nodes = Append(linked, v)]
  <2>1. [ns EXCEPT ![top].items = Append(@, entry)] = linked
    BY <1>4, <1>7, <1>9, <1>11
  <2> QED BY <1>0, <1>1, <1>2, <1>6, <2>1 DEF AddChild
<1>15. g.nodes = Append(linked, v) /\ g.ref_stack = h.ref_stack
  BY <1>3, <1>14
<1>16. /\ Len(g.nodes) = l + 1 /\ g.nodes[l + 1] = v
       /\ \A k \in 1 .. l : g.nodes[k] = linked[k]
  BY <1>12, <1>15, SeqAppend
<1>17. g.nodes[top] = d
  BY <1>2, <1>12, <1>16
<1>18. ItemsAre(d, type, n + 1)
  BY <1>5, <1>8, <1>10 DEF ItemsAre
<1> QED BY <1>0, <1>1, <1>4, <1>6, <1>8, <1>10, <1>12, <1>15, <1>16, <1>17, <1>18 DEF Gained

\* The keys of a message differ.
LEMMA MembersApart ==
  ASSUME NEW ms, MembersFit(ms)
  PROVE  /\ Len(ms) \in Nat \ {0}
         /\ \A k \in 1 .. Len(ms) : ms[k].kind \in {"string", "int", "list"}
         /\ \A k \in 1 .. Len(ms) : ms[k].kind = "list" => Len(ms) = 1
         /\ \A j \in 1 .. Len(ms) : \A k \in 1 .. Len(ms) : ms[j].key = ms[k].key => j = k
<1>1. Len(ms) \in Nat \ {0}
  BY Zenon DEF MembersFit
<1>2. ASSUME NEW k \in 1 .. Len(ms)
      PROVE  ms[k].kind \in {"string", "int", "list"}
  <2>1. PICK b \in 0 .. 127 : \E kind \in {"string", "int", "list"} :
          ms[k] = [key |-> <<b>>, kind |-> kind]
    BY Zenon DEF MembersFit
  <2>2. PICK kind \in {"string", "int", "list"} : ms[k] = [key |-> <<b>>, kind |-> kind]
    BY <2>1
  <2>3. PICK key : key = <<b>>
    OBVIOUS
  <2>4. ms[k] = [key |-> key, kind |-> kind]
    BY <2>2, <2>3
  <2> QED BY <2>4
<1>3. \A k \in 1 .. Len(ms) : ms[k].kind = "list" => Len(ms) = 1
  BY Zenon DEF MembersFit
<1>4. \A j \in 1 .. Len(ms) : \A k \in 1 .. Len(ms) : ms[j].key = ms[k].key => j = k
  BY Zenon DEF MembersFit
<1> QED BY <1>1, <1>2, <1>3, <1>4

\* The members of the object that have been named: one for each of the first n.
Named(h, ms, n) ==
  /\ ItemsAre(h.nodes[1], "object", n)
  /\ \A k \in 1 .. n : h.nodes[1].items[k] = Entry(ms[k].key, k + 1)

\* The first n elements of the list, which is the first member's value.
Elements(h, list, n, fill) ==
  /\ ItemsAre(h.nodes[2], "array", n)
  /\ \A k \in 1 .. n : /\ h.nodes[2].items[k].node = k + 2
                       /\ h.nodes[k + 2].type = "string"
                       /\ h.nodes[k + 2].text = Repaired(list[k], fill)

\* What a value is stored as that is no list.
Stores(node, kind, v, fill) ==
  /\ kind = "string" => node.type = "string" /\ node.text = Repaired(v.text, fill)
  /\ kind = "int" => node.type \in {"unsigned", "integer"} /\ node.num = v.num

\* The value at the node k is what was written of v.
Stored(h, k, kind, v, fill) ==
  /\ Stores(h.nodes[k + 1], kind, v, fill)
  /\ kind = "list" => Elements(h, v.list, Len(v.list), fill)

\* n members are named, and the values of the first ones are stored.
Built(h, ms, vs, n, full, fill) ==
  /\ Named(h, ms, n)
  /\ \A k \in 1 .. full : Stored(h, k, ms[k].kind, vs[k], fill)

\* The object is open, with n members.
Opens(h, ms, vs, n, full, fill) ==
  h.ref_stack = <<1>> /\ Len(h.nodes) = n + 1 /\ Built(h, ms, vs, n, full, fill)

\* The object itself,
LEMMA ObjectStarted ==
  ASSUME NEW h, h = [nodes |-> <<NullNode>>, ref_stack |-> <<>>, object_element |-> 0],
         NEW g, g = StartContainer(h, "object"), NEW ms
  PROVE  g.ref_stack = <<1>> /\ Len(g.nodes) = 1 /\ Named(g, ms, 0)
<1>1. PICK v, w : v = Node("object", <<>>, 0) /\ w = NullNode
  OBVIOUS
<1>2. Len(<<w>>) = 1 /\ [<<w>> EXCEPT ![1] = v] = <<v>> /\ <<v>>[1] = v /\ Len(<<v>>) = 1
  OBVIOUS
<1>3. Place(h) = 1
  BY DEF Place
<1>4. h = [nodes |-> <<w>>, ref_stack |-> <<>>, object_element |-> 0]
  BY <1>1
<1>5. HandleValue(h, v) = [h EXCEPT !.nodes[1] = v]
  BY <1>2, <1>3, <1>4 DEF HandleValue
<1>6. PICK f : f = HandleValue(h, v)
  OBVIOUS
<1>7. f = [nodes |-> <<v>>, ref_stack |-> <<>>, object_element |-> 0]
  BY <1>2, <1>4, <1>5, <1>6
<1>8. g = [f EXCEPT !.ref_stack = Append(<<>>, 1)]
  BY <1>1, <1>3, <1>6, <1>7 DEF StartContainer
<1>9. Append(<<>>, 1) = <<1>>
  BY SmallStacks
<1>10. g.nodes = <<v>> /\ g.ref_stack = <<1>>
  BY <1>7, <1>8, <1>9
<1>11. v.type = "object" /\ v.items = <<>>
  BY <1>1 DEF Node
<1>12. ItemsAre(v, "object", 0)
  <2>1. <<>> \in Seq({}) /\ Len(<<>>) = 0
    BY EmptySeq
  <2> QED BY <1>11, <2>1 DEF ItemsAre, IsSeq
<1>13. g.nodes[1] = v
  BY <1>2, <1>10
<1>14. Named(g, ms, 0)
  <2>1. 1 .. 0 = {}
    OBVIOUS
  <2> QED BY <1>12, <1>13, <2>1 DEF Named
<1> QED BY <1>2, <1>10, <1>14

\* Behind n members comes the m-th.
Upcoming(ms, n, m, key) == m \in 1 .. Len(ms) /\ n = m - 1 /\ key = ms[m].key

\* a key,
LEMMA KeyAdded ==
  ASSUME NEW h, Tree(h), NEW ms, MembersFit(ms), NEW vs, NEW m, NEW n, NEW fill,
         Opens(h, ms, vs, n, n, fill), NEW key, Upcoming(ms, n, m, key), NEW g, g = Key(h, key)
  PROVE  g.object_element = m + 1 /\ Opens(g, ms, vs, m, n, fill)
<1>0. /\ m \in 1 .. Len(ms) /\ n = m - 1 /\ key = ms[m].key
      /\ n \in Nat /\ m \in Nat \ {0} /\ n + 1 = m /\ Len(ms) \in Nat /\ m <= Len(ms)
      /\ Len(h.nodes) = m /\ h.ref_stack = <<1>> /\ Built(h, ms, vs, n, n, fill)
  <2>1. Len(ms) \in Nat
    BY MembersApart
  <2>2. n \in Nat /\ m \in Nat \ {0} /\ n + 1 = m /\ Len(ms) \in Nat /\ m <= Len(ms)
    BY <2>1 DEF Upcoming
  <2> QED BY <2>2 DEF Opens, Upcoming
<1>1. PICK top : top = Last(h.ref_stack)
  OBVIOUS
<1>2. top = 1 /\ 1 \in 1 .. Len(h.nodes)
  BY <1>0, <1>1, SmallStacks
<1>4. ItemsAre(h.nodes[1], "object", n) /\ \A k \in 1 .. n : h.nodes[1].items[k]
        = Entry(ms[k].key, k + 1)
  BY <1>0 DEF Built, Named
<1>5. \A k \in 1 .. n : h.nodes[1].items[k].key # key
  <2> SUFFICES ASSUME NEW k \in 1 .. n PROVE h.nodes[1].items[k].key # key
    OBVIOUS
  <2>1. h.nodes[1].items[k].key = ms[k].key
    <3>1. h.nodes[1].items[k] = Entry(ms[k].key, k + 1)
      BY <1>4
    <3> QED BY <3>1 DEF Entry
  <2>2. k \in 1 .. Len(ms) /\ k # m
    BY <1>0
  <2> QED BY <1>0, <2>1, <2>2, MembersApart
<1>6. g = [AddChild(h, key, NullNode) EXCEPT !.object_element = Len(h.nodes) + 1]
  <2>1. Len(h.nodes[1].items) = n
    BY <1>4 DEF ItemsAre
  <2>2. {k \in 1 .. Len(h.nodes[1].items) : h.nodes[1].items[k].key = key} = {}
    BY <1>5, <2>1
  <2> QED BY <1>1, <1>2, <2>2 DEF Key
<1>7. PICK f : f = AddChild(h, key, NullNode)
  OBVIOUS
<1>8. /\ f.ref_stack = h.ref_stack /\ Len(f.nodes) = m + 1
      /\ \A k \in 1 .. m : k # top => f.nodes[k] = h.nodes[k]
      /\ ItemsAre(f.nodes[top], "object", n + 1)
      /\ \A k \in 1 .. n : f.nodes[top].items[k] = h.nodes[top].items[k]
      /\ f.nodes[top].items[n + 1] = Entry(key, m + 1)
  <2>1. ItemsAre(h.nodes[top], "object", n) /\ top \in 1 .. Len(h.nodes)
    BY <1>2, <1>4
  <2>2. Gained(h, f, top, "object", n, key, NullNode)
    BY <1>0, <1>1, <1>7, <2>1, OneMoreChild
  <2> QED BY <1>0, <1>2, <2>2 DEF Gained
<1>9. Tree(f)
  <2>1. IsNode(NullNode) /\ NullNode.items = <<>>
    BY ContainerNode DEF NullNode
  <2> QED BY <1>1, <1>2, <1>7, <2>1, ChildAdded
<1>10. g.nodes = f.nodes /\ g.ref_stack = h.ref_stack /\ g.object_element = m + 1
  <2>1. PICK A, B, C : f = [nodes |-> A, ref_stack |-> B, object_element |-> C]
    BY <1>9 DEF Tree
  <2>2. g = [nodes |-> A, ref_stack |-> B, object_element |-> m + 1]
    BY <1>0, <1>6, <1>7, <2>1
  <2> QED BY <1>8, <2>1, <2>2
<1>11. Named(g, ms, m)
  <2>1. ItemsAre(g.nodes[1], "object", m)
    BY <1>0, <1>2, <1>8, <1>10
  <2>2. ASSUME NEW k \in 1 .. m
        PROVE  g.nodes[1].items[k] = Entry(ms[k].key, k + 1)
    <3>1. CASE k \in 1 .. n
      BY <1>2, <1>4, <1>8, <1>10, <3>1
    <3>2. CASE k = m
      BY <1>0, <1>2, <1>8, <1>10, <3>2
    <3> QED BY <1>0, <3>1, <3>2
  <2> QED BY <2>1, <2>2 DEF Named
<1>12. ASSUME NEW k \in 1 .. n
       PROVE  Stored(g, k, ms[k].kind, vs[k], fill)
  <2>1. k + 1 \in 1 .. m /\ k + 1 # 1 /\ k \in 1 .. Len(ms)
    BY <1>0
  <2>2. g.nodes[k + 1] = h.nodes[k + 1]
    BY <1>2, <1>8, <1>10, <2>1
  <2>3. ms[k].kind # "list"
    <3>1. Len(ms) # 1
      BY <1>0, <2>1
    <3> QED BY <2>1, <3>1, MembersApart
  <2>4. Stored(h, k, ms[k].kind, vs[k], fill)
    BY <1>0 DEF Built
  <2> QED BY <2>2, <2>3, <2>4 DEF Stored
<1>13. g.ref_stack = <<1>> /\ Len(g.nodes) = m + 1
  BY <1>0, <1>8, <1>10
<1> QED BY <1>10, <1>11, <1>12, <1>13 DEF Built, Opens

\* A member gets its value, which is no list.
LEMMA ValueStored ==
  ASSUME NEW h, Tree(h), NEW ms, MembersFit(ms), NEW vs, NEW m \in 1 .. Len(ms), NEW n, n = m - 1,
         NEW fill, h.object_element = m + 1, Opens(h, ms, vs, m, n, fill),
         NEW v, IsNode(v), v.items = <<>>, NEW kind, kind = ms[m].kind, kind # "list",
         NEW w, w = vs[m], Stores(v, kind, w, fill), NEW g, g = HandleValue(h, v)
  PROVE  Opens(g, ms, vs, m, m, fill)
<1>0. /\ m \in Nat \ {0} /\ n \in Nat /\ m = n + 1
      /\ h.ref_stack = <<1>> /\ Len(h.nodes) = m + 1 /\ Built(h, ms, vs, m, n, fill)
  <2>1. Len(ms) \in Nat
    BY MembersApart
  <2>2. m \in Nat \ {0} /\ n \in Nat /\ m = n + 1
    BY <2>1
  <2> QED BY <2>2 DEF Opens
<1>1. Named(h, ms, m) /\ h.nodes[1].type = "object"
  BY <1>0 DEF Built, Named, ItemsAre
<1>2. Place(h) = m + 1
  BY <1>0, <1>1, SmallStacks DEF Place
<1>3. g = [h EXCEPT !.nodes[m + 1] = v]
  BY <1>0, <1>2 DEF HandleValue
<1>4. PICK l \in 1 .. Len(h.nodes) : l = m + 1
  BY <1>0
<1>5. /\ g.ref_stack = h.ref_stack /\ Len(g.nodes) = Len(h.nodes) /\ g.nodes[l] = v
      /\ \A k \in 1 .. Len(h.nodes) \ {l} : g.nodes[k] = h.nodes[k]
  <2>1. g = [h EXCEPT !.nodes[l] = v]
    BY <1>3, <1>4
  <2> QED BY <2>1, NodeReplaced
<1>6. g.nodes[1] = h.nodes[1]
  <2>1. 1 \in 1 .. Len(h.nodes) \ {l}
    BY <1>0, <1>4
  <2> QED BY <1>5, <2>1
<1>7. Named(g, ms, m)
  BY <1>1, <1>6 DEF Named
<1>8. ASSUME NEW k \in 1 .. m
      PROVE  Stored(g, k, ms[k].kind, vs[k], fill)
  <2>1. CASE k = m
    BY <1>4, <1>5, <2>1 DEF Stored
  <2>2. CASE k \in 1 .. n
    <3>1. k + 1 \in 1 .. Len(h.nodes) \ {l} /\ k \in 1 .. Len(ms) /\ Len(ms) # 1
      <4>1. Len(ms) \in Nat
        BY MembersApart
      <4> QED BY <1>0, <1>4, <2>2, <4>1
    <3>2. g.nodes[k + 1] = h.nodes[k + 1]
      BY <1>5, <3>1
    <3>3. ms[k].kind # "list"
      BY <3>1, MembersApart
    <3>4. Stored(h, k, ms[k].kind, vs[k], fill)
      BY <1>0, <2>2 DEF Built
    <3> QED BY <3>2, <3>3, <3>4 DEF Stored
  <2> QED BY <1>0, <2>1, <2>2
<1> QED BY <1>0, <1>5, <1>7, <1>8 DEF Built, Opens

\* The list's array takes the place of the member's null.
LEMMA ListStarted ==
  ASSUME NEW h, Tree(h), h.ref_stack = << 1 >>, h.object_element = 2, Len(h.nodes) = 2,
         NEW ms, Named(h, ms, 1), NEW list, NEW fill, NEW g, g = StartContainer(h, "array")
  PROVE  /\ g.ref_stack = <<1, 2>> /\ Len(g.nodes) = 2
         /\ Named(g, ms, 1) /\ Elements(g, list, 0, fill)
<1>1. PICK v : v = Node("array", <<>>, 0)
  OBVIOUS
<1>2. IsNode(v) /\ v.items = <<>> /\ v.type = "array"
  BY <1>1, ContainerNode DEF Node
<1>3. h.nodes[1].type = "object"
  BY DEF Named, ItemsAre
<1>4. Place(h) = 2
  BY <1>3, SmallStacks DEF Place
<1>5. PICK f : f = HandleValue(h, v)
  OBVIOUS
<1>6. f = [h EXCEPT !.nodes[2] = v]
  BY <1>4, <1>5 DEF HandleValue
<1>7. PICK l \in 1 .. Len(h.nodes) : l = 2
  OBVIOUS
<1>8. /\ Tree(f) /\ f.ref_stack = h.ref_stack /\ Len(f.nodes) = Len(h.nodes) /\ f.nodes[l] = v
      /\ \A k \in 1 .. Len(h.nodes) \ {l} : f.nodes[k] = h.nodes[k]
  <2>1. f = [h EXCEPT !.nodes[l] = v]
    BY <1>6, <1>7
  <2> QED BY <1>2, <2>1, NodeReplaced
<1>9. g = [f EXCEPT !.ref_stack = Append(@, 2)]
  BY <1>1, <1>4, <1>5 DEF StartContainer
<1>10. g.nodes = f.nodes /\ g.ref_stack = <<1, 2>>
  <2>1. PICK A, B, C : f = [nodes |-> A, ref_stack |-> B, object_element |-> C]
    BY <1>8 DEF Tree
  <2>2. B = <<1>> /\ Append(B, 2) = <<1, 2>>
    BY <1>8, <2>1, SmallStacks
  <2>3. g = [nodes |-> A, ref_stack |-> Append(B, 2), object_element |-> C]
    BY <1>9, <2>1
  <2> QED BY <2>1, <2>2, <2>3
<1>11. g.nodes[1] = h.nodes[1] /\ g.nodes[2] = v
  <2>1. 1 \in 1 .. Len(h.nodes) \ {l}
    BY <1>7
  <2> QED BY <1>7, <1>8, <1>10, <2>1
<1>12. Named(g, ms, 1)
  BY <1>11 DEF Named
<1>13. Elements(g, list, 0, fill)
  <2>1. <<>> \in Seq({}) /\ Len(<<>>) = 0
    BY EmptySeq
  <2>2. ItemsAre(v, "array", 0)
    BY <1>2, <2>1 DEF ItemsAre, IsSeq
  <2>3. 1 .. 0 = {}
    OBVIOUS
  <2> QED BY <1>11, <2>2, <2>3 DEF Elements
<1> QED BY <1>8, <1>10, <1>12, <1>13

\* an element of it,
LEMMA ElementStored ==
  ASSUME NEW h, Tree(h), h.ref_stack = <<1, 2>>, NEW n \in Nat, Len(h.nodes) = n + 2,
         NEW ms, Named(h, ms, 1), NEW list, NEW fill, Elements(h, list, n, fill),
         NEW v, v.type = "string", v.text = Repaired(list[n + 1], fill),
         NEW g, g = HandleValue(h, v)
  PROVE  /\ g.ref_stack = <<1, 2>> /\ Len(g.nodes) = n + 3
         /\ Named(g, ms, 1) /\ Elements(g, list, n + 1, fill)
<1>1. PICK top : top = Last(h.ref_stack)
  OBVIOUS
<1>2. top = 2 /\ top \in 1 .. Len(h.nodes)
  BY <1>1, SmallStacks
<1>3. ItemsAre(h.nodes[top], "array", n) /\ h.nodes[top].type = "array"
  BY <1>2 DEF Elements, ItemsAre
<1>4. Place(h) = Len(h.nodes) + 1
  <2>1. h.ref_stack # <<>>
    BY SmallStacks
  <2> QED BY <1>1, <1>3, <2>1 DEF Place
<1>5. g = AddChild(h, <<>>, v)
  <2>1. Place(h) > Len(h.nodes)
    BY <1>4
  <2> QED BY <2>1 DEF HandleValue
<1>6. PICK key : key = <<>>
  OBVIOUS
<1>7. Gained(h, g, top, "array", n, key, v)
  BY <1>1, <1>2, <1>3, <1>5, <1>6, OneMoreChild
<1>8. /\ g.ref_stack = h.ref_stack /\ Len(g.nodes) = n + 3 /\ g.nodes[n + 3] = v
      /\ \A k \in 1 .. n + 2 : k # 2 => g.nodes[k] = h.nodes[k]
      /\ ItemsAre(g.nodes[2], "array", n + 1)
      /\ \A k \in 1 .. n : g.nodes[2].items[k] = h.nodes[2].items[k]
      /\ g.nodes[2].items[n + 1] = Entry(key, n + 3)
  <2>1. n + 2 + 1 = n + 3
    OBVIOUS
  <2> QED BY <1>2, <1>7, <2>1 DEF Gained
<1>9. Named(g, ms, 1)
  <2>1. g.nodes[1] = h.nodes[1]
    BY <1>8
  <2> QED BY <2>1 DEF Named
<1>10. ASSUME NEW k \in 1 .. n + 1
       PROVE  /\ g.nodes[2].items[k].node = k + 2
              /\ g.nodes[k + 2].type = "string"
              /\ g.nodes[k + 2].text = Repaired(list[k], fill)
  <2>1. CASE k \in 1 .. n
    <3>1. k + 2 \in 1 .. n + 2 /\ k + 2 # 2
      BY <2>1
    <3>2. g.nodes[2].items[k] = h.nodes[2].items[k] /\ g.nodes[k + 2] = h.nodes[k + 2]
      BY <1>8, <2>1, <3>1
    <3> QED BY <2>1, <3>2 DEF Elements
  <2>2. CASE k = n + 1
    <3>1. k + 2 = n + 3
      BY <2>2
    <3>2. Entry(key, n + 3).node = n + 3
      BY DEF Entry
    <3> QED BY <1>8, <2>2, <3>1, <3>2
  <2> QED BY <2>1, <2>2
<1>11. Elements(g, list, n + 1, fill)
  BY <1>8, <1>10 DEF Elements
<1> QED BY <1>8, <1>9, <1>11

\* What is open is left, and nothing else happens.
LEMMA ContainerLeft ==
  ASSUME NEW h, Tree(h), NEW g, g = EndContainer(h)
  PROVE  g.nodes = h.nodes /\ g.ref_stack = Front(h.ref_stack)
<1>1. PICK A, B, C : h = [nodes |-> A, ref_stack |-> B, object_element |-> C]
  BY DEF Tree
<1>2. g = [nodes |-> A, ref_stack |-> Front(B), object_element |-> C]
  BY <1>1 DEF EndContainer
<1> QED BY <1>1, <1>2

-----------------------------------------------------------------------------
(* The parser on the text of a message. *)

LEMMA TokenParts ==
  /\ \A type, x : Token(type, x).type = type /\ Token(type, x).next = x
  /\ \A s, x : /\ StringToken(s, x).type = "value_string" /\ StringToken(s, x).text = s
               /\ StringToken(s, x).next = x
BY DEF Token, StringToken

\* Which step the parser takes.
LEMMA StepAtValue ==
  ASSUME ParseNext, verdict = "parsing", ~evaluate
  PROVE  /\ last_token.type = "begin_object" => BeginObject
         /\ last_token.type = "begin_array" => BeginArray
         /\ last_token.type \in {"value_string", "value_unsigned", "value_integer"} => ScalarValue
<1>1. \/ BeginObject \/ BeginArray \/ ScalarValue \/ FloatOverflow \/ Unexpected
  BY DEF ParseNext, EndOfHierarchy, NextElement, NextMember, EndArray, EndObject, Close, MissingEnd,
         StrictEnd, AtState
<1>2. /\ BeginObject => last_token.type = "begin_object"
      /\ BeginArray => last_token.type = "begin_array"
      /\ ScalarValue => last_token.type \in Scalars
      /\ FloatOverflow => last_token.type = "value_float"
      /\ Unexpected => last_token.type \notin Scalars \cup {"begin_object", "begin_array"}
  BY DEF BeginObject, BeginArray, ScalarValue, FloatOverflow, Unexpected, AtValue
<1> QED BY <1>1, <1>2 DEF Scalars

\* The step of the parser behind a value.
LEMMA StepAtState ==
  ASSUME ParseNext, verdict = "parsing", evaluate
  PROVE  /\ states = <<>> => EndOfHierarchy
         /\ states # <<>> /\ Last(states) = "object" /\ Next1.type = "value_separator" => NextMember
         /\ states # <<>> /\ Last(states) = "object" /\ Next1.type = "end_object" => EndObject
         /\ states # <<>> /\ Last(states) = "array" /\ Next1.type = "value_separator" => NextElement
         /\ states # <<>> /\ Last(states) = "array" /\ Next1.type = "end_array" => EndArray
<1>1. \/ EndOfHierarchy \/ NextElement \/ NextMember \/ EndArray \/ EndObject \/ MissingEnd
  BY DEF ParseNext, BeginObject, BeginArray, ScalarValue, FloatOverflow, Unexpected, AtValue,
         StrictEnd
<1>2. /\ EndOfHierarchy => states = <<>>
      /\ NextElement => states # <<>> /\ Last(states) = "array" /\ Next1.type = "value_separator"
      /\ NextMember => states # <<>> /\ Last(states) = "object" /\ Next1.type = "value_separator"
      /\ EndArray => states # <<>> /\ Last(states) = "array" /\ Next1.type = "end_array"
      /\ EndObject => states # <<>> /\ Last(states) = "object" /\ Next1.type = "end_object"
      /\ MissingEnd => /\ states # <<>>
                       /\ \/ /\ Last(states) = "array"
                             /\ Next1.type \notin {"value_separator", "end_array"}
                          \/ /\ Last(states) = "object"
                             /\ Next1.type \notin {"value_separator", "end_object"}
  BY DEF EndOfHierarchy, NextElement, NextMember, EndArray, EndObject, Close, MissingEnd, AtState
<1> QED BY <1>1, <1>2

\* The step behind the last token.
LEMMA StepWhenParsed ==
  ASSUME ParseNext
  PROVE  verdict \in {"parsing", "parsed"} /\ (verdict = "parsed" => StrictEnd)
BY DEF ParseNext, BeginObject, BeginArray, ScalarValue, FloatOverflow, Unexpected, AtValue,
       EndOfHierarchy, NextElement, NextMember, EndArray, EndObject, Close, MissingEnd, AtState,
       StrictEnd

LEMMA TextStays == ASSUME ParseNext PROVE text' = text
BY DEF ParseNext, BeginObject, BeginArray, ScalarValue, FloatOverflow, Unexpected, EndOfHierarchy,
       NextElement, NextMember, EndArray, EndObject, Close, MissingEnd, StrictEnd, MemberFollows,
       ParseError, Completed

\* Where the parser is: before the first value, at the value of the j-th member
\* or behind it, at an element of the list or behind it, behind the whole value,
\* at the end.
Starting(t) == verdict = "parsing" /\ NewParser /\ last_token = Scan(t, 1)

AtMember(t, j, ms, vs, val, fill) ==
  /\ verdict = "parsing" /\ ~evaluate /\ states = <<"object">> /\ last_token = Scan(t, val[j])
  /\ dom.object_element = j + 1 /\ Opens(dom, ms, vs, j, j - 1, fill)

MemberDone(j, ms, vs, fin, fill) ==
  /\ verdict = "parsing" /\ evaluate /\ states = <<"object">> /\ last_token.next = fin[j]
  /\ dom.ref_stack = <<1>> /\ Built(dom, ms, vs, j, j, fill)
  /\ j < Len(ms) => Opens(dom, ms, vs, j, j, fill)

AtElement(t, n, ms, list, eb, fill) ==
  /\ verdict = "parsing" /\ ~evaluate /\ states = <<"object", "array">>
  /\ last_token = Scan(t, eb[n])
  /\ dom.ref_stack = <<1, 2>> /\ Len(dom.nodes) = n + 1
  /\ Named(dom, ms, 1) /\ Elements(dom, list, n - 1, fill)

ElementDone(n, ms, list, ef, fill) ==
  /\ verdict = "parsing" /\ evaluate /\ states = <<"object", "array">>
  /\ last_token.next = ef[n]
  /\ dom.ref_stack = <<1, 2>> /\ Len(dom.nodes) = n + 2
  /\ Named(dom, ms, 1) /\ Elements(dom, list, n, fill)

Over(t, ms, vs, fill) ==
  /\ verdict \in {"parsing", "parsed"} /\ evaluate /\ states = <<>>
  /\ Scan(t, last_token.next).type = "end_of_input"
  /\ Built(dom, ms, vs, Len(ms), Len(ms), fill)

ReadThrough(ms, vs, fill) == verdict = "accepted" /\ Built(dom, ms, vs, Len(ms), Len(ms), fill)

InList(t, ms, list, p, x, fill) ==
  /\ ms[1].kind = "list"
  /\ \E eb : \E ef :
       /\ ListScans(t, list, p, x, eb, ef, fill)
       /\ \E n \in 1 .. Len(list) : \/ AtElement(t, n, ms, list, eb, fill)
                                    \/ ElementDone(n, ms, list, ef, fill)

InMessage(t, ms, vs, val, fin, fill) ==
  \/ Starting(t)
  \/ \E j \in 1 .. Len(ms) : AtMember(t, j, ms, vs, val, fill) \/ MemberDone(j, ms, vs, fin, fill)
  \/ InList(t, ms, vs[1].list, val[1], fin[1], fill)
  \/ Over(t, ms, vs, fill)
  \/ ReadThrough(ms, vs, fill)

\* The key of a member and its colon are read.
LEMMA KeyRead ==
  ASSUME NEW t, text = t, NEW member, NEW v, NEW p, NEW y, NEW x, NEW fill,
         MemberScans(t, member, v, p, y, x, fill),
         NEW k, k = Scan(t, p), NEW h, NEW stack, MemberFollows(k, h, stack)
  PROVE  /\ last_token' = Scan(t, y) /\ dom' = Key(h, member.key) /\ states' = stack
         /\ evaluate' = FALSE /\ verdict' = verdict /\ k.type = "value_string"
<1>1. PICK q \in Places : Scan(t, p) = StringToken(member.key, q)
           /\ Scan(t, q) = Token("name_separator", y)
  BY DEF MemberScans
<1>2. k.type = "value_string" /\ k.text = member.key /\ k.next = q
  BY <1>1, TokenParts
<1>3. Scan(text, k.next) = Token("name_separator", y)
  BY <1>1, <1>2
<1>4. PICK colon : colon = Scan(text, k.next)
  OBVIOUS
<1>5. colon.type = "name_separator" /\ colon.next = y
  BY <1>3, <1>4, TokenParts
<1> QED BY <1>2, <1>4, <1>5 DEF MemberFollows

\* The steps of the parser, each from one stage to the next: the brace,
LEMMA ObjectEntered ==
  ASSUME ParserInv, ParseNext, NEW t, text = t, NEW ms, MembersFit(ms), NEW vs,
         NEW beg, NEW val, NEW fin, NEW fill, MessageScans(t, ms, vs, beg, val, fin, fill),
           Starting(t)
  PROVE  AtMember(t, 1, ms, vs, val, fill)'
<1>1. /\ verdict = "parsing" /\ evaluate = FALSE /\ states = <<>> /\ last_token = Scan(t, 1)
      /\ dom = [nodes |-> <<NullNode>>, ref_stack |-> <<>>, object_element |-> 0]
  BY DEF Starting, NewParser
<1>2. last_token = Token("begin_object", beg[1])
  BY <1>1 DEF MessageScans
<1>3. last_token.type = "begin_object" /\ last_token.next = beg[1]
  BY <1>2, TokenParts
<1>4. BeginObject
  BY <1>1, <1>3, StepAtValue
<1>5. PICK h : h = StartContainer(dom, "object")
  OBVIOUS
<1>6. PICK k : k = Next1
  OBVIOUS
<1>7. k = Scan(t, beg[1])
  BY <1>3, <1>6 DEF Next1
<1>8. Len(ms) \in Nat \ {0} /\ 1 \in 1 .. Len(ms)
  BY MembersApart
<1>9. MemberScans(t, ms[1], vs[1], beg[1], val[1], fin[1], fill)
  BY <1>8 DEF MessageScans
<1>10. k.type = "value_string"
  <2>1. PICK q \in Places : k = StringToken(ms[1].key, q)
    BY <1>7, <1>9 DEF MemberScans
  <2> QED BY <2>1, TokenParts
<1>11. MemberFollows(k, h, Append(states, "object"))
  BY <1>4, <1>5, <1>6, <1>10 DEF BeginObject
<1>12. /\ last_token' = Scan(t, val[1]) /\ dom' = Key(h, ms[1].key) /\ evaluate' = FALSE
       /\ states' = Append(states, "object") /\ verdict' = verdict
  <2>1. PICK member, v, p, y, x, stack :
          /\ member = ms[1] /\ v = vs[1] /\ p = beg[1] /\ y = val[1] /\ x = fin[1]
          /\ stack = Append(states, "object")
    OBVIOUS
  <2>2. /\ MemberScans(t, member, v, p, y, x, fill) /\ k = Scan(t, p)
        /\ MemberFollows(k, h, stack)
    BY <1>7, <1>9, <1>11, <2>1
  <2>3. /\ last_token' = Scan(t, y) /\ dom' = Key(h, member.key) /\ states' = stack
        /\ evaluate' = FALSE /\ verdict' = verdict
    BY <2>2, KeyRead, Zenon
  <2> QED BY <2>1, <2>3
<1>13. Tree(h)
  <2>1. Tree(dom) /\ Path(dom) /\ Stacked(dom, states) /\ Aimed(dom)
    BY <1>1 DEF ParserInv
  <2> QED BY <1>5, <2>1, ContainerStarted
<1>14. h.ref_stack = <<1>> /\ Len(h.nodes) = 1 /\ Named(h, ms, 0)
  BY <1>1, <1>5, ObjectStarted
<1>15. Opens(h, ms, vs, 0, 0, fill)
  <2>1. 1 .. 0 = {} /\ 0 + 1 = 1
    OBVIOUS
  <2> QED BY <1>14, <2>1 DEF Built, Opens
<1>16. PICK key, m, n, g : key = ms[1].key /\ m = 1 /\ n = 0 /\ g = Key(h, key)
  OBVIOUS
<1>17. g.object_element = m + 1 /\ Opens(g, ms, vs, m, n, fill)
  <2>1. Upcoming(ms, n, m, key) /\ g = Key(h, key)
    BY <1>8, <1>16 DEF Upcoming
  <2>2. Opens(h, ms, vs, n, n, fill)
    BY <1>15, <1>16
  <2> QED BY <1>13, <2>1, <2>2, KeyAdded
<1>18. states' = <<"object">>
  BY <1>1, <1>12, SmallStacks
<1>19. dom' = g
  BY <1>12, <1>16
<1>20. dom'.object_element = 1 + 1 /\ Opens(dom', ms, vs, 1, 1 - 1, fill)
  BY <1>16, <1>17, <1>19
<1> QED BY <1>1, <1>12, <1>18, <1>20 DEF AtMember

\* the next key,
LEMMA MemberEntered ==
  ASSUME ParserInv, ParseNext, NEW t, text = t, NEW ms, MembersFit(ms), NEW vs,
         NEW beg, NEW val, NEW fin, NEW fill, MessageScans(t, ms, vs, beg, val, fin, fill),
         NEW n \in 1 .. Len(ms), MemberDone(n, ms, vs, fin, fill),
         NEW m, NEW key, Upcoming(ms, n, m, key)
  PROVE  AtMember(t, m, ms, vs, val, fill)'
<1>1. Len(ms) \in Nat \ {0}
  BY MembersApart
<1>2. /\ m \in 1 .. Len(ms) /\ n = m - 1 /\ n < Len(ms) /\ n \in 1 .. Len(ms) - 1 /\ n + 1 = m
      /\ key = ms[m].key
  BY <1>1 DEF Upcoming
<1>3. /\ verdict = "parsing" /\ evaluate /\ states = <<"object">> /\ last_token.next = fin[n]
      /\ Opens(dom, ms, vs, n, n, fill)
  BY <1>2 DEF MemberDone
<1>4. Next1 = Token("value_separator", beg[m])
  <2>1. Scan(t, fin[n]) = Token("value_separator", beg[n + 1])
    BY <1>2 DEF MessageScans
  <2> QED BY <1>2, <1>3, <2>1 DEF Next1
<1>5. Next1.type = "value_separator" /\ Next1.next = beg[m]
  BY <1>4, TokenParts
<1>6. NextMember
  BY <1>3, <1>5, SmallStacks, StepAtState
<1>7. MemberFollows(Next2, dom, states)
  BY <1>6 DEF NextMember
<1>8. PICK member, v, p, y, x, stack, h, k :
        /\ member = ms[m] /\ v = vs[m] /\ p = beg[m] /\ y = val[m] /\ x = fin[m]
        /\ stack = states /\ h = dom /\ k = Next2
  OBVIOUS
<1>9. MemberScans(t, member, v, p, y, x, fill)
  BY <1>2, <1>8 DEF MessageScans
<1>10. k = Scan(t, p) /\ MemberFollows(k, h, stack)
  BY <1>5, <1>7, <1>8 DEF Next2
<1>11. /\ last_token' = Scan(t, y) /\ dom' = Key(h, member.key) /\ states' = stack
       /\ evaluate' = FALSE /\ verdict' = verdict
  BY <1>9, <1>10, KeyRead, Zenon
<1>12. PICK g : g = Key(h, key)
  OBVIOUS
<1>13. g.object_element = m + 1 /\ Opens(g, ms, vs, m, n, fill)
  <2>1. Tree(h) /\ Opens(h, ms, vs, n, n, fill)
    BY <1>3, <1>8 DEF ParserInv
  <2> QED BY <1>12, <2>1, KeyAdded
<1>14. dom' = g /\ n = m - 1
  BY <1>2, <1>8, <1>11, <1>12, Zenon
<1>15. dom'.object_element = m + 1 /\ Opens(dom', ms, vs, m, m - 1, fill)
  BY <1>13, <1>14
<1> QED BY <1>3, <1>8, <1>11, <1>15 DEF AtMember

\* What ScalarValue stores of a token that is no list.
LEMMA ScalarsFit ==
  ASSUME NEW t, NEW kind \in {"string", "int"}, NEW v, NEW p, NEW x, NEW fill,
         ValueScans(t, kind, v, p, x, fill), NEW k, k = Scan(t, p), NEW s, s = ScalarNode(k)
  PROVE  /\ k.type \in {"value_string", "value_unsigned", "value_integer"} /\ k.next = x
         /\ IsNode(s) /\ s.items = <<>> /\ Stores(s, kind, v, fill)
<1>1. PICK type, num : s = Node(type, k.text, num)
  BY DEF ScalarNode
<1>2. IsNode(s) /\ s.items = <<>>
  <2>1. <<>> \in Seq({})
    BY EmptySeq
  <2> QED BY <1>1, <2>1 DEF Node, IsNode, IsSeq
<1>3. CASE kind = "string"
  <2>1. k = StringToken(Repaired(v.text, fill), x)
    BY <1>3 DEF ValueScans
  <2>2. k.type = "value_string" /\ k.text = Repaired(v.text, fill) /\ k.next = x
    BY <2>1, TokenParts
  <2>3. s.type = "string" /\ s.text = k.text
    BY <2>2 DEF ScalarNode, Node
  <2> QED BY <1>2, <1>3, <2>2, <2>3 DEF Stores
<1>4. CASE kind = "int"
  <2>1. NumberIs(k, v.num, x)
    BY <1>4 DEF ValueScans
  <2>2. k.type \in {"value_unsigned", "value_integer"} /\ k.num = v.num /\ k.next = x
    BY <2>1 DEF NumberIs
  <2>3. s.type \in {"unsigned", "integer"} /\ s.num = k.num
    BY <2>2 DEF ScalarNode, Node
  <2> QED BY <1>2, <1>4, <2>2, <2>3 DEF Stores
<1> QED BY <1>3, <1>4

\* a member that is no list,
LEMMA MemberStored ==
  ASSUME ParserInv, ParseNext, NEW t, text = t, NEW ms, MembersFit(ms), NEW vs,
         NEW beg, NEW val, NEW fin, NEW fill, MessageScans(t, ms, vs, beg, val, fin, fill),
         NEW m \in 1 .. Len(ms), AtMember(t, m, ms, vs, val, fill), ms[m].kind # "list"
  PROVE  MemberDone(m, ms, vs, fin, fill)'
<1>1. PICK n, kind, w, k, s, h : /\ n = m - 1 /\ kind = ms[m].kind /\ w = vs[m] /\ k = last_token
                                 /\ s = ScalarNode(k) /\ h = dom
  OBVIOUS
<1>2. kind \in {"string", "int"}
  BY <1>1, MembersApart
<1>3. /\ verdict = "parsing" /\ ~evaluate /\ states = <<"object">> /\ k = Scan(t, val[m])
      /\ h.object_element = m + 1 /\ Opens(h, ms, vs, m, n, fill)
  BY <1>1 DEF AtMember
<1>4. ValueScans(t, kind, w, val[m], fin[m], fill)
  BY <1>1 DEF MessageScans, MemberScans
<1>5. /\ k.type \in {"value_string", "value_unsigned", "value_integer"} /\ k.next = fin[m]
      /\ IsNode(s) /\ s.items = <<>> /\ Stores(s, kind, w, fill)
  <2>1. PICK p, x : p = val[m] /\ x = fin[m]
    OBVIOUS
  <2>2. ValueScans(t, kind, w, p, x, fill) /\ k = Scan(t, p)
    BY <1>3, <1>4, <2>1
  <2> QED BY <1>1, <1>2, <2>1, <2>2, ScalarsFit
<1>6. ScalarValue
  BY <1>1, <1>3, <1>5, StepAtValue
<1>7. PICK g : g = HandleValue(h, s)
  OBVIOUS
<1>8. /\ last_token' = k /\ dom' = g /\ states' = states /\ evaluate' = TRUE /\ verdict' = verdict
  BY <1>1, <1>6, <1>7 DEF ScalarValue, Completed
<1>9. Opens(g, ms, vs, m, m, fill)
  <2>1. Tree(h)
    BY <1>1 DEF ParserInv
  <2>2. kind # "list"
    BY <1>2
  <2> QED BY <1>1, <1>3, <1>5, <1>7, <2>1, <2>2, ValueStored
<1>10. Opens(dom', ms, vs, m, m, fill)
  BY <1>8, <1>9
<1>11. dom'.ref_stack = <<1>> /\ Built(dom', ms, vs, m, m, fill)
  BY <1>10 DEF Opens
<1> QED BY <1>3, <1>5, <1>8, <1>10, <1>11 DEF MemberDone

\* the closing brace,
LEMMA ObjectLeft ==
  ASSUME ParserInv, ParseNext, NEW t, text = t, NEW ms, MembersFit(ms), NEW vs,
         NEW beg, NEW val, NEW fin, NEW fill, MessageScans(t, ms, vs, beg, val, fin, fill),
         NEW n, n = Len(ms), MemberDone(n, ms, vs, fin, fill)
  PROVE  Over(t, ms, vs, fill)'
<1>1. PICK h : h = dom
  OBVIOUS
<1>2. /\ verdict = "parsing" /\ evaluate /\ states = <<"object">> /\ last_token.next = fin[n]
      /\ Built(h, ms, vs, n, n, fill)
  BY <1>1 DEF MemberDone
<1>3. PICK e : Scan(t, fin[n]) = Token("end_object", e) /\ Scan(t, e).type = "end_of_input"
  BY DEF MessageScans
<1>4. Next1 = Token("end_object", e)
  BY <1>2, <1>3 DEF Next1
<1>5. Next1.type = "end_object" /\ Next1.next = e
  BY <1>4, TokenParts
<1>6. EndObject
  BY <1>2, <1>5, SmallStacks, StepAtState
<1>7. PICK g : g = EndContainer(h)
  OBVIOUS
<1>8. /\ last_token' = Next1 /\ dom' = g /\ states' = Front(states) /\ evaluate' = TRUE
      /\ verdict' = verdict
  BY <1>1, <1>6, <1>7 DEF EndObject, Close, Completed, Popped
<1>9. states' = <<>> /\ last_token'.next = e
  BY <1>2, <1>5, <1>8, SmallStacks
<1>10. g.nodes = h.nodes
  BY <1>1, <1>7, ContainerLeft DEF ParserInv
<1>11. Built(g, ms, vs, n, n, fill)
  BY <1>2, <1>10, SMTT(30) DEF Built, Stored, Named, Elements
<1>12. Built(dom', ms, vs, Len(ms), Len(ms), fill)
  BY <1>8, <1>11
<1>13. Scan(t, last_token'.next).type = "end_of_input"
  BY <1>3, <1>9
<1> QED BY <1>2, <1>8, <1>9, <1>12, <1>13 DEF Over

\* the end of the text,
LEMMA EndReached ==
  ASSUME ParseNext, NEW t, text = t, NEW ms, NEW vs, NEW fill, Over(t, ms, vs, fill)
  PROVE  Over(t, ms, vs, fill)' \/ ReadThrough(ms, vs, fill)'
<1>1. /\ verdict \in {"parsing", "parsed"} /\ evaluate /\ states = <<>>
      /\ Scan(t, last_token.next).type = "end_of_input"
      /\ Built(dom, ms, vs, Len(ms), Len(ms), fill)
  BY DEF Over
<1>2. CASE verdict = "parsing"
  <2>1. EndOfHierarchy
    BY <1>1, <1>2, StepAtState
  <2>2. verdict' = "parsed" /\ UNCHANGED <<dom, last_token, states, evaluate>>
    BY <2>1 DEF EndOfHierarchy
  <2>3. Over(t, ms, vs, fill)'
    BY <1>1, <2>2 DEF Over
  <2> QED BY <2>3
<1>3. CASE verdict = "parsed"
  <2>1. StrictEnd
    BY <1>3, StepWhenParsed
  <2>2. Exhausted(Next1)
    BY <1>1 DEF Exhausted, Next1
  <2>3. verdict' = "accepted" /\ dom' = dom
    BY <2>1, <2>2 DEF StrictEnd
  <2>4. ReadThrough(ms, vs, fill)'
    BY <1>1, <2>3 DEF ReadThrough
  <2> QED BY <2>4
<1> QED BY <1>1, <1>2, <1>3

\* The list is the only member.
LEMMA OnlyList ==
  ASSUME NEW ms, MembersFit(ms), NEW j \in 1 .. Len(ms), ms[j].kind = "list"
  PROVE  Len(ms) = 1 /\ j = 1
<1>1. Len(ms) = 1
  BY MembersApart
<1> QED BY <1>1

\* The whole list is stored.
LEMMA ListStored ==
  ASSUME NEW h, NEW ms, MembersFit(ms), ms[1].kind = "list", NEW vs, NEW list, list = vs[1].list,
         NEW n, n = Len(list), NEW fill, Named(h, ms, 1), Elements(h, list, n, fill)
  PROVE  Built(h, ms, vs, 1, 1, fill)
<1>1. Stored(h, 1, "list", vs[1], fill)
  <2>1. Elements(h, vs[1].list, Len(vs[1].list), fill)
    OBVIOUS
  <2>2. Stores(h.nodes[1 + 1], "list", vs[1], fill)
    BY DEF Stores
  <2> QED BY <2>1, <2>2 DEF Stored
<1>2. \A k \in 1 .. 1 : k = 1
  OBVIOUS
<1>3. \A k \in 1 .. 1 : Stored(h, k, ms[k].kind, vs[k], fill)
  BY <1>1, <1>2
<1> QED BY <1>3 DEF Built

LEMMA SameElements ==
  ASSUME NEW h, NEW g, g.nodes = h.nodes, NEW ms, NEW list, NEW n, NEW fill,
         Named(h, ms, 1), Elements(h, list, n, fill)
  PROVE  Named(g, ms, 1) /\ Elements(g, list, n, fill)
BY DEF Named, Elements

\* the bracket,
LEMMA ListEntered ==
  ASSUME ParserInv, ParseNext, NEW t, text = t, NEW ms, MembersFit(ms), ms[1].kind = "list", NEW vs,
         NEW list, list = vs[1].list, NEW val, NEW fin, NEW fill,
         AtMember(t, 1, ms, vs, val, fill), NEW p, p = val[1], NEW x, x = fin[1],
         NEW eb, NEW ef, ListScans(t, list, p, x, eb, ef, fill), Len(list) \in Nat
  PROVE  IF Len(list) = 0 THEN MemberDone(1, ms, vs, fin, fill)'
         ELSE AtElement(t, 1, ms, list, eb, fill)'
<1>1. PICK h : h = dom
  OBVIOUS
<1>2. /\ verdict = "parsing" /\ evaluate = FALSE /\ states = <<"object">> /\ last_token = Scan(t, p)
      /\ h.object_element = 2 /\ h.ref_stack = <<1>> /\ Len(h.nodes) = 2 /\ Named(h, ms, 1)
  <2>1. evaluate = FALSE
    BY DEF AtMember, ParserInv
  <2>2. 1 + 1 = 2
    OBVIOUS
  <2> QED BY <1>1, <2>1, <2>2 DEF AtMember, Opens, Built
<1>3. last_token = Token("begin_array", p + 1)
  BY <1>2 DEF ListScans
<1>4. last_token.type = "begin_array" /\ last_token.next = p + 1
  BY <1>3, TokenParts
<1>5. BeginArray
  BY <1>2, <1>4, StepAtValue
<1>6. PICK g : g = StartContainer(h, "array")
  OBVIOUS
<1>7. g.ref_stack = <<1, 2>> /\ Len(g.nodes) = 2 /\ Named(g, ms, 1) /\ Elements(g, list, 0, fill)
  <2>1. Tree(h)
    BY <1>1 DEF ParserInv
  <2> QED BY <1>2, <1>6, <2>1, ListStarted
<1>8. Tree(g)
  <2>1. Tree(h) /\ Path(h) /\ Stacked(h, states) /\ Aimed(h)
    BY <1>1, <1>2 DEF ParserInv
  <2>2. PICK type \in {"array", "object"} : type = "array"
    OBVIOUS
  <2>3. g = StartContainer(h, type)
    BY <1>6, <2>2
  <2> QED BY <2>1, <2>3, ContainerStarted
<1>9. PICK k : k = Next1
  OBVIOUS
<1>10. k = Scan(t, p + 1)
  BY <1>4, <1>9 DEF Next1
<1>11. IF k.type = "end_array" THEN Completed(k, EndContainer(g), states)
       ELSE /\ last_token' = k /\ dom' = g /\ states' = Append(states, "array")
            /\ UNCHANGED <<text, evaluate, verdict>>
  BY <1>1, <1>5, <1>6, <1>9 DEF BeginArray
<1>12. CASE Len(list) = 0
  <2>1. k = Token("end_array", x)
    BY <1>10, <1>12 DEF ListScans
  <2>2. k.type = "end_array" /\ k.next = x
    BY <2>1, TokenParts
  <2>3. PICK f : f = EndContainer(g)
    OBVIOUS
  <2>4. f.nodes = g.nodes /\ f.ref_stack = <<1>>
    BY <1>7, <1>8, <2>3, ContainerLeft, SmallStacks
  <2>5. Named(f, ms, 1) /\ Elements(f, list, 0, fill)
    BY <1>7, <2>4, SameElements
  <2>6. Built(f, ms, vs, 1, 1, fill)
    BY <1>12, <2>5, ListStored
  <2>7. /\ last_token' = k /\ dom' = f /\ states' = <<"object">> /\ evaluate' = TRUE
        /\ verdict' = "parsing"
    BY <1>2, <1>11, <2>2, <2>3 DEF Completed
  <2>8. ~(1 < Len(ms))
    <3>1. 1 \in 1 .. Len(ms)
      BY MembersApart
    <3> QED BY <3>1, OnlyList
  <2>9. Built(dom', ms, vs, 1, 1, fill)
    BY <2>6, <2>7
  <2>10. MemberDone(1, ms, vs, fin, fill)'
    BY <2>2, <2>4, <2>7, <2>8, <2>9 DEF MemberDone
  <2> QED BY <1>12, <2>10
<1>13. CASE Len(list) # 0
  <2>1. Len(list) > 0 /\ 1 \in 1 .. Len(list)
    BY <1>13
  <2>2. eb[1] = p + 1 /\ k = StringToken(Repaired(list[1], fill), ef[1])
    BY <1>10, <2>1 DEF ListScans
  <2>3. k.type = "value_string"
    BY <2>2, TokenParts
  <2>4. /\ last_token' = Scan(t, eb[1]) /\ dom' = g /\ states' = <<"object", "array">>
        /\ evaluate' = FALSE /\ verdict' = "parsing"
    BY <1>2, <1>10, <1>11, <2>2, <2>3, SmallStacks
  <2>5. Named(dom', ms, 1) /\ Elements(dom', list, 1 - 1, fill)
    <3>1. 1 - 1 = 0
      OBVIOUS
    <3> QED BY <1>7, <2>4, <3>1
  <2>6. dom'.ref_stack = <<1, 2>> /\ Len(dom'.nodes) = 1 + 1
    BY <1>7, <2>4
  <2>7. AtElement(t, 1, ms, list, eb, fill)'
    BY <2>4, <2>5, <2>6 DEF AtElement
  <2> QED BY <1>13, <2>7
<1> QED BY <1>12, <1>13

\* an element,
LEMMA ElementRead ==
  ASSUME ParserInv, ParseNext, NEW t, text = t, NEW ms, NEW list, NEW p, NEW x, NEW fill,
         NEW eb, NEW ef, ListScans(t, list, p, x, eb, ef, fill), Len(list) \in Nat,
         NEW n \in 1 .. Len(list), AtElement(t, n, ms, list, eb, fill)
  PROVE  ElementDone(n, ms, list, ef, fill)'
<1>1. PICK h, k, s, m : h = dom /\ k = last_token /\ s = ScalarNode(k) /\ m = n - 1
  OBVIOUS
<1>2. /\ verdict = "parsing" /\ ~evaluate /\ states = <<"object", "array">> /\ k = Scan(t, eb[n])
      /\ h.ref_stack = <<1, 2>> /\ Len(h.nodes) = n + 1
      /\ Named(h, ms, 1) /\ Elements(h, list, m, fill)
  BY <1>1 DEF AtElement
<1>3. m \in Nat /\ n = m + 1 /\ n + 1 = m + 2 /\ n + 2 = m + 3
  BY <1>1
<1>4. k = StringToken(Repaired(list[n], fill), ef[n])
  BY <1>2 DEF ListScans
<1>5. k.type = "value_string" /\ k.text = Repaired(list[n], fill) /\ k.next = ef[n]
  BY <1>4, TokenParts
<1>6. s.type = "string" /\ s.text = Repaired(list[n], fill)
  BY <1>1, <1>5 DEF ScalarNode, Node
<1>7. ScalarValue
  BY <1>1, <1>2, <1>5, StepAtValue
<1>8. PICK g : g = HandleValue(h, s)
  OBVIOUS
<1>9. /\ last_token' = k /\ dom' = g /\ states' = states /\ evaluate' = TRUE /\ verdict' = verdict
  BY <1>1, <1>7, <1>8 DEF ScalarValue, Completed
<1>10. /\ g.ref_stack = <<1, 2>> /\ Len(g.nodes) = m + 3
       /\ Named(g, ms, 1) /\ Elements(g, list, m + 1, fill)
  <2>1. Tree(h)
    BY <1>1 DEF ParserInv
  <2>2. Len(h.nodes) = m + 2 /\ s.text = Repaired(list[m + 1], fill)
    BY <1>2, <1>3, <1>6
  <2> QED BY <1>2, <1>3, <1>6, <1>8, <2>1, <2>2, ElementStored
<1>11. /\ dom'.ref_stack = <<1, 2>> /\ Len(dom'.nodes) = n + 2
       /\ Named(dom', ms, 1) /\ Elements(dom', list, n, fill)
  BY <1>3, <1>9, <1>10
<1> QED BY <1>2, <1>5, <1>9, <1>11 DEF ElementDone

\* the comma behind it,
LEMMA ElementEntered ==
  ASSUME ParserInv, ParseNext, NEW t, text = t, NEW ms, NEW list, NEW p, NEW x, NEW fill,
         NEW eb, NEW ef, ListScans(t, list, p, x, eb, ef, fill), Len(list) \in Nat,
         NEW n \in 1 .. Len(list) - 1, ElementDone(n, ms, list, ef, fill)
  PROVE  AtElement(t, n + 1, ms, list, eb, fill)'
<1>1. PICK h, m : h = dom /\ m = n + 1
  OBVIOUS
<1>2. /\ verdict = "parsing" /\ evaluate /\ states = <<"object", "array">>
         /\ last_token.next = ef[n]
      /\ h.ref_stack = <<1, 2>> /\ Len(h.nodes) = n + 2
      /\ Named(h, ms, 1) /\ Elements(h, list, n, fill)
  BY <1>1 DEF ElementDone
<1>3. Scan(t, ef[n]) = Token("value_separator", eb[m])
  BY <1>1 DEF ListScans
<1>4. Next1.type = "value_separator" /\ Next1.next = eb[m]
  <2>1. Next1 = Token("value_separator", eb[m])
    BY <1>2, <1>3 DEF Next1
  <2> QED BY <2>1, TokenParts
<1>5. NextElement
  BY <1>2, <1>4, SmallStacks, StepAtState
<1>6. /\ last_token' = Next2 /\ evaluate' = FALSE /\ dom' = h /\ states' = states
      /\ verdict' = verdict
  BY <1>1, <1>5 DEF NextElement
<1>7. last_token' = Scan(t, eb[m])
  BY <1>4, <1>6 DEF Next2
<1>8. m - 1 = n /\ m + 1 = n + 2
  BY <1>1
<1>9. /\ dom'.ref_stack = <<1, 2>> /\ Len(dom'.nodes) = m + 1
      /\ Named(dom', ms, 1) /\ Elements(dom', list, m - 1, fill)
  BY <1>2, <1>6, <1>8
<1>10. AtElement(t, m, ms, list, eb, fill)'
  BY <1>2, <1>6, <1>7, <1>9 DEF AtElement
<1> QED BY <1>1, <1>10

\* the closing bracket.
LEMMA ListLeft ==
  ASSUME ParserInv, ParseNext, NEW t, text = t, NEW ms, MembersFit(ms), ms[1].kind = "list", NEW vs,
         NEW list, list = vs[1].list, NEW p, NEW fin, NEW x, x = fin[1], NEW fill,
         NEW eb, NEW ef, ListScans(t, list, p, x, eb, ef, fill), Len(list) \in Nat \ {0},
         NEW n, n = Len(list), ElementDone(n, ms, list, ef, fill)
  PROVE  MemberDone(1, ms, vs, fin, fill)'
<1>1. PICK h : h = dom
  OBVIOUS
<1>2. /\ verdict = "parsing" /\ evaluate /\ states = <<"object", "array">>
         /\ last_token.next = ef[n]
      /\ h.ref_stack = <<1, 2>> /\ Named(h, ms, 1) /\ Elements(h, list, n, fill)
  BY <1>1 DEF ElementDone
<1>3. Scan(t, ef[n]) = Token("end_array", x)
  BY DEF ListScans
<1>4. Next1.type = "end_array" /\ Next1.next = x
  <2>1. Next1 = Token("end_array", x)
    BY <1>2, <1>3 DEF Next1
  <2> QED BY <2>1, TokenParts
<1>5. EndArray
  BY <1>2, <1>4, SmallStacks, StepAtState
<1>6. PICK g : g = EndContainer(h)
  OBVIOUS
<1>7. /\ last_token' = Next1 /\ dom' = g /\ states' = <<"object">> /\ evaluate' = TRUE
      /\ verdict' = "parsing"
  <2>1. states' = Front(states)
    BY <1>5 DEF EndArray, Close, Completed, Popped
  <2>2. states' = <<"object">>
    BY <1>2, <2>1, SmallStacks
  <2> QED BY <1>1, <1>2, <1>5, <1>6, <2>2 DEF EndArray, Close, Completed
<1>8. g.nodes = h.nodes /\ g.ref_stack = <<1>>
  <2>1. Tree(h)
    BY <1>1 DEF ParserInv
  <2>2. g.nodes = h.nodes /\ g.ref_stack = Front(h.ref_stack)
    BY <1>6, <2>1, ContainerLeft
  <2> QED BY <1>2, <2>2, SmallStacks
<1>9. Named(g, ms, 1) /\ Elements(g, list, n, fill)
  BY <1>2, <1>8, SameElements
<1>10. Built(g, ms, vs, 1, 1, fill)
  BY <1>9, ListStored
<1>11. ~(1 < Len(ms))
  <2>1. 1 \in 1 .. Len(ms)
    BY MembersApart
  <2> QED BY <2>1, OnlyList
<1>12. dom'.ref_stack = <<1>> /\ Built(dom', ms, vs, 1, 1, fill) /\ last_token'.next = fin[1]
  BY <1>4, <1>7, <1>8, <1>10
<1> QED BY <1>7, <1>11, <1>12 DEF MemberDone

LEMMA ListLength ==
  ASSUME NEW kind, NEW v, IsValueOf(kind, v)
  PROVE  Len(v.list) \in Nat
<1>1. PICK S : S = Seq(Bytes)
  OBVIOUS
<1>2. v \in [text : S, num : Int, list : Seq(S)]
  BY <1>1 DEF IsValueOf
<1>3. v.list \in Seq(S)
  BY <1>2
<1> QED BY <1>3

\* In a list there is no other step,
LEMMA InListStep ==
  ASSUME ParserInv, ParseNext, NEW t, text = t, NEW ms, MembersFit(ms), NEW vs,
         NEW list, list = vs[1].list, Len(list) \in Nat, NEW p, NEW fin, NEW x, x = fin[1],
           NEW fill,
         InList(t, ms, list, p, x, fill)
  PROVE  InList(t, ms, list, p, x, fill)' \/ MemberDone(1, ms, vs, fin, fill)'
<1>1. ms[1].kind = "list"
  BY DEF InList
<1>2. PICK eb : \E ef : /\ ListScans(t, list, p, x, eb, ef, fill)
                        /\ \E n \in 1 .. Len(list) : \/ AtElement(t, n, ms, list, eb, fill)
                                                     \/ ElementDone(n, ms, list, ef, fill)
  BY DEF InList
<1>3. PICK ef : /\ ListScans(t, list, p, x, eb, ef, fill)
                /\ \E n \in 1 .. Len(list) : \/ AtElement(t, n, ms, list, eb, fill)
                                             \/ ElementDone(n, ms, list, ef, fill)
  BY <1>2
<1>4. PICK n \in 1 .. Len(list) : \/ AtElement(t, n, ms, list, eb, fill)
                                  \/ ElementDone(n, ms, list, ef, fill)
  BY <1>3
<1>5. CASE AtElement(t, n, ms, list, eb, fill)
  <2>1. ElementDone(n, ms, list, ef, fill)'
    BY <1>3, <1>5, ElementRead
  <2> QED BY <1>1, <1>3, <2>1 DEF InList
<1>6. CASE ElementDone(n, ms, list, ef, fill) /\ n # Len(list)
  <2>1. n \in 1 .. Len(list) - 1
    BY <1>6
  <2>2. AtElement(t, n + 1, ms, list, eb, fill)'
    BY <1>3, <1>6, <2>1, ElementEntered
  <2>3. n + 1 \in 1 .. Len(list)
    BY <2>1
  <2> QED BY <1>1, <1>3, <2>2, <2>3 DEF InList
<1>7. CASE ElementDone(n, ms, list, ef, fill) /\ n = Len(list)
  <2>1. Len(list) \in Nat \ {0}
    BY <1>7
  <2>2. MemberDone(1, ms, vs, fin, fill)'
    BY <1>1, <1>3, <1>7, <2>1, ListLeft
  <2> QED BY <2>2
<1> QED BY <1>4, <1>5, <1>6, <1>7

\* nor in a message,
LEMMA MessageStep ==
  ASSUME ParserInv, ParseNext, NEW t, text = t, NEW ms, MembersFit(ms), NEW vs, Valid(ms, vs),
         NEW beg, NEW val, NEW fin, NEW fill, MessageScans(t, ms, vs, beg, val, fin, fill),
         InMessage(t, ms, vs, val, fin, fill)
  PROVE  InMessage(t, ms, vs, val, fin, fill)'
<1>1. Len(ms) \in Nat \ {0} /\ 1 \in 1 .. Len(ms)
  BY MembersApart
<1>2. PICK list, p, x : list = vs[1].list /\ p = val[1] /\ x = fin[1]
  OBVIOUS
<1>3. Len(list) \in Nat
  <2>1. PICK kind, v : IsValueOf(kind, v) /\ v = vs[1]
    BY <1>1 DEF Valid
  <2> QED BY <1>2, <2>1, ListLength
<1>4. CASE Starting(t)
  <2>1. AtMember(t, 1, ms, vs, val, fill)'
    BY <1>4, ObjectEntered
  <2> QED BY <1>1, <2>1 DEF InMessage
<1>5. ASSUME NEW j \in 1 .. Len(ms), AtMember(t, j, ms, vs, val, fill), ms[j].kind # "list"
      PROVE  InMessage(t, ms, vs, val, fin, fill)'
  <2>1. MemberDone(j, ms, vs, fin, fill)'
    BY <1>5, MemberStored
  <2> QED BY <2>1 DEF InMessage
<1>6. ASSUME NEW j \in 1 .. Len(ms), AtMember(t, j, ms, vs, val, fill), ms[j].kind = "list"
      PROVE  InMessage(t, ms, vs, val, fin, fill)'
  <2>1. j = 1
    BY <1>6, OnlyList
  <2>2. ms[1].kind = "list" /\ AtMember(t, 1, ms, vs, val, fill)
    BY <1>6, <2>1
  <2>3. ValueScans(t, "list", vs[1], p, x, fill)
    BY <1>1, <1>2, <2>2 DEF MessageScans, MemberScans
  <2>4. PICK eb : \E ef : ListScans(t, list, p, x, eb, ef, fill)
    BY <1>2, <2>3 DEF ValueScans
  <2>5. PICK ef : ListScans(t, list, p, x, eb, ef, fill)
    BY <2>4
  <2>6. IF Len(list) = 0 THEN MemberDone(1, ms, vs, fin, fill)'
        ELSE AtElement(t, 1, ms, list, eb, fill)'
    BY <1>2, <1>3, <2>2, <2>5, ListEntered
  <2>7. CASE Len(list) = 0
    BY <1>1, <2>6, <2>7 DEF InMessage
  <2>8. CASE Len(list) # 0
    <3>1. 1 \in 1 .. Len(list) /\ AtElement(t, 1, ms, list, eb, fill)'
      BY <1>3, <2>6, <2>8
    <3>2. InList(t, ms, list, p, x, fill)'
      BY <2>2, <2>5, <3>1 DEF InList
    <3> QED BY <1>2, <3>2 DEF InMessage
  <2> QED BY <2>7, <2>8
<1>7. ASSUME NEW n \in 1 .. Len(ms), MemberDone(n, ms, vs, fin, fill)
      PROVE  InMessage(t, ms, vs, val, fin, fill)'
  <2>1. CASE n = Len(ms)
    <3>1. Over(t, ms, vs, fill)'
      BY <1>7, <2>1, ObjectLeft
    <3> QED BY <3>1 DEF InMessage
  <2>2. CASE n # Len(ms)
    <3>1. PICK m, key : m = n + 1 /\ key = ms[m].key
      OBVIOUS
    <3>2. m \in 1 .. Len(ms) /\ n = m - 1
      BY <1>1, <2>2, <3>1
    <3>3. Upcoming(ms, n, m, key)
      BY <3>1, <3>2 DEF Upcoming
    <3>4. AtMember(t, m, ms, vs, val, fill)'
      BY <1>7, <3>3, MemberEntered
    <3> QED BY <3>2, <3>4 DEF InMessage
  <2> QED BY <2>1, <2>2
<1>8. CASE InList(t, ms, list, p, x, fill)
  <2>1. InList(t, ms, list, p, x, fill)' \/ MemberDone(1, ms, vs, fin, fill)'
    BY <1>2, <1>3, <1>8, InListStep
  <2> QED BY <1>1, <1>2, <2>1 DEF InMessage
<1>9. CASE Over(t, ms, vs, fill)
  <2>1. Over(t, ms, vs, fill)' \/ ReadThrough(ms, vs, fill)'
    BY <1>9, EndReached
  <2> QED BY <2>1 DEF InMessage
<1>10. CASE ReadThrough(ms, vs, fill)
  BY <1>10, StepWhenParsed DEF ReadThrough
<1> QED BY <1>2, <1>4, <1>5, <1>6, <1>7, <1>8, <1>9, <1>10 DEF InMessage

\* A request is the empty string, and no member of it is read.
InRequest(t, e) ==
  \/ Starting(t)
  \/ /\ verdict \in {"parsing", "parsed"} /\ evaluate /\ states = <<>>
     /\ last_token = StringToken(<<>>, e)
  \/ verdict = "accepted"

\* nor in a message that is an empty string.
LEMMA RequestStep ==
  ASSUME ParseNext, NEW t, text = t, NEW e, Scan(t, 1) = StringToken(<<>>, e),
         Scan(t, e).type = "end_of_input", InRequest(t, e)
  PROVE  InRequest(t, e)'
<1>1. CASE Starting(t)
  <2>1. /\ verdict = "parsing" /\ ~evaluate /\ states = <<>> /\ last_token = StringToken(<<>>, e)
    BY <1>1 DEF Starting, NewParser
  <2>2. ScalarValue
    <3>1. last_token.type = "value_string"
      BY <2>1, TokenParts
    <3> QED BY <2>1, <3>1, StepAtValue
  <2>3. last_token' = last_token /\ states' = states /\ evaluate' = TRUE /\ verdict' = verdict
    BY <2>2 DEF ScalarValue, Completed
  <2> QED BY <2>1, <2>3 DEF InRequest
<1>2. CASE /\ verdict = "parsing" /\ evaluate /\ states = <<>> /\ last_token = StringToken(<<>>, e)
  <2>1. EndOfHierarchy
    BY <1>2, StepAtState
  <2> QED BY <1>2, <2>1 DEF EndOfHierarchy, InRequest
<1>3. CASE /\ verdict = "parsed" /\ evaluate /\ states = <<>> /\ last_token = StringToken(<<>>, e)
  <2>1. StrictEnd
    BY <1>3, StepWhenParsed
  <2>2. Exhausted(Next1)
    <3>1. last_token.next = e
      BY <1>3, TokenParts
    <3> QED BY <3>1 DEF Exhausted, Next1
  <2> QED BY <2>1, <2>2 DEF StrictEnd, InRequest
<1>4. CASE verdict = "accepted"
  BY <1>4, StepWhenParsed
<1> QED BY <1>1, <1>2, <1>3, <1>4 DEF InRequest

-----------------------------------------------------------------------------
(* What dispatch_message reads of the value. *)

\* The value that arrives for the value v.
Expected(v, fill) ==
  [v EXCEPT !.text = Repaired(@, fill), !.list = [n \in DOMAIN @ |-> Repaired(@[n], fill)]]

LEMMA EmptyFunction ==
  ASSUME NEW l, l = <<>>, NEW fill
  PROVE  [n \in DOMAIN l |-> Repaired(l[n], fill)] = <<>>
<1>1. PICK f : f = [n \in DOMAIN l |-> Repaired(l[n], fill)]
  OBVIOUS
<1>2. DOMAIN l = {}
  OBVIOUS
<1>3. f = [n \in {} |-> f[n]]
  BY <1>1, <1>2
<1>4. f \in Seq({}) /\ Len(f) = 0
  <2>1. 1 .. 0 = {} /\ 0 \in Nat
    OBVIOUS
  <2>2. f \in [1 .. 0 -> {}]
    BY <1>3, <2>1
  <2> QED BY <2>1, <2>2
<1>5. f = <<>>
  BY <1>4, EmptySeq
<1> QED BY <1>1, <1>5

LEMMA ValueParts ==
  ASSUME NEW kind, NEW v, IsValueOf(kind, v)
  PROVE  /\ v = [text |-> v.text, num |-> v.num, list |-> v.list]
         /\ kind # "string" => v.text = <<>>
         /\ kind # "int" => v.num = 0
         /\ kind # "list" => v.list = <<>>
<1>1. PICK S, T : S = Seq(Bytes) /\ T = Seq(Seq(Bytes))
  OBVIOUS
<1>2. v \in [text : S, num : Int, list : T]
  BY <1>1 DEF IsValueOf
<1>3. v = [text |-> v.text, num |-> v.num, list |-> v.list]
  BY <1>2
<1> QED BY <1>3, Zenon DEF IsValueOf

\* The parts of what is expected.
LEMMA ExpectedParts ==
  ASSUME NEW kind, NEW v, IsValueOf(kind, v), NEW fill
  PROVE  Expected(v, fill) = [text |-> Repaired(v.text, fill), num |-> v.num,
                              list |-> [n \in DOMAIN v.list |-> Repaired(v.list[n], fill)]]
<1>1. PICK a, b, c : a = v.text /\ b = v.num /\ c = v.list
  OBVIOUS
<1>2. v = [text |-> a, num |-> b, list |-> c]
  BY <1>1, ValueParts
<1>3. PICK d : d = [n \in DOMAIN v.list |-> Repaired(v.list[n], fill)]
  OBVIOUS
<1>4. PICK x : x = Repaired(v.text, fill)
  OBVIOUS
<1>5. Expected(v, fill) = [v EXCEPT !.text = x, !.list = d]
  BY <1>2, <1>3, <1>4 DEF Expected
<1>6. Expected(v, fill) = [text |-> x, num |-> b, list |-> d]
  BY <1>2, <1>5
<1> QED BY <1>1, <1>3, <1>4, <1>6

\* The k-th member's value is read.
ReadAs(h, k, kind, v, fill) ==
  Readable(h.nodes, k + 1, kind) /\ Read(h.nodes, k + 1, kind) = Expected(v, fill)

\* from_json reads the value that was written.
LEMMA ReadBack ==
  ASSUME NEW h, NEW k, NEW kind, kind \in {"string", "int", "list"}, kind = "list" => k = 1, NEW v,
         IsValueOf(kind, v), NEW fill, Repaired(<<>>, fill) = <<>>, Stored(h, k, kind, v, fill)
  PROVE  ReadAs(h, k, kind, v, fill)
<1>1. PICK a, b, c : a = v.text /\ b = v.num /\ c = v.list
  OBVIOUS
<1>2. PICK d, x : d = [n \in DOMAIN c |-> Repaired(c[n], fill)] /\ x = Repaired(a, fill)
  OBVIOUS
<1>3. Expected(v, fill) = [text |-> x, num |-> b, list |-> d]
  BY <1>1, <1>2, ExpectedParts
<1>4. /\ kind # "string" => x = <<>>
      /\ kind # "int" => b = 0
      /\ kind # "list" => d = <<>>
  <2>1. /\ kind # "string" => a = <<>>
        /\ kind # "int" => b = 0
        /\ kind # "list" => c = <<>>
    BY <1>1, ValueParts
  <2>2. a = <<>> => x = <<>>
    BY <1>2
  <2>3. c = <<>> => d = <<>>
    BY <1>2, EmptyFunction
  <2> QED BY <2>1, <2>2, <2>3
<1>5. PICK node : node = h.nodes[k + 1]
  OBVIOUS
<1>6. Stores(node, kind, v, fill) /\ (kind = "list" => Elements(h, c, Len(c), fill))
  BY <1>1, <1>5 DEF Stored
<1>7. CASE kind = "string"
  <2>1. node.type = "string" /\ node.text = x
    BY <1>1, <1>2, <1>6, <1>7 DEF Stores
  <2>2. Read(h.nodes, k + 1, kind) = [text |-> x, num |-> 0, list |-> <<>>]
    BY <1>5, <1>7, <2>1 DEF Read, StringValue
  <2> QED BY <1>3, <1>4, <1>5, <1>7, <2>1, <2>2 DEF Readable, ReadAs
<1>8. CASE kind = "int"
  <2>1. node.type \in {"unsigned", "integer"} /\ node.num = b
    BY <1>1, <1>6, <1>8 DEF Stores
  <2>2. Read(h.nodes, k + 1, kind) = [text |-> <<>>, num |-> b, list |-> <<>>]
    BY <1>5, <1>8, <2>1 DEF Read, IntValue
  <2>3. Readable(h.nodes, k + 1, kind)
    BY <1>5, <1>8, <2>1 DEF Readable, Numeric
  <2> QED BY <1>3, <1>4, <1>8, <2>2, <2>3 DEF ReadAs
<1>9. CASE kind = "list"
  <2>1. k + 1 = 2 /\ node = h.nodes[2]
    BY <1>5, <1>9
  <2>2. PICK n, items : n = Len(c) /\ items = node.items
    OBVIOUS
  <2>3. /\ node.type = "array" /\ IsSeq(items) /\ Len(items) = n
        /\ \A j \in 1 .. n : /\ items[j].node = j + 2 /\ h.nodes[j + 2].type = "string"
                             /\ h.nodes[j + 2].text = Repaired(c[j], fill)
    BY <1>6, <1>9, <2>1, <2>2 DEF Elements, ItemsAre
  <2>4. DOMAIN items = 1 .. n /\ DOMAIN c = 1 .. n
    <3>1. DOMAIN items = 1 .. n
      BY <2>3, SeqLength
    <3>2. DOMAIN c = 1 .. n
      <4>1. PICK S : S = Seq(Bytes)
        OBVIOUS
      <4>2. v \in [text : S, num : Int, list : Seq(S)]
        BY <4>1 DEF IsValueOf
      <4>3. c \in Seq(S)
        BY <1>1, <4>2
      <4> QED BY <2>2, <4>3
    <3> QED BY <3>1, <3>2
  <2>5. \A j \in 1 .. n : h.nodes[items[j].node].type = "string"
                          /\ h.nodes[items[j].node].text = Repaired(c[j], fill)
    BY <2>3
  <2>6. [j \in DOMAIN items |-> h.nodes[items[j].node].text] = d
    BY <1>2, <2>4, <2>5
  <2>7. Readable(h.nodes, k + 1, kind)
    <3>1. \A e \in ToSet(items) : h.nodes[e.node].type = "string"
      BY <2>4, <2>5 DEF ToSet
    <3> QED BY <1>9, <2>1, <2>2, <2>3, <3>1 DEF Readable
  <2>8. Read(h.nodes, k + 1, kind) = [text |-> <<>>, num |-> 0, list |-> d]
    BY <1>9, <2>1, <2>2, <2>6 DEF Read, ListValue
  <2> QED BY <1>3, <1>4, <1>9, <2>7, <2>8 DEF ReadAs
<1> QED BY <1>7, <1>8, <1>9

\* It finds each member under its key.
LEMMA MemberFound ==
  ASSUME NEW h, NEW ms, MembersFit(ms), NEW n, n = Len(ms), Named(h, ms, n), NEW m \in 1 .. n
  PROVE  Found(h.nodes, ms[m].key) = {m + 1}
<1>1. PICK items, key : items = h.nodes[1].items /\ key = ms[m].key
  OBVIOUS
<1>2. /\ h.nodes[1].type = "object" /\ IsSeq(items) /\ Len(items) = n
      /\ \A k \in 1 .. n : items[k] = Entry(ms[k].key, k + 1)
  BY <1>1 DEF Named, ItemsAre
<1>3. DOMAIN items = 1 .. n
  BY <1>2, SeqLength
<1>4. ASSUME NEW k \in 1 .. n
      PROVE  items[k].key = ms[k].key /\ items[k].node = k + 1
  <2>1. items[k] = Entry(ms[k].key, k + 1)
    BY <1>2
  <2> QED BY <2>1 DEF Entry
<1>5. \A k \in 1 .. n : items[k].key = key => k = m
  BY <1>1, <1>4, MembersApart
<1>6. {e.node : e \in {x \in ToSet(items) : x.key = key}} = {m + 1}
  <2>1. items[m] \in ToSet(items) /\ items[m].key = key /\ items[m].node = m + 1
    BY <1>1, <1>3, <1>4 DEF ToSet
  <2>2. ASSUME NEW e \in ToSet(items), e.key = key
        PROVE  e.node = m + 1
    <3>1. PICK k \in 1 .. n : e = items[k]
      BY <1>3 DEF ToSet
    <3>2. k = m
      BY <1>5, <2>2, <3>1
    <3> QED BY <1>4, <3>1, <3>2
  <2> QED BY <2>1, <2>2
<1> QED BY <1>1, <1>2, <1>6 DEF Found

\* What is built of a message is read, and it is the message.
LEMMA MessageRead ==
  ASSUME NEW h, NEW type, NEW ms, ms = Members(type), MembersFit(ms), NEW vs, Valid(ms, vs),
         DOMAIN vs = DOMAIN ms, NEW fill, Repaired(<<>>, fill) = <<>>,
         NEW n, n = Len(ms), Built(h, ms, vs, n, n, fill)
  PROVE  /\ Deserializable(h.nodes, type)
         /\ FromJson(h.nodes, type) = Message(type, [k \in DOMAIN vs |-> Expected(vs[k], fill)])
<1>1. DOMAIN ms = 1 .. n
  BY Zenon DEF MembersFit
<1>2. ASSUME NEW k \in 1 .. n
      PROVE  /\ Found(h.nodes, ms[k].key) = {k + 1}
             /\ Readable(h.nodes, k + 1, ms[k].kind)
             /\ Read(h.nodes, k + 1, ms[k].kind) = Expected(vs[k], fill)
  <2>1. Found(h.nodes, ms[k].key) = {k + 1}
    BY MemberFound DEF Built
  <2>2. PICK kind, v : kind = ms[k].kind /\ v = vs[k]
    OBVIOUS
  <2>3. kind \in {"string", "int", "list"}
    BY <2>2, MembersApart
  <2>4. kind = "list" => k = 1
    BY <2>2, OnlyList
  <2>5. IsValueOf(kind, v) /\ Stored(h, k, kind, v, fill)
    BY <2>2 DEF Valid, Built
  <2>6. ReadAs(h, k, kind, v, fill)
    BY <2>3, <2>4, <2>5, ReadBack
  <2> QED BY <2>1, <2>2, <2>6 DEF ReadAs
<1>3. Deserializable(h.nodes, type)
  <2>1. \A k \in 1 .. n : \E x \in Found(h.nodes, ms[k].key) : Readable(h.nodes, x, ms[k].kind)
    BY <1>2
  <2> QED BY <1>1, <2>1 DEF Deserializable, ToSet
<1>4. \A k \in 1 .. n : (CHOOSE x \in Found(h.nodes, ms[k].key) : TRUE) = k + 1
  BY <1>2
<1>5. \A k \in 1 .. n :
        Read(h.nodes, CHOOSE x \in Found(h.nodes, ms[k].key) : TRUE, ms[k].kind)
          = Expected(vs[k], fill)
  BY <1>2, <1>4
<1>6. FromJson(h.nodes, type) = Message(type, [k \in 1 .. n |->
        Read(h.nodes, CHOOSE x \in Found(h.nodes, ms[k].key) : TRUE, ms[k].kind)])
  BY <1>1 DEF FromJson
<1> QED BY <1>1, <1>3, <1>5, <1>6

-----------------------------------------------------------------------------
(* A message on its way. *)

\* The parser is somewhere in the text of the message.
OnItsWay(t, m, fill) ==
  IF m.type \in Requests
  THEN \E e : /\ Scan(t, 1) = StringToken(<<>>, e) /\ Scan(t, e).type = "end_of_input"
              /\ InRequest(t, e)
  ELSE \E beg : \E val : \E fin :
         /\ MessageScans(t, Members(m.type), m.values, beg, val, fin, fill)
         /\ InMessage(t, Members(m.type), m.values, val, fin, fill)

\* Nothing happens to the parser.
LEMMA WaySame ==
  ASSUME UNCHANGED parseVars, NEW t, NEW m, NEW fill, OnItsWay(t, m, fill)
  PROVE  OnItsWay(t, m, fill)'
<1>1. UNCHANGED <<last_token, states, evaluate, dom, verdict>>
  BY DEF parseVars
<1>2. Starting(t)' <=> Starting(t)
  BY <1>1 DEF Starting, NewParser
<1>3. ASSUME NEW e, InRequest(t, e) PROVE InRequest(t, e)'
  BY <1>1, <1>2, <1>3 DEF InRequest
<1>4. ASSUME NEW ms, NEW vs, NEW val, NEW fin, InMessage(t, ms, vs, val, fin, fill)
      PROVE  InMessage(t, ms, vs, val, fin, fill)'
  <2>1. ASSUME NEW j PROVE AtMember(t, j, ms, vs, val, fill)' <=> AtMember(t, j, ms, vs, val, fill)
    BY <1>1 DEF AtMember
  <2>2. ASSUME NEW j PROVE MemberDone(j, ms, vs, fin, fill)' <=> MemberDone(j, ms, vs, fin, fill)
    BY <1>1 DEF MemberDone
  <2>3. ASSUME NEW n, NEW list, NEW eb
        PROVE  AtElement(t, n, ms, list, eb, fill)' <=> AtElement(t, n, ms, list, eb, fill)
    BY <1>1 DEF AtElement
  <2>4. ASSUME NEW n, NEW list, NEW ef
        PROVE  ElementDone(n, ms, list, ef, fill)' <=> ElementDone(n, ms, list, ef, fill)
    BY <1>1 DEF ElementDone
  <2>5. ASSUME NEW list, NEW p, NEW x, InList(t, ms, list, p, x, fill)
        PROVE  InList(t, ms, list, p, x, fill)'
    BY <2>3, <2>4, <2>5, Zenon DEF InList
  <2>6. Over(t, ms, vs, fill)' <=> Over(t, ms, vs, fill)
    BY <1>1 DEF Over
  <2>7. ReadThrough(ms, vs, fill)' <=> ReadThrough(ms, vs, fill)
    BY <1>1 DEF ReadThrough
  <2> QED BY <1>2, <1>4, <2>1, <2>2, <2>5, <2>6, <2>7, Zenon DEF InMessage
<1> QED BY <1>3, <1>4, Zenon DEF OnItsWay

\* The first token is read.
LEMMA WayBegins ==
  ASSUME NEW t, NEW m, NEW fill, TextOf(t, m, fill), Starting(t)'
  PROVE  OnItsWay(t, m, fill)'
<1>1. CASE m.type \in Requests
  <2>1. PICK e : Scan(t, 1) = StringToken(<<>>, e) /\ Scan(t, e).type = "end_of_input"
    BY <1>1 DEF TextOf
  <2>2. InRequest(t, e)'
    BY DEF InRequest
  <2> QED BY <1>1, <2>1, <2>2 DEF OnItsWay
<1>2. CASE m.type \notin Requests
  <2>1. PICK beg : \E val : \E fin :
          MessageScans(t, Members(m.type), m.values, beg, val, fin, fill)
    BY <1>2 DEF TextOf
  <2>2. PICK val : \E fin : MessageScans(t, Members(m.type), m.values, beg, val, fin, fill)
    BY <2>1
  <2>3. PICK fin : MessageScans(t, Members(m.type), m.values, beg, val, fin, fill)
    BY <2>2
  <2>4. InMessage(t, Members(m.type), m.values, val, fin, fill)'
    BY DEF InMessage
  <2> QED BY <1>2, <2>3, <2>4 DEF OnItsWay
<1> QED BY <1>1, <1>2

\* The members of a message that can be sent.
LEMMA SentMembers ==
  ASSUME NEW m, CanBeSent(m), m.type \notin Requests, NEW ms, ms = Members(m.type),
         NEW vs, vs = m.values
  PROVE  MembersFit(ms) /\ Valid(ms, vs) /\ DOMAIN vs = DOMAIN ms
<1>1. /\ m.type \in MessageTypes /\ DOMAIN vs = DOMAIN ms
      /\ \A k \in DOMAIN vs : IsValueOf(ms[k].kind, vs[k])
      /\ \A k \in DOMAIN vs : Storable(vs[k].num)
  BY DEF CanBeSent, IsMessage
<1>2. MembersFit(ms)
  BY <1>1, MembersAllFit
<1>3. DOMAIN ms = 1 .. Len(ms)
  BY <1>2, Zenon DEF MembersFit
<1>4. Valid(ms, vs)
  BY <1>1, <1>3 DEF Valid
<1> QED BY <1>1, <1>2, <1>4

\* The parser goes on.
LEMMA WayGoesOn ==
  ASSUME ParserInv, ParseNext, NEW t, text = t, NEW m, CanBeSent(m), NEW fill, OnItsWay(t, m, fill)
  PROVE  OnItsWay(t, m, fill)'
<1>1. CASE m.type \in Requests
  <2>1. PICK e : /\ Scan(t, 1) = StringToken(<<>>, e) /\ Scan(t, e).type = "end_of_input"
                 /\ InRequest(t, e)
    BY <1>1 DEF OnItsWay
  <2>2. InRequest(t, e)'
    BY <2>1, RequestStep
  <2> QED BY <1>1, <2>1, <2>2 DEF OnItsWay
<1>2. CASE m.type \notin Requests
  <2>1. PICK ms, vs : ms = Members(m.type) /\ vs = m.values
    OBVIOUS
  <2>2. PICK beg : \E val : \E fin : /\ MessageScans(t, ms, vs, beg, val, fin, fill)
                                     /\ InMessage(t, ms, vs, val, fin, fill)
    BY <1>2, <2>1 DEF OnItsWay
  <2>3. PICK val : \E fin : /\ MessageScans(t, ms, vs, beg, val, fin, fill)
                            /\ InMessage(t, ms, vs, val, fin, fill)
    BY <2>2
  <2>4. PICK fin : /\ MessageScans(t, ms, vs, beg, val, fin, fill)
                   /\ InMessage(t, ms, vs, val, fin, fill)
    BY <2>3
  <2>5. MembersFit(ms) /\ Valid(ms, vs)
    BY <1>2, <2>1, SentMembers
  <2>6. InMessage(t, ms, vs, val, fin, fill)'
    BY <2>4, <2>5, MessageStep
  <2> QED BY <1>2, <2>1, <2>4, <2>6 DEF OnItsWay
<1> QED BY <1>1, <1>2

\* At the end the text is accepted, and the message is read.
LEMMA WayEnds ==
  ASSUME NEW t, NEW m, CanBeSent(m), NEW fill, Repaired(<<>>, fill) = <<>>, OnItsWay(t, m, fill),
         verdict \in {"accepted", "parse_error", "out_of_range"}, NEW h, h = dom
  PROVE  /\ verdict = "accepted" /\ Deserializable(h.nodes, m.type)
         /\ FromJson(h.nodes, m.type)
              = Message(m.type, [k \in DOMAIN m.values |-> Expected(m.values[k], fill)])
<1>1. CASE m.type \in Requests
  <2>1. verdict = "accepted"
    BY <1>1 DEF OnItsWay, InRequest, Starting
  <2>2. Members(m.type) = <<>>
    BY <1>1 DEF Requests, Members
  <2>3. DOMAIN Members(m.type) = {} /\ DOMAIN m.values = {}
    <3>1. DOMAIN m.values = DOMAIN Members(m.type)
      BY DEF CanBeSent, IsMessage
    <3>2. DOMAIN <<>> = {}
      OBVIOUS
    <3> QED BY <2>2, <3>1, <3>2
  <2>4. ToSet(Members(m.type)) = {}
    BY <2>3 DEF ToSet
  <2>5. Deserializable(h.nodes, m.type)
    BY <2>4 DEF Deserializable
  <2>6. FromJson(h.nodes, m.type)
          = Message(m.type, [k \in DOMAIN m.values |-> Expected(m.values[k], fill)])
    BY <2>3 DEF FromJson
  <2> QED BY <2>1, <2>5, <2>6
<1>2. CASE m.type \notin Requests
  <2>1. PICK type, ms, vs : type = m.type /\ ms = Members(type) /\ vs = m.values
    OBVIOUS
  <2>2. PICK val : \E fin : InMessage(t, ms, vs, val, fin, fill)
    BY <1>2, <2>1 DEF OnItsWay
  <2>3. PICK fin : InMessage(t, ms, vs, val, fin, fill)
    BY <2>2
  <2>4. ReadThrough(ms, vs, fill)
    BY <2>3 DEF InMessage, Starting, AtMember, MemberDone, InList, AtElement, ElementDone, Over
  <2>5. verdict = "accepted" /\ Built(h, ms, vs, Len(ms), Len(ms), fill)
    BY <2>4 DEF ReadThrough
  <2>6. MembersFit(ms) /\ Valid(ms, vs) /\ DOMAIN vs = DOMAIN ms
    BY <1>2, <2>1, SentMembers
  <2>7. /\ Deserializable(h.nodes, type)
        /\ FromJson(h.nodes, type) = Message(type, [k \in DOMAIN vs |-> Expected(vs[k], fill)])
    <3>1. PICK n : n = Len(ms)
      OBVIOUS
    <3>2. Built(h, ms, vs, n, n, fill) /\ ms = Members(type)
      BY <2>1, <2>5, <3>1
    <3> QED BY <2>6, <3>1, <3>2, MessageRead
  <2> QED BY <2>1, <2>5, <2>7
<1> QED BY <1>1, <1>2

\* What the handler gets.
Receives ==
  /\ fate = "handled"
  /\ delivered.type = message.type
  /\ delivered.values = [k \in DOMAIN message.values |-> Expected(message.values[k], Fill)]

\* The text that arrives is the text of the message, the parser is on its way
\* through it, and what it leaves is read.
ArriveInv ==
  origin = "sender" =>
    /\ CanBeSent(message) /\ message.type \in Handled(receiver)
    /\ verdict = "idle" => NewParser /\ fate \in {"none", "unsent"}
    /\ verdict # "idle" => OnItsWay(text, message, Fill)
    /\ fate \notin {"none", "unsent"} => Receives

\* It is so in the beginning,
LEMMA InitArrives == ASSUME Init PROVE ArriveInv
<1>1. CASE SendMessage
  <2>1. PICK x \in Sent : /\ message = x.message
                          /\ receiver = IF message.type \in ServerHandles THEN "server"
                               ELSE "client"
                          /\ verdict = "idle"
    BY <1>1 DEF SendMessage
  <2>2. CanBeSent(message)
    BY <2>1, SentAssumption DEF CanBeSent
  <2>3. message.type \in Handled(receiver)
    <3>1. message.type \in MessageTypes
      BY <2>2 DEF CanBeSent, IsMessage
    <3>2. CASE message.type \in ServerHandles
      BY <2>1, <3>2 DEF Handled
    <3>3. CASE message.type \notin ServerHandles
      <4>1. receiver = "client" /\ message.type \in ClientHandles
        BY <2>1, <3>1, <3>3 DEF MessageTypes
      <4> QED BY <4>1 DEF Handled
    <3> QED BY <3>2, <3>3
  <2>4. NewParser /\ fate = "none"
    BY DEF Init
  <2> QED BY <2>1, <2>2, <2>3, <2>4 DEF ArriveInv
<1>2. CASE StrangeText
  BY <1>2 DEF StrangeText, ArriveInv
<1> QED BY <1>1, <1>2 DEF Init

LEMMA HandlerStays == ASSUME DumpNext PROVE error_handler' = error_handler
BY DEF DumpNext, AcceptByte, RejectStrict, RejectByte, IncompleteByte, EndString, EndStrict,
       WriteRaw, Return, NextPiece

LEMMA ParserBusy == ASSUME ParseNext PROVE verdict' # "idle"
<1>1. verdict # "idle"
  BY StepWhenParsed
<1> QED BY <1>1 DEF ParseNext, BeginObject, BeginArray, ScalarValue, FloatOverflow, Unexpected,
       EndOfHierarchy, NextElement, NextMember, EndArray, EndObject, Close, MissingEnd, StrictEnd,
       MemberFollows, ParseError, Completed

\* What a step leaves alone of a message under way.
LEMMA StillReceived ==
  ASSUME Receives, UNCHANGED <<message, error_handler, fate, delivered>>
  PROVE  Receives'
<1>1. PICK fill : fill = Fill
  OBVIOUS
<1>2. Fill' = fill
  BY <1>1 DEF Fill
<1>3. delivered.values = [k \in DOMAIN message.values |-> Expected(message.values[k], fill)]
  BY <1>1 DEF Receives
<1>4. (delivered.values = [k \in DOMAIN message.values |-> Expected(message.values[k], fill)])'
  BY <1>3
<1>5. (delivered.values = [k \in DOMAIN message.values |-> Expected(message.values[k], Fill)])'
  BY <1>2, <1>4
<1> QED BY <1>5 DEF Receives

\* A step of dump does not touch the parser.
LEMMA Undisturbed ==
  ASSUME ArriveInv, UNCHANGED parseVars, UNCHANGED wayVars, UNCHANGED error_handler
  PROVE  ArriveInv'
<1>1. UNCHANGED <<origin, message, receiver, fate, delivered>>
  BY DEF wayVars
<1>2. PICK t, m, fill : t = text /\ m = message /\ fill = Fill
  OBVIOUS
<1>3. t = text' /\ m = message' /\ fill = Fill'
  BY <1>1, <1>2 DEF parseVars, Fill
<1>4. CASE origin = "sender"
  <2>1. CanBeSent(m)' /\ message'.type \in Handled(receiver)'
    BY <1>1, <1>2, <1>4 DEF ArriveInv, Handled
  <2>2. verdict' = "idle" => NewParser' /\ fate' \in {"none", "unsent"}
    BY <1>1, <1>4 DEF ArriveInv, parseVars, NewParser
  <2>3. verdict' # "idle" => OnItsWay(t, m, fill)'
    BY <1>2, <1>4, WaySame DEF ArriveInv, parseVars
  <2>4. fate' \notin {"none", "unsent"} => Receives'
    BY <1>1, <1>4, StillReceived DEF ArriveInv
  <2> QED BY <1>3, <2>1, <2>2, <2>3, <2>4 DEF ArriveInv
<1>5. CASE origin # "sender"
  BY <1>1, <1>5 DEF ArriveInv
<1> QED BY <1>4, <1>5

\* and every step keeps it.
LEMMA ArriveStep ==
  ASSUME BufferInv, SpellInv, ParserInv, ArriveInv, [Next]_vars PROVE ArriveInv'
<1>1. CASE Serialize
  BY <1>1, HandlerStays, Undisturbed DEF Serialize
<1>2. CASE UNCHANGED vars
  <2>1. UNCHANGED parseVars /\ UNCHANGED wayVars /\ UNCHANGED error_handler
    BY <1>2 DEF vars, dumpVars
  <2> QED BY <2>1, Undisturbed
<1>3. ASSUME origin = "sender", NotSent
      PROVE  ArriveInv'
  <2>1. /\ fate' = "unsent" /\ UNCHANGED <<origin, message, receiver>>
        /\ UNCHANGED parseVars /\ error_handler' = error_handler
    BY <1>3 DEF NotSent, dumpVars
  <2>2. PICK t, m, fill : t = text /\ m = message /\ fill = Fill
    OBVIOUS
  <2>3. t = text' /\ m = message' /\ fill = Fill'
    BY <2>1, <2>2 DEF parseVars, Fill
  <2>4. CanBeSent(m) /\ message'.type \in Handled(receiver)'
    BY <1>3, <2>1, <2>2 DEF ArriveInv, Handled
  <2>5. verdict' = "idle" => NewParser'
    BY <1>3, <2>1 DEF ArriveInv, parseVars, NewParser
  <2>6. verdict' # "idle" => OnItsWay(t, m, fill)'
    BY <1>3, <2>1, <2>2, WaySame DEF ArriveInv, parseVars
  <2> QED BY <2>1, <2>3, <2>4, <2>5, <2>6 DEF ArriveInv
<1>4. ASSUME origin = "sender", Arrive
      PROVE  ArriveInv'
  <2>1. /\ outcome = "done" /\ verdict = "idle" /\ verdict' = "parsing" /\ text' = o
        /\ last_token' = Scan(o, 1) /\ UNCHANGED <<states, evaluate, dom>>
        /\ error_handler' = error_handler
        /\ UNCHANGED <<origin, message, receiver, fate, delivered>>
    BY <1>4 DEF Arrive, StartParse, dumpVars, wayVars
  <2>2. CanBeSent(message) /\ message.type \in Handled(receiver) /\ NewParser
        /\ fate \in {"none", "unsent"}
    BY <1>4, <2>1 DEF ArriveInv
  <2>3. PICK t \in Seq(Bytes) : t = o
    BY DEF BufferInv, DumpTypeOK
  <2>4. PICK fill \in Seq(Bytes) : fill = Fill
    BY FillType
  <2>5. PICK m : m = message
    OBVIOUS
  <2>6. TextOf(t, m, fill)
    <3>1. SpelledTo(t, Dump(m), Len(Dump(m)), fill)
      BY <1>4, <2>1, <2>3, <2>4, <2>5 DEF SpellInv
    <3> QED BY <2>2, <2>5, <3>1, MessageSpelled
  <2>7. Starting(t)'
    BY <2>1, <2>2, <2>3 DEF Starting, NewParser
  <2>8. OnItsWay(t, m, fill)'
    BY <2>6, <2>7, WayBegins
  <2>9. t = text' /\ m = message' /\ fill = Fill'
    BY <2>1, <2>3, <2>4, <2>5 DEF Fill
  <2>10. message'.type \in Handled(receiver)'
    BY <2>1, <2>2 DEF Handled
  <2> QED BY <2>1, <2>2, <2>5, <2>8, <2>9, <2>10 DEF ArriveInv
<1>5. ASSUME origin = "sender", Parse
      PROVE  ArriveInv'
  <2>1. /\ ParseNext /\ error_handler' = error_handler
        /\ UNCHANGED <<origin, message, receiver, fate, delivered>>
    BY <1>5 DEF Parse, dumpVars, wayVars
  <2>2. verdict # "idle" /\ verdict' # "idle" /\ text' = text
    BY <2>1, StepWhenParsed, ParserBusy, TextStays
  <2>3. PICK t, m, fill : t = text /\ m = message /\ fill = Fill
    OBVIOUS
  <2>4. t = text' /\ m = message' /\ fill = Fill'
    BY <2>1, <2>2, <2>3 DEF Fill
  <2>5. CanBeSent(m) /\ OnItsWay(t, m, fill)
    BY <1>5, <2>2, <2>3 DEF ArriveInv
  <2>6. OnItsWay(t, m, fill)'
    BY <2>1, <2>3, <2>5, WayGoesOn
  <2>7. message'.type \in Handled(receiver)'
    BY <1>5, <2>1 DEF ArriveInv, Handled
  <2>8. fate' \notin {"none", "unsent"} => Receives'
    BY <1>5, <2>1, StillReceived DEF ArriveInv
  <2> QED BY <2>2, <2>4, <2>5, <2>6, <2>7, <2>8 DEF ArriveInv
<1>6. ASSUME origin = "sender", Dispatch
      PROVE  ArriveInv'
  <2>1. /\ verdict \in {"accepted", "parse_error", "out_of_range"}
        /\ UNCHANGED <<origin, message, receiver>> /\ UNCHANGED parseVars
        /\ error_handler' = error_handler
    BY <1>6 DEF Dispatch, dumpVars
  <2>2. PICK t, m, fill, h : t = text /\ m = message /\ fill = Fill /\ h = dom
    OBVIOUS
  <2>3. t = text' /\ m = message' /\ fill = Fill' /\ verdict' = verdict
    BY <2>1, <2>2 DEF parseVars, Fill
  <2>4. CanBeSent(m) /\ OnItsWay(t, m, fill) /\ m.type \in Handled(receiver)
    BY <1>6, <2>1, <2>2 DEF ArriveInv
  <2>5. Repaired(<<>>, fill) = <<>>
    BY <2>2, FillType, NothingKept
  <2>6. /\ verdict = "accepted" /\ Deserializable(h.nodes, m.type)
        /\ FromJson(h.nodes, m.type)
             = Message(m.type, [k \in DOMAIN m.values |-> Expected(m.values[k], fill)])
    BY <2>1, <2>2, <2>4, <2>5, WayEnds
  <2>7. fate' = "handled" /\ delivered' = FromJson(h.nodes, m.type)
    BY <1>6, <2>2, <2>4, <2>6 DEF Dispatch, nodes
  <2>8. /\ delivered'.type = m.type
        /\ delivered'.values = [k \in DOMAIN m.values |-> Expected(m.values[k], fill)]
    BY <2>6, <2>7 DEF Message
  <2>9. Receives'
    BY <2>3, <2>7, <2>8 DEF Receives
  <2>10. OnItsWay(t, m, fill)'
    BY <2>1, <2>4, WaySame
  <2>11. message'.type \in Handled(receiver)'
    BY <2>1, <2>2, <2>4 DEF Handled
  <2> QED BY <2>1, <2>3, <2>4, <2>9, <2>10, <2>11 DEF ArriveInv
<1>7. CASE origin # "sender" /\ [Next]_vars
  <2>1. origin' = origin
    BY <1>7 DEF Next, Serialize, NotSent, Arrive, Parse, Dispatch, vars, wayVars
  <2> QED BY <1>7, <2>1 DEF ArriveInv
<1> QED BY <1>1, <1>2, <1>3, <1>4, <1>5, <1>6, <1>7 DEF Next

\* What is sent is on its way or arrives.
LEMMA ArriveInvariant == Spec => []ArriveInv
<1>1. Init => ArriveInv
  BY InitArrives
<1>2. BufferInv /\ SpellInv /\ ParserInv /\ ArriveInv /\ [Next]_vars => ArriveInv'
  BY ArriveStep
<1> QED BY <1>1, <1>2, SpellInvariant, ParserInvariant, PTL DEF Spec

\* Whatever one side could dump the other side's handler gets, unchanged but for
\* the sequences that are not UTF-8, and no message of this program makes
\* dispatch_message throw (package_dispatcher.hpp:42, package_handler.hpp:20).
THEOREM ArrivesCorrect == Spec => []MessagesArrive
<1>1. ArriveInv => MessagesArrive
  <2> SUFFICES ASSUME ArriveInv, origin = "sender", fate \notin {"none", "unsent"}
               PROVE  /\ fate = "handled"
                      /\ delivered.type = message.type
                      /\ delivered.values = [k \in DOMAIN message.values |->
                           [message.values[k] EXCEPT !.text = Received(@),
                                                     !.list = [n \in DOMAIN @ |-> Received(@[n])]]]
    BY DEF MessagesArrive
  <2>1. Receives
    BY DEF ArriveInv
  <2>2. \A s : Received(s) = Repaired(s, Fill)
    BY DEF Received, Fill
  <2>3. ASSUME NEW v
        PROVE  Expected(v, Fill)
                 = [v EXCEPT !.text = Received(@), !.list = [n \in DOMAIN @ |-> Received(@[n])]]
    <3>1. PICK c : c = v.list
      OBVIOUS
    <3>2. PICK x : x = Repaired(v.text, Fill)
      OBVIOUS
    <3>3. PICK d : d = [n \in DOMAIN c |-> Repaired(c[n], Fill)]
      OBVIOUS
    <3>4. x = Received(v.text) /\ d = [n \in DOMAIN c |-> Received(c[n])]
      BY <2>2, <3>2, <3>3
    <3>5. Expected(v, Fill) = [v EXCEPT !.text = x, !.list = d]
      BY <3>1, <3>2, <3>3 DEF Expected
    <3>6. [v EXCEPT !.text = Received(@), !.list = [n \in DOMAIN @ |-> Received(@[n])]]
            = [v EXCEPT !.text = x, !.list = d]
      BY <3>1, <3>4
    <3> QED BY <3>5, <3>6
  <2>4. delivered.values = [k \in DOMAIN message.values |-> Expected(message.values[k], Fill)]
    BY <2>1 DEF Receives
  <2>5. PICK vs : vs = message.values
    OBVIOUS
  <2>6. [k \in DOMAIN vs |-> Expected(vs[k], Fill)]
          = [k \in DOMAIN vs |-> [vs[k] EXCEPT !.text = Received(@),
                                               !.list = [n \in DOMAIN @ |-> Received(@[n])]]]
    BY <2>3
  <2> QED BY <2>1, <2>4, <2>5, <2>6, ZenonT(60) DEF Receives
<1> QED BY <1>1, ArriveInvariant, PTL
=============================================================================
