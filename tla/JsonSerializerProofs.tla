-------------------------- MODULE JsonSerializerProofs --------------------------
(***************************************************************************)
(* The buffer of the serializer is large enough, for every value, option    *)
(* and size of at least 13 bytes; and a strict dump throws exactly for what *)
(* is not UTF-8: the table of decode takes the very sequences of bytes that *)
(* the Unicode standard gives a scalar value.  Recursive functions are      *)
(* reasoned about with the first lemmas: what a definition by recursion on  *)
(* a number asks for exists, because the numbers are well founded.  The     *)
(* last sections say what decode finds in a string that is not UTF-8, and   *)
(* what is left of it.                                                      *)
(***************************************************************************)
EXTENDS JsonText, TLAPS, SequenceTheorems, WellFoundedInduction

-----------------------------------------------------------------------------
(* Definitions by recursion. *)

LEMMA Least ==
  ASSUME NEW T, T \subseteq Nat, T # {}
  PROVE  \E x \in T : \A y \in T : x <= y
<1> DEFINE R == OpToRel(<, Nat)
<1>1. IsWellFoundedOn(R, Nat)
  BY NatLessThanWellFounded
<1>2. PICK x \in T : \A y \in T : ~ (<<y, x>> \in R)
  <2> HIDE DEF R
  <2> QED BY <1>1, WFMin
<1>3. \A y \in T : x <= y
  <2> SUFFICES ASSUME NEW y \in T PROVE x <= y
    OBVIOUS
  <2>1. ~ (y < x)
    BY <1>2 DEF OpToRel
  <2> QED BY <2>1
<1> QED BY <1>3

\* What holds of a number if it holds of all smaller ones holds of all.
LEMMA Induction ==
  ASSUME NEW G, \A n \in Nat : (\A k \in 0 .. n - 1 : k \in G) => n \in G
  PROVE  \A n \in Nat : n \in G
<1> SUFFICES ASSUME Nat \ G # {} PROVE FALSE
  OBVIOUS
<1>1. PICK x \in Nat \ G : \A y \in Nat \ G : x <= y
  <2>1. Nat \ G \subseteq Nat
    OBVIOUS
  <2> QED BY Least, <2>1
<1>2. \A k \in 0 .. x - 1 : k \in G
  BY <1>1
<1> QED BY <1>1, <1>2

Founded(Def, S, T, m) ==
  \A g, h \in [S -> T], x \in S :
    (\A y \in S : m[y] < m[x] => g[y] = h[y]) => Def[<<g, x>>] = Def[<<h, x>>]

Obeys(f, Def, S, m, n) == \A x \in S : m[x] < n => f[x] = Def[<<f, x>>]

LEMMA RecursionUnique ==
  ASSUME NEW S, NEW T, NEW m \in [S -> Nat], NEW Def,
         Founded(Def, S, T, m),
         NEW n \in Nat, NEW g \in [S -> T], NEW h \in [S -> T], 
         Obeys(g, Def, S, m, n), Obeys(h, Def, S, m, n),
         NEW x \in S, m[x] < n
  PROVE  g[x] = h[x]
<1> DEFINE G == {k \in Nat : \A y \in S : m[y] = k /\ k < n => g[y] = h[y]}
<1>1. ASSUME NEW k \in Nat, \A j \in 0 .. k - 1 : j \in G PROVE k \in G
  <2> SUFFICES ASSUME NEW y \in S, m[y] = k, k < n PROVE g[y] = h[y]
    OBVIOUS
  <2>1. \A z \in S : m[z] < m[y] => g[z] = h[z]
    <3> SUFFICES ASSUME NEW z \in S, m[z] < m[y] PROVE g[z] = h[z]
      OBVIOUS
    <3>1. m[z] \in 0 .. k - 1 /\ m[z] < n
      OBVIOUS
    <3> QED BY <3>1, <1>1
  <2>2. Def[<<g, y>>] = Def[<<h, y>>]
    BY <2>1 DEF Founded
  <2> QED BY <2>2 DEF Obeys
<1>2. m[x] \in G
  <2> HIDE DEF G
  <2> QED BY <1>1, Induction
<1> QED BY <1>2

Recurses(Def, S, T, m) ==
  /\ T # {} /\ m \in [S -> Nat]
  /\ Def \in [[S -> T] \X S -> T]
  /\ Founded(Def, S, T, m)

Solved(Def, S, T) == \E f \in [S -> T] : f = [x \in S |-> Def[<<f, x>>]]

LEMMA Recursive ==
  ASSUME NEW Def, NEW S, NEW T, NEW m, Recurses(Def, S, T, m)
  PROVE  Solved(Def, S, T)
<1>0. /\ T # {} /\ m \in [S -> Nat] /\ Def \in [[S -> T] \X S -> T]
      /\ Founded(Def, S, T, m)
  BY DEF Recurses
<1> USE <1>0
<1> DEFINE G == {n \in Nat : \E g \in [S -> T] : Obeys(g, Def, S, m, n)}
<1>1. ASSUME NEW n \in Nat, \A k \in 0 .. n - 1 : k \in G PROVE n \in G
  <2>1. CASE n = 0
    <3>1. PICK t \in T : TRUE
      OBVIOUS
    <3>2. [x \in S |-> t] \in [S -> T] /\ Obeys([x \in S |-> t], Def, S, m, n)
      BY <2>1, <3>1 DEF Obeys
    <3> QED BY <3>2
  <2>2. CASE n > 0
    <3>1. n - 1 \in G
      BY <2>2, <1>1
    <3>2. PICK g \in [S -> T] : Obeys(g, Def, S, m, n - 1)
      BY <3>1
    <3> DEFINE h == [x \in S |-> Def[<<g, x>>]]
    <3>3. h \in [S -> T]
      OBVIOUS
    <3>4. ASSUME NEW x \in S, m[x] < n PROVE h[x] = Def[<<h, x>>]
      <4>1. \A y \in S : m[y] < m[x] => g[y] = h[y]
        BY <3>2, <3>4 DEF Obeys
      <4>2. Def[<<g, x>>] = Def[<<h, x>>]
        <5> HIDE DEF h
        <5> QED BY <4>1, <3>3 DEF Founded
      <4> QED BY <4>2
    <3>5. Obeys(h, Def, S, m, n)
      BY <3>4 DEF Obeys
    <3> HIDE DEF h
    <3> QED BY <3>3, <3>5
  <2> QED BY <2>1, <2>2
<1>2. \A n \in Nat : n \in G
  <2> HIDE DEF G
  <2> QED BY <1>1, Induction
<1> DEFINE Part(n) == CHOOSE g \in [S -> T] : Obeys(g, Def, S, m, n)
           f == [x \in S |-> Part(m[x] + 1)[x]]
<1>3. ASSUME NEW n \in Nat PROVE Part(n) \in [S -> T] /\ Obeys(Part(n), Def, S, m, n)
  BY <1>2
<1> HIDE DEF Part
<1>4. f \in [S -> T]
  BY <1>3
<1>5. ASSUME NEW x \in S PROVE f[x] = Def[<<f, x>>]
  <2> DEFINE p == Part(m[x] + 1)
  <2>1. p \in [S -> T] /\ Obeys(p, Def, S, m, m[x] + 1)
    BY <1>3
  <2>2. ASSUME NEW y \in S, m[y] < m[x] PROVE p[y] = f[y]
    <3>1. m[y] + 1 \in Nat /\ m[y] < m[y] + 1
      OBVIOUS
    <3>2. PICK q : q = Part(m[y] + 1)
      OBVIOUS
    <3>3. q \in [S -> T] /\ Obeys(q, Def, S, m, m[y] + 1)
      BY <1>3, <3>1, <3>2
    <3>4. p[y] = q[y]
      <4>1. Obeys(p, Def, S, m, m[y] + 1)
        <5> HIDE DEF p
        <5> QED BY <2>1, <2>2 DEF Obeys
      <4>2. p \in [S -> T]
        BY <2>1
      <4> HIDE DEF p, f
      <4> QED BY <4>1, <4>2, <3>1, <3>3, RecursionUnique
    <3>5. f[y] = q[y]
      BY <3>2
    <3> QED BY <3>4, <3>5
  <2>3. p[x] = Def[<<p, x>>]
    <3> HIDE DEF p
    <3> QED BY <2>1 DEF Obeys
  <2>4. Def[<<p, x>>] = Def[<<f, x>>]
    <3> HIDE DEF p, f
    <3> QED BY <1>4, <2>1, <2>2 DEF Founded
  <2>5. f[x] = p[x]
    OBVIOUS
  <2> QED BY <2>3, <2>4, <2>5
<1>6. f = [x \in S |-> f[x]]
  OBVIOUS
<1> HIDE DEF f
<1>7. f = [x \in S |-> Def[<<f, x>>]]
  BY <1>4, <1>5, <1>6
<1> QED BY <1>4, <1>7 DEF Solved

-----------------------------------------------------------------------------
(* UTF-8: which bytes may begin, and which may follow. *)

\* What a byte behind the first byte lead may be, if it is the second.
Second(lead, b) ==
  /\ b \in 128 .. 191
  /\ lead = 224 => b >= 160
  /\ lead = 237 => b <= 159
  /\ lead = 240 => b >= 144
  /\ lead = 244 => b <= 143

\* Starts by the ranges of the bytes.
Begins(s, a, z) ==
  /\ s[a] \in 0 .. 127 \cup 194 .. 244
  /\ Width(s[a]) >= z - a + 1
  /\ \A k \in a + 1 .. z : s[k] \in 128 .. 191
  /\ z > a => Second(s[a], s[a + 1])

LEMMA ByteAt == ASSUME NEW s \in Seq(Bytes), NEW k \in 1 .. Len(s) PROVE s[k] \in 0 .. 255
<1>1. s[k] \in Bytes
  OBVIOUS
<1> QED BY <1>1 DEF Bytes

LEMMA Modulo ==
  /\ \A n \in 0 .. 127 : n % 128 = n
  /\ \A n \in 192 .. 223 : n % 32 = n - 192
  /\ \A n \in 224 .. 239 : n % 16 = n - 224
  /\ \A n \in 240 .. 247 : n % 8 = n - 240
  /\ \A n \in 128 .. 191 : n % 64 = n - 128
  /\ \A n \in 0 .. 255 : n % 64 \in 0 .. 63
OBVIOUS

LEMMA Widths ==
  \A b \in 0 .. 255 : /\ b < 128         => Width(b) = 1
                      /\ b \in 192 .. 223 => Width(b) = 2
                      /\ b \in 224 .. 239 => Width(b) = 3
                      /\ b \in 240 .. 247 => Width(b) = 4
                      /\ b \in 128 .. 191 \/ b > 247 => Width(b) = 0
BY DEF Width

LeadIs(b) == /\ b < 128         => LeadBits(b) = b
             /\ b \in 192 .. 223 => LeadBits(b) = b - 192
             /\ b \in 224 .. 239 => LeadBits(b) = b - 224
             /\ b \in 240 .. 247 => LeadBits(b) = b - 240

LEMMA Leads == \A b \in 0 .. 255 : LeadIs(b)
<1> TAKE b \in 0 .. 255
<1>1. /\ b < 128         => LeadBits(b) = b % 128
      /\ b \in 192 .. 223 => LeadBits(b) = b % 32
      /\ b \in 224 .. 239 => LeadBits(b) = b % 16
      /\ b \in 240 .. 247 => LeadBits(b) = b % 8
  BY Widths DEF LeadBits
<1> QED BY <1>1, Modulo DEF LeadIs

LEMMA Ranges ==
  \A low, high \in Nat :
    /\ Between(1, low, high) <=> low <= 127
    /\ Between(2, low, high) <=> low <= 2047 /\ 128 <= high
    /\ Between(3, low, high) <=> (low <= 55295 /\ 2048 <= high) \/ (low <= 65535 /\ 57344 <= high)
    /\ Between(4, low, high) <=> low <= 1114111 /\ 65536 <= high
BY SMTT(60) DEF Between, ScalarRanges

\* The bits of a byte that there is, or any.
LEMMA AnyBits ==
  ASSUME NEW s \in Seq(Bytes), NEW k \in Nat \ {0}, NEW z \in 0 .. Len(s)
  PROVE  \E d \in 0 .. 63 : \E e \in 0 .. 63 :
           /\ d = TailBits(s, k, z, 0) /\ e = TailBits(s, k, z, 63)
           /\ d = e \/ (d = 0 /\ e = 63)
           /\ z < k => d = 0 /\ e = 63
<1>1. CASE k <= z
  <2>4. k \in 1 .. Len(s)
    BY <1>1
  <2>1. PICK t \in 0 .. 255 : t = s[k]
    BY <2>4, ByteAt
  <2>2. PICK d \in 0 .. 63 : d = t % 64
    BY Modulo
  <2>3. d = TailBits(s, k, z, 0) /\ d = TailBits(s, k, z, 63)
    BY <1>1, <2>1, <2>2 DEF TailBits
  <2> HIDE <2>2
  <2> QED BY <1>1, <2>3
<1>2. CASE ~ k <= z
  <2>1. TailBits(s, k, z, 0) = 0 /\ TailBits(s, k, z, 63) = 63
    BY <1>2 DEF TailBits
  <2> QED BY <2>1
<1> QED BY <1>1, <1>2

LEMMA StartsBegins ==
  ASSUME NEW s \in Seq(Bytes), NEW a \in 1 .. Len(s), NEW z \in a .. Len(s)
  PROVE  Starts(s, a, z) <=> Begins(s, a, z)
<1>1. PICK b \in 0 .. 255 : b = s[a]
  BY ByteAt, SMTT(60)
<1>2. PICK w \in 0 .. 4 : w = Width(b)
  BY SMTT(60) DEF Width
<1>3. PICK l : l = LeadBits(b)
  BY SMTT(60)
<1>19. /\ b < 128         => l = b
       /\ b \in 192 .. 223 => l = b - 192
       /\ b \in 224 .. 239 => l = b - 224
       /\ b \in 240 .. 247 => l = b - 240
  <2>1. LeadIs(b)
    BY Leads
  <2> QED BY <1>3, <2>1, SMTT(60) DEF LeadIs
<1>18. /\ a + 1 \in Nat \ {0} /\ a + 2 \in Nat \ {0} /\ a + 3 \in Nat \ {0}
       /\ z \in 0 .. Len(s)
  BY SMTT(60)
<1>4. PICK c0 \in 0 .. 63, c1 \in 0 .. 63 :
           /\ c0 = TailBits(s, a + 1, z, 0) /\ c1 = TailBits(s, a + 1, z, 63)
           /\ c0 = c1 \/ (c0 = 0 /\ c1 = 63)
           /\ z < a + 1 => c0 = 0 /\ c1 = 63
  BY <1>18, AnyBits
<1>5. PICK d0 \in 0 .. 63, d1 \in 0 .. 63 :
           /\ d0 = TailBits(s, a + 2, z, 0) /\ d1 = TailBits(s, a + 2, z, 63)
           /\ d0 = d1 \/ (d0 = 0 /\ d1 = 63)
           /\ z < a + 2 => d0 = 0 /\ d1 = 63
  BY <1>18, AnyBits
<1>6. PICK e0 \in 0 .. 63, e1 \in 0 .. 63 :
           /\ e0 = TailBits(s, a + 3, z, 0) /\ e1 = TailBits(s, a + 3, z, 63)
           /\ e0 = e1 \/ (e0 = 0 /\ e1 = 63)
           /\ z < a + 3 => e0 = 0 /\ e1 = 63
  BY <1>18, AnyBits
<1>7. PICK tailed \in BOOLEAN : tailed <=> \A k \in a + 1 .. z : s[k] \in 128 .. 191
  OBVIOUS
<1>8. PICK n \in 1 .. Len(s) : n = z - a + 1
  BY SMTT(60)
<1>9. PICK t \in Nat : /\ n > 1 => t = s[a + 1]
                       /\ n > 1 /\ tailed => t \in 128 .. 191 /\ c0 = t - 128 /\ c1 = t - 128
  <2>1. CASE n > 1
    <3>6. a + 1 \in 1 .. Len(s)
      BY <1>8, <2>1, SMTT(60)
    <3>1. PICK t \in 0 .. 255 : t = s[a + 1]
      BY <3>6, ByteAt, SMTT(60)
    <3>2. tailed => t \in 128 .. 191
      BY <1>7, <1>8, <2>1, <3>1, SMTT(60)
    <3>3. PICK c \in 0 .. 63 : c = t % 64
      BY Modulo, SMTT(60)
    <3>4. TailBits(s, a + 1, z, 0) = c /\ TailBits(s, a + 1, z, 63) = c
      BY <1>8, <2>1, <3>1, <3>3, SMTT(60) DEF TailBits
    <3>5. t \in 128 .. 191 => c = t - 128
      BY <3>3, Modulo, SMTT(60)
    <3>7. c0 = c /\ c1 = c
      BY <1>4, <3>4, SMTT(60)
    <3> HIDE <3>3, <1>4
    <3>8. tailed => c0 = t - 128 /\ c1 = t - 128
      BY <3>2, <3>5, <3>7, SMTT(60)
    <3>9. t \in Nat
      BY SMTT(60)
    <3>10. n > 1 => t = s[a + 1]
      BY <3>1, SMTT(60)
    <3>11. n > 1 /\ tailed => t \in 128 .. 191 /\ c0 = t - 128 /\ c1 = t - 128
      BY <3>2, <3>8, SMTT(60)
    <3> QED BY <3>9, <3>10, <3>11, Zenon
  <2>2. CASE ~ n > 1
    BY <2>2, SMTT(60)
  <2> QED BY <2>1, <2>2, SMTT(60)
<1>10. PICK fits \in BOOLEAN : fits <=> Between(w, Filled(s, a, z, 0), Filled(s, a, z, 63))
  OBVIOUS
<1>11. Starts(s, a, z) <=> w >= n /\ tailed /\ fits
  BY <1>1, <1>2, <1>7, <1>8, <1>10, SMTT(60) DEF Starts
<1>12. Begins(s, a, z) <=> b \in 0 .. 127 \cup 194 .. 244 /\ w >= n /\ tailed
       /\ (n > 1 => Second(b, t))
  <2>1. z > a <=> n > 1
    BY <1>8, SMTT(60)
  <2> QED BY <1>1, <1>2, <1>7, <1>8, <1>9, <2>1, SMTT(60) DEF Begins
<1>13. /\ n = 1 => c0 = 0 /\ c1 = 63 /\ d0 = 0 /\ d1 = 63 /\ e0 = 0 /\ e1 = 63
       /\ d0 = d1 \/ (d0 = 0 /\ d1 = 63)
       /\ e0 = e1 \/ (e0 = 0 /\ e1 = 63)
  BY <1>4, <1>5, <1>6, <1>8, SMTT(60)
<1>14. PICK x, y : x = Scalar(b, c0, d0, e0) /\ y = Scalar(b, c1, d1, e1)
  BY SMTT(60)
<1>15. fits <=> Between(w, x, y)
  BY <1>1, <1>4, <1>5, <1>6, <1>10, <1>14, SMTT(60) DEF Filled
<1>16. b < 128 \/ b \in 128 .. 191 \/ b \in 192 .. 223 \/ b \in 224 .. 239 \/ b \in 240 .. 247
       \/ b > 247
  BY SMTT(60)
<1>17. /\ w = 1 => x = l /\ y = l
       /\ w = 2 => x = 64 * l + c0 /\ y = 64 * l + c1
       /\ w = 3 => x = 4096 * l + 64 * c0 + d0 /\ y = 4096 * l + 64 * c1 + d1
       /\ w = 4 => x = 262144 * l + 4096 * c0 + 64 * d0 + e0
          /\ y = 262144 * l + 4096 * c1 + 64 * d1 + e1
  <2>1. w = 1 => x = l /\ y = l
    BY <1>2, <1>3, <1>14, SMTT(60) DEF Scalar
  <2>2. w = 2 => x = 64 * l + c0 /\ y = 64 * l + c1
    BY <1>2, <1>3, <1>14, SMTT(60) DEF Scalar
  <2>3. w = 3 => x = 4096 * l + 64 * c0 + d0 /\ y = 4096 * l + 64 * c1 + d1
    BY <1>2, <1>3, <1>14, SMTT(60) DEF Scalar
  <2>4. w = 4 => x = 262144 * l + 4096 * c0 + 64 * d0 + e0 /\ y
          = 262144 * l + 4096 * c1 + 64 * d1 + e1
    BY <1>2, <1>3, <1>14, SMTT(60) DEF Scalar
  <2> QED BY <2>1, <2>2, <2>3, <2>4, SMTT(60)
<1>20. CASE b < 128
  <2>7. w = 1
    BY <1>2, <1>20, Widths
  <2>1. w = 1 /\ l = b
    BY <2>7, <1>19, <1>20, SMTT(60)
  <2> HIDE <1>1, <1>2, <1>3, <1>14
  <2>2. x = b /\ y = b
    BY <1>17, <2>1, SMTT(60)
  <2>3. fits
    BY <1>15, <1>20, <2>1, <2>2, Ranges, SMTT(60)
  <2> QED BY <1>11, <1>12, <1>20, <2>1, <2>3, SMTT(60)
<1>21. CASE b \in 128 .. 191 \/ b > 247
  <2>1. w = 0
    BY <1>2, <1>21, Widths
  <2> QED BY <1>11, <1>12, <2>1, SMTT(60)
<1>22. CASE b \in 192 .. 223
  <2>7. w = 2
    BY <1>2, <1>22, Widths
  <2>1. w = 2 /\ l = b - 192
    BY <2>7, <1>19, <1>22, SMTT(60)
  <2> HIDE <1>1, <1>2, <1>3, <1>14
  <2>2. x = 64 * (b - 192) + c0 /\ y = 64 * (b - 192) + c1
    BY <1>17, <2>1, SMTT(60)
  <2>3. fits <=> x <= 2047 /\ 128 <= y
    BY <1>15, <1>22, <2>1, <2>2, Ranges, SMTT(60)
  <2>4. tailed => (fits <=> b >= 194)
    BY <1>9, <1>13, <1>22, <2>2, <2>3, SMTT(60)
  <2>5. n > 1 /\ tailed => Second(b, t)
    BY <1>9, <1>22, SMTT(60) DEF Second
  <2> QED BY <1>11, <1>12, <1>22, <2>4, <2>5, SMTT(60)
<1>23. CASE b \in 224 .. 239
  <2>7. w = 3
    BY <1>2, <1>23, Widths
  <2>1. w = 3 /\ l = b - 224
    BY <2>7, <1>19, <1>23, SMTT(60)
  <2> HIDE <1>1, <1>2, <1>3, <1>14
  <2>2. x = 4096 * (b - 224) + 64 * c0 + d0 /\ y = 4096 * (b - 224) + 64 * c1 + d1
    BY <1>17, <2>1, SMTT(60)
  <2>3. fits <=> (x <= 55295 /\ 2048 <= y) \/ (x <= 65535 /\ 57344 <= y)
    BY <1>15, <1>23, <2>1, <2>2, Ranges, SMTT(60)
  <2>4. n > 1 /\ tailed => (fits <=> (b = 224 => t >= 160) /\ (b = 237 => t <= 159))
    BY <1>9, <1>13, <1>23, <2>2, <2>3, SMTT(60)
  <2>5. n = 1 => fits
    BY <1>13, <1>23, <2>2, <2>3, SMTT(60)
  <2>6. n > 1 /\ tailed => (Second(b, t) <=> (b = 224 => t >= 160) /\ (b = 237 => t <= 159))
    BY <1>9, <1>23, SMTT(60) DEF Second
  <2> QED BY <1>11, <1>12, <1>23, <2>4, <2>5, <2>6, SMTT(60)
<1>24. CASE b \in 240 .. 247
  <2>7. w = 4
    BY <1>2, <1>24, Widths
  <2>1. w = 4 /\ l = b - 240
    BY <2>7, <1>19, <1>24, SMTT(60)
  <2> HIDE <1>1, <1>2, <1>3, <1>14
  <2>2. /\ x = 262144 * (b - 240) + 4096 * c0 + 64 * d0 + e0
        /\ y = 262144 * (b - 240) + 4096 * c1 + 64 * d1 + e1
    BY <1>17, <2>1, SMTT(60)
  <2>3. fits <=> x <= 1114111 /\ 65536 <= y
    BY <1>15, <1>24, <2>1, <2>2, Ranges, SMTT(60)
  <2>4. n > 1 /\ tailed => (fits <=> b <= 244 /\ (b = 240 => t >= 144) /\ (b = 244 => t <= 143))
    BY <1>9, <1>13, <1>24, <2>2, <2>3, SMTT(60)
  <2>5. n = 1 => (fits <=> b <= 244)
    BY <1>13, <1>24, <2>2, <2>3, SMTT(60)
  <2>6. n > 1 /\ tailed => (Second(b, t) <=> (b = 240 => t >= 144) /\ (b = 244 => t <= 143))
    BY <1>9, <1>24, SMTT(60) DEF Second
  <2> QED BY <1>11, <1>12, <1>24, <2>4, <2>5, <2>6, SMTT(60)
<1> QED BY <1>16, <1>20, <1>21, <1>22, <1>23, <1>24, SMTT(60)

USE SerializerAssumption DEF Room, UTF8_ACCEPT, UTF8_REJECT

-----------------------------------------------------------------------------
(* decode. *)

LEMMA TypeOfType == ASSUME NEW b \in Bytes PROVE TypeOf(b) \in 0 .. 11
BY DEF Bytes, TypeOf

LEMMA FirstStateType == ASSUME NEW type \in 0 .. 11 PROVE FirstState(type) \in 0 .. 8
<1>1. type \in {0, 1, 2, 3, 4, 5, 6, 7, 8, 9, 10, 11}
  OBVIOUS
<1> QED
  BY <1>1 DEF FirstState

\* A byte leads to a state that asks for fewer bytes, or is a first byte.
LEMMA NextStateType ==
  ASSUME NEW from \in 0 .. 8, from # 1, NEW b \in Bytes
  PROVE  /\ NextState(from, b) \in 0 .. 8
         /\ from = 2 => NextState(from, b) \in {0, 1}
         /\ from \in 3 .. 5 => NextState(from, b) \in {1, 2}
         /\ from \in 6 .. 8 => NextState(from, b) \in {1, 3}
<1>1. TypeOf(b) \in 0 .. 11
  BY TypeOfType
<1>2. from = 0 => NextState(from, b) \in 0 .. 8
  BY <1>1, FirstStateType DEF NextState
<1>3. from # 0 => NextState(from, b) \in {0, 1, 2, 3}
  BY DEF NextState
<1> QED
  BY <1>2, <1>3 DEF NextState

LEMMA FirstBitsType == ASSUME NEW b \in Bytes PROVE FirstBits(b) \in Nat
<1>1. TypeOf(b) \in {0, 1, 2, 3, 4, 5, 6, 7, 8, 9, 10, 11}
  BY TypeOfType
<1> QED
  BY <1>1 DEF FirstBits, Bytes

LEMMA NextCodepointType ==
  ASSUME codepoint \in Nat, NEW b \in Bytes
  PROVE  NextCodepoint(b) \in Nat
BY FirstBitsType DEF NextCodepoint, Bytes

-----------------------------------------------------------------------------
(* What is written for one code point. *)

LEMMA ConcatType ==
  ASSUME NEW s \in Seq(Bytes), NEW t \in Seq(Bytes)
  PROVE  s \o t \in Seq(Bytes) /\ Len(s \o t) = Len(s) + Len(t)
OBVIOUS

LEMMA Hex4Type ==
  ASSUME NEW n \in Nat
  PROVE  Hex4(n) \in Seq(Bytes) /\ Len(Hex4(n)) = 6
<1>1. \A k \in 0 .. 15 : HexDigit(k) \in Bytes
  BY DEF HexDigit, Bytes
<1>2. n \div 4096 \in Nat /\ n \div 256 \in Nat /\ n \div 16 \in Nat
  OBVIOUS
<1>3. \A m \in Nat : m % 16 \in 0 .. 15
  OBVIOUS
<1>4. /\ HexDigit((n \div 4096) % 16) \in Bytes
      /\ HexDigit((n \div 256) % 16) \in Bytes
      /\ HexDigit((n \div 16) % 16) \in Bytes
      /\ HexDigit(n % 16) \in Bytes
  BY <1>1, <1>2, <1>3
<1>5. Backslash \in Bytes /\ 117 \in Bytes
  BY DEF Backslash, Bytes
<1> QED
  BY <1>4, <1>5 DEF Hex4

LEMMA ShortEscapeType ==
  ASSUME NEW cp, HasShortEscape(cp)
  PROVE  ShortEscape(cp) \in Seq(Bytes) /\ Len(ShortEscape(cp)) = 2
<1>1. PICK e \in ShortEscapes : e = (CHOOSE f \in ShortEscapes : f[1] = cp)
  BY DEF HasShortEscape
<1>2. e[2] \in Bytes /\ Backslash \in Bytes
  BY DEF ShortEscapes, Bytes, Quote, Backslash
<1> QED
  BY <1>1, <1>2 DEF ShortEscape

\* An escape by number has six bytes, or twelve if all is to be ASCII; with the
\* null byte behind it that makes 13 at most, and 7 otherwise.
LEMMA EscapedType ==
  ASSUME NEW cp \in Nat, NEW b \in Bytes, ensure_ascii \in BOOLEAN
  PROVE  /\ Escaped(cp, b) \in Seq(Bytes)
         /\ Len(Escaped(cp, b)) <= Cells(cp, b)
         /\ Cells(cp, b) <= 13
         /\ ~ensure_ascii => Cells(cp, b) <= 7
<1>1. CASE HasShortEscape(cp)
  <2>1. Escaped(cp, b) = ShortEscape(cp)
    BY <1>1 DEF Escaped
  <2>2. ~ByNumber(cp)
    BY <1>1 DEF ByNumber
  <2>3. ShortEscape(cp) \in Seq(Bytes) /\ Len(ShortEscape(cp)) = 2
    BY <1>1, ShortEscapeType
  <2> QED
    BY <2>1, <2>2, <2>3 DEF Cells
<1>2. CASE ~HasShortEscape(cp) /\ ~ByNumber(cp)
  BY <1>2 DEF Escaped, Cells
<1>3. CASE ByNumber(cp) /\ cp <= 65535
  <2>1. ~HasShortEscape(cp)
    BY <1>3 DEF ByNumber
  <2>2. Escaped(cp, b) = Hex4(cp)
    BY <1>3, <2>1 DEF Escaped
  <2>3. Hex4(cp) \in Seq(Bytes) /\ Len(Hex4(cp)) = 6
    BY Hex4Type
  <2> QED
    BY <1>3, <2>2, <2>3 DEF Cells
<1>4. CASE ByNumber(cp) /\ cp > 65535
  <2>1. ensure_ascii /\ ~HasShortEscape(cp)
    BY <1>4 DEF ByNumber
  <2> DEFINE high == 55232 + (cp \div 1024)
             low  == 56320 + (cp % 1024)
  <2>2. high \in Nat /\ low \in Nat
    OBVIOUS
  <2>3. ~(cp <= 65535)
    BY <1>4
  <2>4. Escaped(cp, b) = Hex4(high) \o Hex4(low)
    BY <1>4, <2>1, <2>3 DEF Escaped
  <2> HIDE DEF high, low
  <2> DEFINE one == Hex4(high)
             two == Hex4(low)
             both == one \o two
  <2>5. one \in Seq(Bytes) /\ two \in Seq(Bytes)
    BY <2>2, Hex4Type
  <2>6. Len(one) = 6 /\ Len(two) = 6
    BY <2>2, Hex4Type
  <2> HIDE DEF one, two
  <2>7. both \in Seq(Bytes) /\ Len(both) = Len(one) + Len(two)
    BY <2>5, ConcatType
  <2>8. Escaped(cp, b) = both
    BY <2>4 DEF one, two
  <2> HIDE DEF both
  <2>9. Escaped(cp, b) \in Seq(Bytes) /\ Len(Escaped(cp, b)) = 12
    BY <2>6, <2>7, <2>8
  <2> QED
    BY <1>4, <2>1, <2>9 DEF Cells
<1> QED
  BY <1>1, <1>2, <1>3, <1>4

LEMMA ReplacementType ==
  Replacement \in Seq(Bytes) /\ Len(Replacement) <= 6
<1>1. CASE ensure_ascii
  <2>1. Replacement = Hex4(65533)
    BY <1>1 DEF Replacement
  <2>2. Hex4(65533) \in Seq(Bytes) /\ Len(Hex4(65533)) = 6
    BY Hex4Type
  <2>3. Replacement \in Seq(Bytes) /\ Len(Replacement) = 6
    BY <2>1, <2>2
  <2> QED
    BY <2>3
<1>2. CASE ~ensure_ascii
  <2>1. Replacement = ReplacementBytes
    BY <1>2 DEF Replacement
  <2>2. ReplacementBytes \in Seq(Bytes) /\ Len(ReplacementBytes) = 3
    BY DEF Bytes, ReplacementBytes
  <2> QED
    BY <2>1, <2>2
<1> QED
  BY <1>1, <1>2

\* After the look at the room that is left there are 13 bytes.
LEMMA AcceptedLeavesRoom ==
  ASSUME NEW b \in Seq(Bytes), o \in Seq(Bytes), Accepted(b)
  PROVE  /\ string_buffer' \in Seq(Bytes)
         /\ o' \in Seq(Bytes)
         /\ bytes_after_last_accept' = Len(string_buffer')
         /\ bytes_after_last_accept' \in Nat
         /\ bytes_after_last_accept' <= BufferSize - Room
         /\ undumped_chars' = 0
<1>1. CASE BufferSize - Len(b) < Room
  <2>1. string_buffer' = <<>> /\ o' = o \o b
    BY <1>1 DEF Accepted
  <2>2. o' \in Seq(Bytes)
    BY <2>1
  <2>3. bytes_after_last_accept' = Len(string_buffer') /\ undumped_chars' = 0
    BY DEF Accepted
  <2>4. string_buffer' \in Seq(Bytes) /\ Len(string_buffer') = 0
    BY <2>1
  <2> QED
    BY <2>2, <2>3, <2>4
<1>2. CASE ~(BufferSize - Len(b) < Room)
  BY <1>2 DEF Accepted
<1> QED
  BY <1>1, <1>2

-----------------------------------------------------------------------------
(* The invariant. *)

LEMMA InitBuffer == DumpInit => BufferInv
BY DEF DumpInit, NewString, BufferInv, DumpTypeOK, StringBufferFits, Needed

\* The bytes of the string under way are bytes.
LEMMA ByteType == ASSUME BufferInv, MoreBytes PROVE byte \in Bytes
<1>1. todo \in Seq(Piece) /\ todo # <<>>
  BY DEF BufferInv, DumpTypeOK, MoreBytes, InString, Dumping
<1>2. Head(todo) \in Piece
  BY <1>1
<1>3. str \in Seq(Bytes) /\ i \in Nat
  BY <1>2 DEF str, Piece, BufferInv, DumpTypeOK
<1> QED
  BY <1>3 DEF byte, MoreBytes

\* A new string begins with an empty buffer.
LEMMA StartStringInv ==
  ASSUME BufferInv, StartString, NextPiece, todo # <<>>, o' \in Seq(Bytes)
  PROVE  BufferInv'
<1>1. Tail(todo) \in Seq(Piece)
  BY DEF BufferInv, DumpTypeOK
<1> QED
  BY <1>1 DEF BufferInv, DumpTypeOK, StringBufferFits, StartString, NextPiece, Needed

LEMMA AcceptByteInv == ASSUME BufferInv, AcceptByte PROVE BufferInv'
<1> DEFINE cp == NextCodepoint(byte)
           e  == Escaped(cp, byte)
<1>1. byte \in Bytes
  BY ByteType DEF AcceptByte
<1>2. cp \in Nat
  BY <1>1, NextCodepointType DEF BufferInv, DumpTypeOK
<1>3. /\ e \in Seq(Bytes)
      /\ Len(e) <= Cells(cp, byte)
      /\ Cells(cp, byte) <= 13
      /\ ~ensure_ascii => Cells(cp, byte) <= 7
  BY <1>1, <1>2, EscapedType DEF BufferInv, DumpTypeOK
<1> HIDE DEF cp, e
<1>4. Accepted(string_buffer \o e)
  BY DEF AcceptByte, cp, e
<1>5. string_buffer \o e \in Seq(Bytes)
  BY <1>3 DEF BufferInv, DumpTypeOK
<1>6. /\ string_buffer' \in Seq(Bytes)
      /\ o' \in Seq(Bytes)
      /\ bytes_after_last_accept' = Len(string_buffer')
      /\ bytes_after_last_accept' \in Nat
      /\ bytes_after_last_accept' <= BufferSize - Room
      /\ undumped_chars' = 0
  BY <1>4, <1>5, AcceptedLeavesRoom DEF BufferInv, DumpTypeOK
<1>7. Cells(cp, byte) \in Nat
  BY <1>3 DEF Cells, e
<1>8. /\ reach' = Len(string_buffer) + Cells(cp, byte)
      /\ codepoint' = cp
      /\ state' = 0
      /\ i' = i + 1
      /\ UNCHANGED <<todo, ensure_ascii, error_handler, outcome>>
  BY DEF AcceptByte, cp
<1>9. Len(string_buffer) <= BufferSize - 13 + (IF ensure_ascii THEN 0 ELSE 4)
  BY DEF BufferInv, DumpTypeOK, Needed
<1>10. reach' \in Nat /\ reach' <= BufferSize
  BY <1>3, <1>7, <1>8, <1>9, SMTT(30) DEF BufferInv, DumpTypeOK
<1> QED
  BY <1>2, <1>6, <1>8, <1>10 DEF BufferInv, DumpTypeOK, StringBufferFits, Needed

LEMMA RejectByteInv == ASSUME BufferInv, RejectByte PROVE BufferInv'
<1> DEFINE kept == SubSeq(string_buffer, 1, bytes_after_last_accept)
<1>1. byte \in Bytes
  BY ByteType DEF RejectByte
<1>2. codepoint' \in Nat
  BY <1>1, NextCodepointType DEF RejectByte, BufferInv, DumpTypeOK
<1>3. bytes_after_last_accept \in 0 .. Len(string_buffer)
  BY DEF BufferInv, DumpTypeOK
<1>4. kept \in Seq(Bytes) /\ Len(kept) = bytes_after_last_accept
  BY <1>3 DEF BufferInv, DumpTypeOK
<1> HIDE DEF kept
<1>5. /\ i' \in Nat
      /\ state' = 0
      /\ Ignore(kept) \/ Replace(kept)
      /\ UNCHANGED <<todo, ensure_ascii, error_handler, outcome>>
  BY DEF RejectByte, ReadAgain, BufferInv, DumpTypeOK, kept
<1>6. CASE Ignore(kept)
  BY <1>2, <1>4, <1>5, <1>6 DEF Ignore, BufferInv, DumpTypeOK, StringBufferFits, Needed
<1>7. CASE Replace(kept)
  <2>1. kept \o Replacement \in Seq(Bytes)
    BY <1>4, ReplacementType
  <2>2. /\ string_buffer' \in Seq(Bytes)
        /\ o' \in Seq(Bytes)
        /\ bytes_after_last_accept' = Len(string_buffer')
        /\ bytes_after_last_accept' \in Nat
        /\ bytes_after_last_accept' <= BufferSize - Room
        /\ undumped_chars' = 0
    BY <1>7, <2>1, AcceptedLeavesRoom DEF Replace, BufferInv, DumpTypeOK
  <2>3. reach' \in Nat /\ reach' <= BufferSize
    BY <1>4, <1>7, ReplacementType DEF Replace, BufferInv, DumpTypeOK
  <2> QED
    BY <1>2, <1>5, <2>2, <2>3 DEF BufferInv, DumpTypeOK, StringBufferFits, Needed
<1> QED
  BY <1>5, <1>6, <1>7

LEMMA IncompleteByteInv == ASSUME BufferInv, IncompleteByte PROVE BufferInv'
<1>1. byte \in Bytes
  BY ByteType DEF IncompleteByte
<1>2. codepoint' \in Nat
  BY <1>1, NextCodepointType DEF IncompleteByte, BufferInv, DumpTypeOK
<1>3. state' = NextState(state, byte) /\ state' \notin {0, 1}
  BY DEF IncompleteByte, NewState
<1>4. state \in 0 .. 8 /\ state # 1
  BY DEF BufferInv, DumpTypeOK
<1>5. /\ state' \in 2 .. 8
      /\ state = 2 => FALSE
      /\ state \in 3 .. 5 => state' = 2
      /\ state \in 6 .. 8 => state' = 3
  BY <1>1, <1>3, <1>4, NextStateType
<1>6. undumped_chars' = undumped_chars + 1 /\ undumped_chars' + Needed' <= 4
  <2>1. undumped_chars' = undumped_chars + 1
    BY DEF IncompleteByte
  <2>2. Needed' <= 3
    BY <1>5 DEF Needed
  <2>3. CASE state = 0
    BY <2>1, <2>2, <2>3 DEF BufferInv, DumpTypeOK, Needed
  <2>4. CASE state \in 3 .. 5
    BY <1>5, <2>1, <2>4 DEF BufferInv, DumpTypeOK, Needed
  <2>5. CASE state \in 6 .. 8
    BY <1>5, <2>1, <2>5 DEF BufferInv, DumpTypeOK, Needed
  <2> QED
    BY <1>4, <1>5, <2>1, <2>3, <2>4, <2>5
<1>7. /\ string_buffer' \in Seq(Bytes)
      /\ Len(string_buffer') = Len(string_buffer) + (IF ensure_ascii THEN 0 ELSE 1)
  BY <1>1 DEF IncompleteByte, BufferInv, DumpTypeOK
<1>8. undumped_chars' <= 3
  BY <1>5, <1>6 DEF Needed, BufferInv, DumpTypeOK
<1> QED
  BY <1>2, <1>5, <1>6, <1>7, <1>8
  DEF IncompleteByte, BufferInv, DumpTypeOK, StringBufferFits

LEMMA EndStringInv == ASSUME BufferInv, EndString PROVE BufferInv'
<1>1. SubSeq(string_buffer, 1, bytes_after_last_accept) \in Seq(Bytes)
  BY DEF BufferInv, DumpTypeOK
<1> DEFINE kept == SubSeq(string_buffer, 1, bytes_after_last_accept)
           tail == IF error_handler = "replace" THEN Replacement ELSE <<>>
<1>2. /\ o \in Seq(Bytes)
      /\ string_buffer \in Seq(Bytes)
      /\ tail \in Seq(Bytes)
  BY ReplacementType DEF BufferInv, DumpTypeOK
<1>3. \/ o' = o \o string_buffer
      \/ o' = (o \o kept) \o tail
  BY DEF EndString
<1> HIDE DEF kept, tail
<1>4. kept \in Seq(Bytes)
  BY <1>1 DEF kept
<1>5. o \o string_buffer \in Seq(Bytes)
  BY <1>2, ConcatType
<1>6. o \o kept \in Seq(Bytes)
  BY <1>2, <1>4, ConcatType
<1>7. (o \o kept) \o tail \in Seq(Bytes)
  BY <1>2, <1>6, ConcatType
<1>8. o' \in Seq(Bytes)
  BY <1>3, <1>5, <1>7
<1> QED
  BY <1>8, StartStringInv DEF EndString, InString, Dumping

LEMMA WriteRawInv == ASSUME BufferInv, WriteRaw PROVE BufferInv'
<1>1. Head(todo) \in Piece /\ Tail(todo) \in Seq(Piece)
  BY DEF WriteRaw, Dumping, BufferInv, DumpTypeOK
<1>2. Head(todo).bytes \in Seq(Bytes)
  BY <1>1 DEF Piece
<1>3. o' \in Seq(Bytes)
  BY <1>2 DEF WriteRaw, BufferInv, DumpTypeOK
<1> QED
  BY <1>1, <1>3 DEF WriteRaw, NextPiece, stringVars, BufferInv, DumpTypeOK, StringBufferFits, Needed

LEMMA NextBuffer == BufferInv /\ [DumpNext]_dumpVars => BufferInv'
<1> SUFFICES ASSUME BufferInv, [DumpNext]_dumpVars PROVE BufferInv'
  OBVIOUS
<1>1. CASE AcceptByte
  BY <1>1, AcceptByteInv
<1>2. CASE RejectStrict \/ EndStrict \/ Return
  <2>1. UNCHANGED <<todo, ensure_ascii, error_handler, stringVars, o>>
    BY <1>2 DEF RejectStrict, EndStrict, Return
  <2>2. outcome' \in {"thrown", "done"}
    BY <1>2 DEF RejectStrict, EndStrict, Return
  <2> QED
    BY <2>1, <2>2 DEF stringVars, BufferInv, DumpTypeOK, StringBufferFits, Needed
<1>3. CASE RejectByte
  BY <1>3, RejectByteInv
<1>4. CASE IncompleteByte
  BY <1>4, IncompleteByteInv
<1>5. CASE EndString
  BY <1>5, EndStringInv
<1>6. CASE WriteRaw
  BY <1>6, WriteRawInv
<1>7. CASE UNCHANGED dumpVars
  BY <1>7 DEF dumpVars, stringVars, BufferInv, DumpTypeOK, StringBufferFits, Needed
<1> QED
  BY <1>1, <1>2, <1>3, <1>4, <1>5, <1>6, <1>7 DEF DumpNext

\* No write of dump_escaped leaves string_buffer, and 13 bytes are left behind
\* every code point that was accepted.
THEOREM BufferInvariant == DumpSpec => []BufferInv
BY InitBuffer, NextBuffer, PTL DEF DumpSpec

\* string_buffer is large enough.
THEOREM BufferFits == DumpSpec => []StringBufferFits
<1>1. BufferInv => StringBufferFits
  BY DEF BufferInv
<1> QED
  BY <1>1, BufferInvariant, PTL

HIDE SerializerAssumption DEF Room

-----------------------------------------------------------------------------
(* The decoder and the standard: what has been read of a scalar value. *)

\* The state of decode behind n bytes of the sequence that begins with lead.
StateAfter(lead, n) == IF n = 1 THEN NextState(0, lead) ELSE IF n = 2 /\ lead >= 240 THEN 3 ELSE 2

FirstGoes(b) ==
  /\ b < 128              => NextState(0, b) = 0
  /\ b \in 128 .. 193      => NextState(0, b) = 1
  /\ b \in 194 .. 223      => NextState(0, b) = 2
  /\ b = 224              => NextState(0, b) = 4
  /\ b \in 225 .. 239 /\ b # 237 => NextState(0, b) = 3
  /\ b = 237              => NextState(0, b) = 5
  /\ b = 240              => NextState(0, b) = 6
  /\ b \in 241 .. 243      => NextState(0, b) = 7
  /\ b = 244              => NextState(0, b) = 8
  /\ b > 244              => NextState(0, b) = 1

LEMMA FirstByte == \A b \in 0 .. 255 : FirstGoes(b)
<1> TAKE b \in 0 .. 255
<1>1. /\ FirstState(0) = 0 /\ FirstState(1) = 1 /\ FirstState(2) = 2 /\ FirstState(3) = 3
      /\ FirstState(4) = 5 /\ FirstState(5) = 8 /\ FirstState(6) = 7 /\ FirstState(7) = 1
      /\ FirstState(8) = 1 /\ FirstState(9) = 1 /\ FirstState(10) = 4 /\ FirstState(11) = 6
  BY DEF FirstState
<1>2. NextState(0, b) = FirstState(TypeOf(b))
  BY DEF NextState
<1>3. CASE b < 128
  <2>1. TypeOf(b) = 0
    BY <1>3 DEF TypeOf
  <2> QED BY <1>1, <1>2, <1>3, <2>1 DEF FirstGoes
<1>4. CASE b \in 128 .. 193
  <2>1. TypeOf(b) \in {1, 7, 8, 9}
    BY <1>4 DEF TypeOf
  <2> QED BY <1>1, <1>2, <1>4, <2>1 DEF FirstGoes
<1>5. CASE b \in 194 .. 223
  <2>1. TypeOf(b) = 2
    BY <1>5 DEF TypeOf
  <2> QED BY <1>1, <1>2, <1>5, <2>1 DEF FirstGoes
<1>6. CASE b = 224
  <2>1. TypeOf(b) = 10
    BY <1>6 DEF TypeOf
  <2> QED BY <1>1, <1>2, <1>6, <2>1 DEF FirstGoes
<1>7. CASE b \in 225 .. 239 /\ b # 237
  <2>1. TypeOf(b) = 3
    BY <1>7 DEF TypeOf
  <2> QED BY <1>1, <1>2, <1>7, <2>1 DEF FirstGoes
<1>8. CASE b = 237
  <2>1. TypeOf(b) = 4
    BY <1>8 DEF TypeOf
  <2> QED BY <1>1, <1>2, <1>8, <2>1 DEF FirstGoes
<1>9. CASE b = 240
  <2>1. TypeOf(b) = 11
    BY <1>9 DEF TypeOf
  <2> QED BY <1>1, <1>2, <1>9, <2>1 DEF FirstGoes
<1>10. CASE b \in 241 .. 243
  <2>1. TypeOf(b) = 6
    BY <1>10 DEF TypeOf
  <2> QED BY <1>1, <1>2, <1>10, <2>1 DEF FirstGoes
<1>11. CASE b = 244
  <2>1. TypeOf(b) = 5
    BY <1>11 DEF TypeOf
  <2> QED BY <1>1, <1>2, <1>11, <2>1 DEF FirstGoes
<1>12. CASE b > 244
  <2>1. TypeOf(b) = 8
    BY <1>12 DEF TypeOf
  <2> QED BY <1>1, <1>2, <1>12, <2>1 DEF FirstGoes
<1> QED BY <1>3, <1>4, <1>5, <1>6, <1>7, <1>8, <1>9, <1>10, <1>11, <1>12

NextGoes(b) ==
  /\ NextState(2, b) = IF b \in 128 .. 191 THEN 0 ELSE 1
  /\ NextState(3, b) = IF b \in 128 .. 191 THEN 2 ELSE 1
  /\ NextState(4, b) = IF b \in 160 .. 191 THEN 2 ELSE 1
  /\ NextState(5, b) = IF b \in 128 .. 159 THEN 2 ELSE 1
  /\ NextState(6, b) = IF b \in 144 .. 191 THEN 3 ELSE 1
  /\ NextState(7, b) = IF b \in 128 .. 191 THEN 3 ELSE 1
  /\ NextState(8, b) = IF b \in 128 .. 143 THEN 3 ELSE 1

LEMMA NextByte == \A b \in 0 .. 255 : NextGoes(b)
<1> TAKE b \in 0 .. 255
<1>1. /\ TypeOf(b) \in {1, 7, 9} <=> b \in 128 .. 191
      /\ TypeOf(b) = 7 <=> b \in 160 .. 191
      /\ TypeOf(b) \in {1, 9} <=> b \in 128 .. 159
      /\ TypeOf(b) \in {7, 9} <=> b \in 144 .. 191
      /\ TypeOf(b) = 1 <=> b \in 128 .. 143
  BY DEF TypeOf
<1>2. PICK t : t = TypeOf(b)
  OBVIOUS
<1>3. /\ NextState(2, b) = IF t \in {1, 7, 9} THEN 0 ELSE 1
      /\ NextState(3, b) = IF t \in {1, 7, 9} THEN 2 ELSE 1
      /\ NextState(4, b) = IF t = 7 THEN 2 ELSE 1
      /\ NextState(5, b) = IF t \in {1, 9} THEN 2 ELSE 1
      /\ NextState(6, b) = IF t \in {7, 9} THEN 3 ELSE 1
      /\ NextState(7, b) = IF t \in {1, 7, 9} THEN 3 ELSE 1
      /\ NextState(8, b) = IF t = 1 THEN 3 ELSE 1
  BY <1>2 DEF NextState, Follows
<1> QED BY <1>1, <1>2, <1>3 DEF NextGoes

\* decode reads on for as long as the bytes can be a scalar value's.
Reads(lead, n, b) ==
  LET next == NextState(StateAfter(lead, n), b)
      fits == IF n = 1 THEN Second(lead, b) ELSE b \in 128 .. 191
  IN /\ next = 1 <=> ~fits
     /\ fits => next = IF n + 1 = Width(lead) THEN 0 ELSE StateAfter(lead, n + 1)

LEMMA ReadsOn ==
  ASSUME NEW lead \in 194 .. 244, NEW n \in 1 .. 3, n < Width(lead), NEW b \in 0 .. 255
  PROVE  Reads(lead, n, b)
<1>1. FirstGoes(lead)
  BY FirstByte
<1>2. NextGoes(b)
  BY NextByte
<1>3. Width(lead) = IF lead < 224 THEN 2 ELSE IF lead < 240 THEN 3 ELSE 4
  BY DEF Width
<1>4. StateAfter(lead, 1) = NextState(0, lead)
  BY DEF StateAfter
<1>5. StateAfter(lead, 2) = IF lead >= 240 THEN 3 ELSE 2
  BY DEF StateAfter
<1>6. StateAfter(lead, 3) = 2
  BY DEF StateAfter
<1>7. CASE n = 1
  <2>1. CASE lead < 224
    <3>1. NextState(0, lead) = 2
      BY <1>1, <2>1 DEF FirstGoes
    <3>2. Second(lead, b) <=> b \in 128 .. 191
      BY <2>1 DEF Second
    <3> QED BY <1>2, <1>3, <1>4, <1>7, <2>1, <3>1, <3>2 DEF Reads, NextGoes
  <2>2. CASE lead \in 224 .. 239
    <3>1. NextState(0, lead) = IF lead = 224 THEN 4 ELSE IF lead = 237 THEN 5 ELSE 3
      BY <1>1, <2>2 DEF FirstGoes
    <3>2. Second(lead, b) <=> NextState(NextState(0, lead), b) # 1
      BY <1>2, <2>2, <3>1 DEF Second, NextGoes
    <3>3. NextState(NextState(0, lead), b) \in {1, 2}
      BY <1>2, <2>2, <3>1 DEF NextGoes
    <3>4. StateAfter(lead, 2) = 2 /\ Width(lead) = 3
      BY <1>3, <1>5, <2>2
    <3> QED BY <1>4, <1>7, <3>2, <3>3, <3>4 DEF Reads
  <2>3. CASE lead \in 240 .. 244
    <3>1. NextState(0, lead) = IF lead = 240 THEN 6 ELSE IF lead = 244 THEN 8 ELSE 7
      BY <1>1, <2>3 DEF FirstGoes
    <3>2. Second(lead, b) <=> NextState(NextState(0, lead), b) # 1
      BY <1>2, <2>3, <3>1 DEF Second, NextGoes
    <3>3. NextState(NextState(0, lead), b) \in {1, 3}
      BY <1>2, <2>3, <3>1 DEF NextGoes
    <3>4. StateAfter(lead, 2) = 3 /\ Width(lead) = 4
      BY <1>3, <1>5, <2>3
    <3> QED BY <1>4, <1>7, <3>2, <3>3, <3>4 DEF Reads
  <2> QED BY <2>1, <2>2, <2>3
<1>8. CASE n = 2
  <2>1. CASE lead < 240
    <3>1. Width(lead) = 3 /\ StateAfter(lead, 2) = 2
      BY <1>3, <1>5, <1>8, <2>1
    <3> QED BY <1>2, <1>8, <3>1 DEF Reads, NextGoes
  <2>2. CASE lead >= 240
    <3>1. Width(lead) = 4 /\ StateAfter(lead, 2) = 3
      BY <1>3, <1>5, <1>8, <2>2
    <3> QED BY <1>2, <1>6, <1>8, <3>1 DEF Reads, NextGoes
  <2> QED BY <2>1, <2>2
<1>9. CASE n = 3
  <2>1. Width(lead) = 4
    BY <1>3, <1>9
  <2> QED BY <1>2, <1>6, <1>9, <2>1 DEF Reads, NextGoes
<1> QED BY <1>7, <1>8, <1>9

LEMMA ScalarBegins ==
  ASSUME NEW s \in Seq(Bytes), NEW a \in 1 .. Len(s), NEW z \in a .. Len(s)
  PROVE  IsScalar(s, a, z) <=> Begins(s, a, z) /\ Width(s[a]) = z - a + 1
BY StartsBegins DEF IsScalar

\* Two scalar values of a sequence do not overlap.
LEMMA Apart ==
  ASSUME NEW s \in Seq(Bytes),
         NEW a \in 1 .. Len(s), NEW z \in a .. Len(s), IsScalar(s, a, z),
         NEW b \in a .. z, NEW y \in b .. Len(s), IsScalar(s, b, y)
  PROVE  b = a /\ y = z
<1>1. b \in 1 .. Len(s)
  OBVIOUS
<1>2. Begins(s, a, z) /\ Width(s[a]) = z - a + 1
  BY ScalarBegins
<1>3. Begins(s, b, y) /\ Width(s[b]) = y - b + 1
  BY <1>1, ScalarBegins
<1>4. s[b] \in 0 .. 127 \cup 194 .. 244
  BY <1>3 DEF Begins
<1>5. \A k \in a + 1 .. z : s[k] \in 128 .. 191
  BY <1>2 DEF Begins
<1>6. ~ b \in a + 1 .. z
  <2> SUFFICES ASSUME b \in a + 1 .. z PROVE FALSE
    OBVIOUS
  <2>1. PICK v : v = s[b]
    OBVIOUS
  <2>2. v \in 128 .. 191 /\ v \in 0 .. 127 \cup 194 .. 244
    BY <1>4, <1>5, <2>1
  <2> QED BY <2>2
<1>7. b = a
  BY <1>6
<1> QED BY <1>2, <1>3, <1>7

\* The first n bytes are scalar values.
Covered(s, n) == \A k \in 1 .. n : \E a \in 1 .. k : \E z \in k .. n : IsScalar(s, a, z)

LEMMA OneMore ==
  ASSUME NEW s \in Seq(Bytes), NEW n \in 0 .. Len(s) - 1, Covered(s, n),
         NEW y \in n + 1 .. Len(s), IsScalar(s, n + 1, y)
  PROVE  Covered(s, y)
<1> SUFFICES ASSUME NEW k \in 1 .. y
             PROVE  \E a \in 1 .. k : \E z \in k .. y : IsScalar(s, a, z)
  BY DEF Covered
<1>1. CASE k <= n
  <2>3. k \in 1 .. n
    BY <1>1
  <2>1. PICK a \in 1 .. k, z \in k .. n : IsScalar(s, a, z)
    BY <2>3 DEF Covered
  <2>2. z \in k .. y
    OBVIOUS
  <2> QED BY <2>1, <2>2
<1>2. CASE k > n
  <2>1. n + 1 \in 1 .. k /\ y \in k .. y
    BY <1>2
  <2> QED BY <2>1
<1> QED BY <1>1, <1>2

\* If all bytes are scalar values' and the first n are, one begins behind them.
LEMMA NextScalar ==
  ASSUME NEW s \in Seq(Bytes), NEW n \in 0 .. Len(s) - 1, Covered(s, n), WellFormed(s)
  PROVE  \E z \in n + 1 .. Len(s) : IsScalar(s, n + 1, z)
<1>1. n + 1 \in 1 .. Len(s)
  OBVIOUS
<1>2. PICK a \in 1 .. n + 1, z \in n + 1 .. Len(s) : IsScalar(s, a, z)
  BY <1>1 DEF WellFormed
<1>3. CASE a = n + 1
  BY <1>2, <1>3
<1>4. CASE a # n + 1
  <2>1. a \in 1 .. n
    BY <1>4
  <2>2. PICK b \in 1 .. a, y \in a .. n : IsScalar(s, b, y)
    BY <2>1 DEF Covered
  <2>3. b \in 1 .. Len(s) /\ y \in b .. Len(s) /\ a \in b .. y /\ z \in a .. Len(s)
    BY <2>1
  <2>4. z = y
    BY <1>2, <2>2, <2>3, Apart
  <2> QED BY <2>4
<1> QED BY <1>3, <1>4

\* i bytes of s were read, the last u of them are not yet accepted, and the
\* state of decode is q.
Decoding(s, n, u, q) ==
  /\ n \in 0 .. Len(s) /\ u \in 0 .. n
  /\ u = 0 => q = 0
  /\ u > 0 => /\ Begins(s, n - u + 1, n) /\ Width(s[n - u + 1]) > u
              /\ q = StateAfter(s[n - u + 1], u)
  /\ Covered(s, n - u)

LEMMA Pending ==
  ASSUME NEW s \in Seq(Bytes), NEW n, NEW u, NEW q, Decoding(s, n, u, q), u > 0
  PROVE  /\ n - u + 1 \in 1 .. Len(s) /\ s[n - u + 1] \in 194 .. 244
         /\ u \in 1 .. 3
         /\ q \in 2 .. 8
<1>1. n \in 0 .. Len(s) /\ u \in 1 .. n /\ n - u + 1 \in 1 .. Len(s)
  BY DEF Decoding
<1>2. PICK a \in 1 .. Len(s) : a = n - u + 1
  BY <1>1
<1>3. PICK b \in 0 .. 255 : b = s[a]
  BY ByteAt
<1>4. b \in 0 .. 127 \cup 194 .. 244 /\ Width(b) > u /\ q = StateAfter(b, u)
  BY <1>2, <1>3 DEF Decoding, Begins
<1>5. Width(b) = IF b < 128 THEN 1 ELSE IF b < 224 THEN 2 ELSE IF b < 240 THEN 3 ELSE 4
  BY <1>4 DEF Width
<1>6. b \in 194 .. 244 /\ u \in 1 .. 3
  BY <1>1, <1>4, <1>5, SMTT(30)
<1>7. FirstGoes(b)
  BY FirstByte
<1>8. q \in 2 .. 8
  <2>1. NextState(0, b) \in 2 .. 8
    BY <1>6, <1>7 DEF FirstGoes
  <2> QED BY <1>4, <1>6, <2>1 DEF StateAfter
<1> QED BY <1>1, <1>2, <1>3, <1>6, <1>8

LEMMA DecodeFirst ==
  ASSUME NEW s \in Seq(Bytes), NEW n \in 0 .. Len(s) - 1, Decoding(s, n, 0, 0),
         NEW r, r = NextState(0, s[n + 1])
  PROVE  /\ r = 0 => Decoding(s, n + 1, 0, 0)
         /\ r \notin {0, 1} => Decoding(s, n + 1, 1, r)
         /\ r = 1 => ~WellFormed(s)
<1>1. PICK a \in 1 .. Len(s) : a = n + 1
  OBVIOUS
<1>2. PICK b \in 0 .. 255 : b = s[a]
  BY ByteAt
<1>3. FirstGoes(b)
  BY FirstByte
<1>4. Covered(s, n)
  BY DEF Decoding
<1>5. r = NextState(0, b)
  BY <1>1, <1>2
<1>6. a \in a .. Len(s) /\ a - a + 1 = 1
  OBVIOUS
<1>7. Begins(s, a, a) <=> b \in 0 .. 127 \cup 194 .. 244
  <2>1. b \in 0 .. 127 \cup 194 .. 244 => Width(b) >= 1
    BY DEF Width
  <2>2. ~ a > a /\ a + 1 .. a = {}
    OBVIOUS
  <2> QED BY <1>2, <1>6, <2>1, <2>2 DEF Begins
<1>8. ASSUME r = 0 PROVE Decoding(s, n + 1, 0, 0)
  <2>1. b < 128
    BY <1>3, <1>5, <1>8 DEF FirstGoes
  <2>2. Width(b) = 1
    BY <2>1 DEF Width
  <2>3. IsScalar(s, a, a)
    <3>1. b \in 0 .. 127 \cup 194 .. 244
      BY <2>1
    <3>2. Begins(s, a, a) /\ Width(s[a]) = a - a + 1
      BY <1>2, <1>6, <1>7, <2>2, <3>1
    <3> QED BY <1>6, <3>2, ScalarBegins
  <2>4. Covered(s, n + 1)
    BY <1>1, <1>4, <1>6, <2>3, OneMore
  <2> QED BY <2>4 DEF Decoding
<1>9. ASSUME r \notin {0, 1} PROVE Decoding(s, n + 1, 1, r)
  <2>1. b \in 194 .. 244
    BY <1>3, <1>5, <1>9 DEF FirstGoes
  <2>2. Width(b) > 1
    BY <2>1 DEF Width
  <2>3. r = StateAfter(b, 1)
    BY <1>5 DEF StateAfter
  <2>4. n + 1 - 1 + 1 = a /\ n + 1 - 1 = n /\ n + 1 = a
    BY <1>1
  <2>5. Begins(s, a, a)
    BY <1>7, <2>1
  <2> QED BY <1>1, <1>2, <1>4, <2>2, <2>3, <2>4, <2>5 DEF Decoding
<1>10. ASSUME r = 1, WellFormed(s) PROVE FALSE
  <2>1. PICK z \in a .. Len(s) : IsScalar(s, a, z)
    BY <1>1, <1>4, <1>10, NextScalar
  <2>2. Begins(s, a, z)
    BY <2>1, ScalarBegins
  <2>3. b \in 0 .. 127 \cup 194 .. 244
    BY <1>2, <2>2 DEF Begins
  <2> QED BY <1>3, <1>5, <1>10, <2>3 DEF FirstGoes
<1> QED BY <1>8, <1>9, <1>10

LEMMA DecodeNext ==
  ASSUME NEW s \in Seq(Bytes), NEW n \in 0 .. Len(s) - 1, NEW u, NEW q, Decoding(s, n, u, q), u > 0,
         NEW r, r = NextState(q, s[n + 1])
  PROVE  /\ r = 0 => Decoding(s, n + 1, 0, 0)
         /\ r \notin {0, 1} => Decoding(s, n + 1, u + 1, r)
         /\ r = 1 => ~WellFormed(s)
<1>1. PICK a \in 1 .. Len(s) : a = n - u + 1
  BY Pending
<1>2. PICK lead \in 194 .. 244 : lead = s[a]
  BY <1>1, Pending, ZenonT(60)
<1>3. u \in 1 .. 3 /\ u \in 1 .. n
  <2>1. u \in 1 .. 3
    BY Pending
  <2>2. u \in 0 .. n
    BY DEF Decoding
  <2> QED BY <2>1, <2>2
<1>4. n + 1 \in a + 1 .. Len(s) /\ n + 1 - a = u
  BY <1>1, <1>3
<1>5. n + 1 \in 1 .. Len(s)
  OBVIOUS
<1>6. PICK b \in 0 .. 255 : b = s[n + 1]
  BY <1>5, ByteAt
<1>7. /\ Begins(s, a, n) /\ Width(lead) > u /\ q = StateAfter(lead, u) /\ Covered(s, n - u)
  BY <1>1, <1>2 DEF Decoding
<1>8. PICK fits : fits = IF u = 1 THEN Second(lead, b) ELSE b \in 128 .. 191
  OBVIOUS
<1>9. /\ r = 1 <=> ~fits
      /\ fits => r = IF u + 1 = Width(lead) THEN 0 ELSE StateAfter(lead, u + 1)
  <2>1. Reads(lead, u, b)
    BY <1>3, <1>7, ReadsOn
  <2> QED BY <1>6, <1>7, <1>8, <2>1 DEF Reads
<1>10. fits => b \in 128 .. 191
  BY <1>8 DEF Second
<1>11. fits /\ u + 1 <= Width(lead) => Begins(s, a, n + 1)
  <2> SUFFICES ASSUME fits, u + 1 <= Width(lead) PROVE Begins(s, a, n + 1)
    OBVIOUS
  <2>1. \A k \in a + 1 .. n : s[k] \in 128 .. 191
    BY <1>7 DEF Begins
  <2>2. \A k \in a + 1 .. n + 1 : s[k] \in 128 .. 191
    <3> TAKE k \in a + 1 .. n + 1
    <3>1. k \in a + 1 .. n \/ k = n + 1
      BY <1>4
    <3> QED BY <1>6, <1>10, <2>1, <3>1
  <2>3. Second(s[a], s[a + 1])
    <3>1. CASE u = 1
      <4>1. a + 1 = n + 1
        BY <1>4, <3>1
      <4> QED BY <1>2, <1>6, <1>8, <3>1, <4>1
    <3>2. CASE u > 1
      <4>1. n > a
        BY <1>3, <1>4, <3>2
      <4> QED BY <1>7, <4>1 DEF Begins
    <3> QED BY <1>3, <3>1, <3>2
  <2>4. lead \in 0 .. 127 \cup 194 .. 244
    OBVIOUS
  <2>5. Width(lead) >= n + 1 - a + 1
    <3>1. n + 1 - a + 1 = u + 1
      BY <1>1, <1>3
    <3>2. Width(lead) \in Nat
      BY DEF Width
    <3> QED BY <3>1, <3>2
  <2> QED BY <1>2, <2>2, <2>3, <2>4, <2>5 DEF Begins
<1>12. n + 1 - a + 1 = u + 1
  BY <1>1, <1>3
<1>13. Width(lead) \in Nat
  BY DEF Width
<1>14. ASSUME r = 0 PROVE Decoding(s, n + 1, 0, 0)
  <2>0. q \in 2 .. 8
    BY Pending
  <2>1. fits
    BY <1>9, <1>14
  <2>2. u + 1 = Width(lead)
    <3> SUFFICES ASSUME u + 1 # Width(lead) PROVE FALSE
      OBVIOUS
    <3>1. r = StateAfter(lead, u + 1)
      BY <1>9, <2>1
    <3>2. u + 1 # 1
      BY <1>3
    <3> QED BY <1>14, <3>1, <3>2 DEF StateAfter
  <2>3. Begins(s, a, n + 1)
    BY <1>11, <2>1, <2>2, <1>13
  <2>4. IsScalar(s, a, n + 1)
    <3>1. n + 1 \in a .. Len(s)
      BY <1>4
    <3> QED BY <1>2, <1>12, <2>2, <2>3, <3>1, ScalarBegins
  <2>5. Covered(s, n + 1)
    <3>1. n - u \in 0 .. Len(s) - 1 /\ n - u + 1 = a /\ n + 1 \in a .. Len(s)
      BY <1>1, <1>3, <1>4
    <3> QED BY <1>7, <2>4, <3>1, OneMore
  <2> QED BY <2>5 DEF Decoding
<1>15. ASSUME r \notin {0, 1} PROVE Decoding(s, n + 1, u + 1, r)
  <2>1. fits
    BY <1>9, <1>15
  <2>2. u + 1 # Width(lead) /\ r = StateAfter(lead, u + 1)
    BY <1>9, <1>15, <2>1
  <2>3. u + 1 < Width(lead)
    BY <1>3, <1>7, <1>13, <2>2
  <2>4. Begins(s, a, n + 1)
    BY <1>3, <1>11, <1>13, <2>1, <2>3
  <2>5. n + 1 - (u + 1) + 1 = a /\ n + 1 - (u + 1) = n - u /\ u + 1 \in 0 .. n + 1 /\ u + 1 > 0
        /\ u + 1 # 0
    BY <1>1, <1>3
  <2>6. n + 1 \in 0 .. Len(s)
    OBVIOUS
  <2> QED BY <1>2, <1>7, <2>2, <2>3, <2>4, <2>5, <2>6 DEF Decoding
<1>16. ASSUME r = 1, WellFormed(s) PROVE FALSE
  <2>1. n - u \in 0 .. Len(s) - 1 /\ n - u + 1 = a
    BY <1>1, <1>3
  <2>2. PICK z \in a .. Len(s) : IsScalar(s, a, z)
    BY <1>7, <1>16, <2>1, NextScalar
  <2>3. Begins(s, a, z) /\ Width(lead) = z - a + 1
    BY <1>2, <2>2, ScalarBegins
  <2>4. n + 1 \in a + 1 .. z
    BY <1>3, <1>4, <1>7, <2>3
  <2>5. b \in 128 .. 191
    BY <1>6, <2>3, <2>4 DEF Begins
  <2>6. u = 1 => Second(lead, b)
    <3> SUFFICES ASSUME u = 1 PROVE Second(lead, b)
      OBVIOUS
    <3>1. a + 1 = n + 1 /\ z > a
      BY <1>4, <2>4
    <3> QED BY <1>2, <1>6, <2>3, <3>1 DEF Begins
  <2> QED BY <1>8, <1>9, <1>16, <2>5, <2>6
<1> QED BY <1>14, <1>15, <1>16

LEMMA DecodeEnd ==
  ASSUME NEW s \in Seq(Bytes), NEW u, NEW q, Decoding(s, Len(s), u, q)
  PROVE  WellFormed(s) <=> q = 0
<1>1. CASE u = 0
  <2>1. q = 0 /\ Covered(s, Len(s))
    BY <1>1 DEF Decoding
  <2> QED BY <2>1 DEF Covered, WellFormed
<1>2. CASE u # 0
  <2>1. u > 0 /\ u \in 1 .. Len(s)
    BY <1>2 DEF Decoding
  <2>2. q # 0
    BY <2>1, Pending
  <2>3. PICK a \in 1 .. Len(s) : a = Len(s) - u + 1
    BY <2>1
  <2>4. Covered(s, a - 1) /\ Width(s[a]) > u
    BY <2>1, <2>3 DEF Decoding
  <2>5. ASSUME WellFormed(s) PROVE FALSE
    <3>1. a - 1 \in 0 .. Len(s) - 1 /\ a - 1 + 1 = a
      OBVIOUS
    <3>2. PICK z \in a .. Len(s) : IsScalar(s, a, z)
      BY <2>4, <2>5, <3>1, NextScalar
    <3>3. Width(s[a]) = z - a + 1
      BY <3>2, ScalarBegins
    <3> QED BY <2>1, <2>3, <2>4, <3>3
  <2> QED BY <2>2, <2>5
<1> QED BY <1>1, <1>2

-----------------------------------------------------------------------------
(* The strings in the pieces that dump writes are those of the message. *)

LEMMA ConcatOf ==
  ASSUME NEW E, NEW s \in Seq(E), NEW t \in Seq(E)
  PROVE  /\ s \o t \in Seq(E) /\ Len(s \o t) = Len(s) + Len(t)
         /\ Len(s) \in Nat /\ Len(t) \in Nat
         /\ DOMAIN s = 1 .. Len(s) /\ DOMAIN t = 1 .. Len(t)
            /\ DOMAIN (s \o t) = 1 .. Len(s) + Len(t)
         /\ \A k \in 1 .. Len(s) : (s \o t)[k] = s[k]
         /\ \A k \in 1 .. Len(t) : (s \o t)[Len(s) + k] = t[k]
OBVIOUS

\* The sums that FlattenSeq adds up.
LEMMA FlattenSums ==
  ASSUME NEW E, NEW ss \in Seq(Seq(E)), ss # <<>>
  PROVE  \E f \in [1 .. Len(ss) -> Seq(E)] :
           /\ f[1] = ss[1]
           /\ \A k \in 2 .. Len(ss) : f[k] = f[k - 1] \o ss[k]
           /\ FlattenSeq(ss) = f[Len(ss)]
<1> DEFINE n == Len(ss)
           S == 1 .. n
           T == Seq(E)
           m == [k \in S |-> k]
           Def == [a \in [S -> T] \X S |-> IF a[2] = 1 THEN ss[a[2]] ELSE IF a[2] \in 2 .. n
             THEN a[1][a[2] - 1] \o ss[a[2]] ELSE <<>>]
           Is(f) == f = [k \in S |-> IF k = 1 THEN ss[k] ELSE f[k - 1] \o ss[k]]
<1>1. n \in Nat \ {0} /\ \A k \in S : ss[k] \in T
  BY EmptySeq
<1> HIDE DEF n
<1>2. T # {} /\ m \in [S -> Nat]
  <2>1. <<>> \in T
    OBVIOUS
  <2> QED BY <1>1, <2>1
<1>3. Def \in [[S -> T] \X S -> T]
  <2> SUFFICES ASSUME NEW g \in [S -> T], NEW k \in S
               PROVE  (IF k = 1 THEN ss[k] ELSE IF k \in 2 .. n THEN g[k - 1] \o ss[k]
                        ELSE <<>>) \in T
    OBVIOUS
  <2>1. CASE k = 1
    BY <1>1, <2>1
  <2>2. CASE k \in 2 .. n
    <3>1. g[k - 1] \in T /\ ss[k] \in T
      BY <1>1, <2>2
    <3>2. g[k - 1] \o ss[k] \in T
      BY <3>1, ConcatOf
    <3> QED BY <2>2, <3>2
  <2> QED BY <1>1, <2>1, <2>2
<1>4. Founded(Def, S, T, m)
  <2> SUFFICES ASSUME NEW g \in [S -> T], NEW h \in [S -> T], NEW k \in S,
                      \A y \in S : m[y] < m[k] => g[y] = h[y]
               PROVE  Def[<<g, k>>] = Def[<<h, k>>]
    BY DEF Founded
  <2>1. CASE k = 1
    BY <2>1
  <2>2. CASE k # 1
    <3>1. k - 1 \in S /\ m[k - 1] < m[k]
      BY <1>1, <2>2
    <3>2. g[k - 1] = h[k - 1]
      BY <3>1
    <3> QED BY <2>2, <3>2
  <2> QED BY <2>1, <2>2
<1>5. PICK f \in [S -> T] : f = [k \in S |-> Def[<<f, k>>]]
  <2> HIDE DEF S, T, m, Def
  <2>1. Recurses(Def, S, T, m)
    BY <1>2, <1>3, <1>4 DEF Recurses
  <2>2. Solved(Def, S, T)
    BY <2>1, Recursive
  <2> QED BY <2>2 DEF Solved
<1>6. Is(f)
  <2>1. ASSUME NEW k \in S PROVE f[k] = IF k = 1 THEN ss[k] ELSE f[k - 1] \o ss[k]
    <3>1. f[k] = Def[<<f, k>>]
      <4> HIDE DEF Def
      <4> QED BY <1>5
    <3>2. Def[<<f, k>>] = IF k = 1 THEN ss[k] ELSE IF k \in 2 .. n THEN f[k - 1] \o ss[k] ELSE <<>>
      OBVIOUS
    <3>3. k # 1 => k \in 2 .. n
      BY <1>1
    <3> QED BY <3>1, <3>2, <3>3
  <2>2. f = [k \in S |-> f[k]]
    OBVIOUS
  <2> QED BY <2>1, <2>2
<1> DEFINE F == CHOOSE g : Is(g)
<1>7. Is(F)
  <2> HIDE DEF Is
  <2> QED BY <1>6
<1>8. FlattenSeq(ss) = F[n]
  BY <1>1 DEF FlattenSeq, n
<1> HIDE DEF F
<1>9. F[1] = ss[1] /\ \A k \in 2 .. n : F[k] = F[k - 1] \o ss[k]
  <2>1. \A k \in S : F[k] = IF k = 1 THEN ss[k] ELSE F[k - 1] \o ss[k]
    BY <1>7
  <2>2. 1 \in S /\ \A k \in 2 .. n : k \in S /\ k # 1
    BY <1>1
  <2> QED BY <2>1, <2>2
<1> DEFINE G == {k \in Nat : k \in S => F[k] \in T}
<1>10. ASSUME NEW k \in Nat, \A j \in 0 .. k - 1 : j \in G PROVE k \in G
  <2> SUFFICES ASSUME k \in S PROVE F[k] \in T
    OBVIOUS
  <2>1. CASE k = 1
    BY <1>1, <1>9, <2>1
  <2>2. CASE k # 1
    <3>1. k \in 2 .. n /\ k - 1 \in 0 .. k - 1 /\ k - 1 \in S
      BY <1>1, <2>2
    <3>2. F[k - 1] \in T /\ ss[k] \in T
      BY <1>1, <1>10, <3>1
    <3>3. F[k - 1] \o ss[k] \in T
      BY <3>2, ConcatOf
    <3> QED BY <1>9, <3>1, <3>3
  <2> QED BY <2>1, <2>2
<1>11. \A k \in Nat : k \in G
  <2> HIDE DEF G
  <2> QED BY <1>10, Induction
<1>12. F \in [S -> T]
  <2>1. F = [k \in S |-> F[k]]
    BY <1>7
  <2>2. \A k \in S : F[k] \in T
    BY <1>11
  <2> QED BY <2>1, <2>2
<1> QED BY <1>8, <1>9, <1>12 DEF n

\* The strings among the pieces.
StringsIn(q) == {q[k].bytes : k \in {j \in DOMAIN q : q[j].escape}}

LEMMA StringsOfConcat ==
  ASSUME NEW q \in Seq(Piece), NEW r \in Seq(Piece)
  PROVE  q \o r \in Seq(Piece) /\ StringsIn(q \o r) = StringsIn(q) \cup StringsIn(r)
<1>1. /\ q \o r \in Seq(Piece) /\ Len(q) \in Nat /\ Len(r) \in Nat
      /\ DOMAIN q = 1 .. Len(q) /\ DOMAIN r = 1 .. Len(r) /\ DOMAIN (q \o r) = 1 .. Len(q) + Len(r)
      /\ \A k \in 1 .. Len(q) : (q \o r)[k] = q[k]
      /\ \A k \in 1 .. Len(r) : (q \o r)[Len(q) + k] = r[k]
  BY ConcatOf
<1>2. ASSUME NEW x \in StringsIn(q) PROVE x \in StringsIn(q \o r)
  <2>1. PICK k \in 1 .. Len(q) : q[k].escape /\ x = q[k].bytes
    BY <1>1 DEF StringsIn
  <2>2. k \in DOMAIN (q \o r) /\ (q \o r)[k] = q[k]
    BY <1>1
  <2> QED BY <2>1, <2>2 DEF StringsIn
<1>3. ASSUME NEW x \in StringsIn(r) PROVE x \in StringsIn(q \o r)
  <2>1. PICK k \in 1 .. Len(r) : r[k].escape /\ x = r[k].bytes
    BY <1>1 DEF StringsIn
  <2>2. Len(q) + k \in DOMAIN (q \o r) /\ (q \o r)[Len(q) + k] = r[k]
    BY <1>1
  <2> QED BY <2>1, <2>2 DEF StringsIn
<1>4. ASSUME NEW x \in StringsIn(q \o r) PROVE x \in StringsIn(q) \cup StringsIn(r)
  <2>1. PICK k \in 1 .. Len(q) + Len(r) : (q \o r)[k].escape /\ x = (q \o r)[k].bytes
    BY <1>1 DEF StringsIn
  <2>2. CASE k <= Len(q)
    <3>1. k \in DOMAIN q /\ (q \o r)[k] = q[k]
      BY <1>1, <2>2
    <3> QED BY <2>1, <3>1 DEF StringsIn
  <2>3. CASE k > Len(q)
    <3>1. PICK j \in 1 .. Len(r) : k = Len(q) + j
      <4>1. k - Len(q) \in 1 .. Len(r) /\ k = Len(q) + (k - Len(q))
        BY <1>1, <2>3
      <4> QED BY <4>1
    <3>2. (q \o r)[k] = r[j] /\ j \in DOMAIN r
      BY <1>1, <3>1
    <3> QED BY <2>1, <3>2 DEF StringsIn
  <2> QED BY <1>1, <2>2, <2>3
<1> QED BY <1>1, <1>2, <1>3, <1>4

LEMMA StringsOfFlatten ==
  ASSUME NEW qs \in Seq(Seq(Piece))
  PROVE  /\ FlattenSeq(qs) \in Seq(Piece)
         /\ StringsIn(FlattenSeq(qs)) = UNION {StringsIn(qs[k]) : k \in DOMAIN qs}
<1>1. CASE qs = <<>>
  <2>1. FlattenSeq(qs) = <<>>
    BY <1>1 DEF FlattenSeq
  <2>2. DOMAIN qs = {} /\ <<>> \in Seq(Piece)
    BY <1>1
  <2>3. StringsIn(<<>>) = {}
    BY DEF StringsIn
  <2> QED BY <2>1, <2>2, <2>3
<1>2. CASE qs # <<>>
  <2> DEFINE n == Len(qs)
  <2>1. n \in Nat \ {0} /\ DOMAIN qs = 1 .. n /\ \A k \in 1 .. n : qs[k] \in Seq(Piece)
    BY <1>2, EmptySeq
  <2>2. PICK f \in [1 .. n -> Seq(Piece)] :
           /\ f[1] = qs[1]
           /\ \A k \in 2 .. n : f[k] = f[k - 1] \o qs[k]
           /\ FlattenSeq(qs) = f[n]
    BY <1>2, FlattenSums
  <2> HIDE DEF n
  <2> DEFINE G == {k \in Nat : k \in 1 .. n => StringsIn(f[k])
               = UNION {StringsIn(qs[j]) : j \in 1 .. k}}
  <2>3. ASSUME NEW k \in Nat, \A j \in 0 .. k - 1 : j \in G PROVE k \in G
    <3> SUFFICES ASSUME k \in 1 .. n PROVE StringsIn(f[k]) = UNION {StringsIn(qs[j]) : j \in 1 .. k}
      OBVIOUS
    <3>1. CASE k = 1
      <4>1. 1 .. k = {1}
        BY <3>1
      <4> QED BY <2>2, <3>1, <4>1
    <3>2. CASE k # 1
      <4>1. k \in 2 .. n /\ k - 1 \in 0 .. k - 1 /\ k - 1 \in 1 .. n
        BY <2>1, <3>2
      <4>2. StringsIn(f[k - 1]) = UNION {StringsIn(qs[j]) : j \in 1 .. k - 1}
        BY <2>3, <4>1
      <4>3. f[k - 1] \in Seq(Piece) /\ qs[k] \in Seq(Piece)
        BY <2>1, <4>1
      <4>4. StringsIn(f[k]) = StringsIn(f[k - 1]) \cup StringsIn(qs[k])
        BY <2>2, <4>1, <4>3, StringsOfConcat
      <4>5. 1 .. k = (1 .. k - 1) \cup {k}
        BY <4>1
      <4> QED BY <4>2, <4>4, <4>5
    <3> QED BY <3>1, <3>2
  <2>4. \A k \in Nat : k \in G
    <3> HIDE DEF G
    <3> QED BY <2>3, Induction
  <2>5. StringsIn(f[n]) = UNION {StringsIn(qs[j]) : j \in 1 .. n}
    <3>1. n \in Nat /\ n \in 1 .. n
      BY <2>1
    <3>2. n \in G
      BY <2>4, <3>1
    <3> QED BY <3>1, <3>2
  <2>6. f[n] \in Seq(Piece)
    BY <2>1
  <2> QED BY <2>1, <2>2, <2>5, <2>6
<1> QED BY <1>1, <1>2

LEMMA RawPiece ==
  ASSUME NEW s \in Seq(Bytes)
  PROVE  /\ Raw(s) \in Seq(Piece) /\ StringsIn(Raw(s)) = {}
         /\ <<[escape |-> TRUE, bytes |-> s]>> \in Seq(Piece)
         /\ StringsIn(<<[escape |-> TRUE, bytes |-> s]>>) = {s}
<1>1. [escape |-> FALSE, bytes |-> s] \in Piece /\ [escape |-> TRUE, bytes |-> s] \in Piece
  BY DEF Piece
<1>2. \A p \in Piece : <<p>> \in Seq(Piece) /\ DOMAIN <<p>> = {1} /\ <<p>>[1] = p
  OBVIOUS
<1>3. Raw(s) = <<[escape |-> FALSE, bytes |-> s]>>
  BY DEF Raw
<1> DEFINE p == [escape |-> FALSE, bytes |-> s]
           q == [escape |-> TRUE, bytes |-> s]
<1>4. ~p.escape /\ q.escape /\ q.bytes = s
  OBVIOUS
<1> HIDE DEF p, q
<1>5. StringsIn(<<p>>) = {}
  BY <1>1, <1>2, <1>4 DEF StringsIn, p
<1>6. StringsIn(<<q>>) = {s}
  BY <1>1, <1>2, <1>4 DEF StringsIn, q
<1> QED BY <1>1, <1>2, <1>3, <1>5, <1>6 DEF p, q

LEMMA QuotedPieces ==
  ASSUME NEW s \in Seq(Bytes)
  PROVE  Quoted(s) \in Seq(Piece) /\ StringsIn(Quoted(s)) = {s}
<1>1. PICK a : a = Raw(<<Quote>>)
  OBVIOUS
<1>2. PICK b : b = <<[escape |-> TRUE, bytes |-> s]>>
  OBVIOUS
<1>3. <<Quote>> \in Seq(Bytes)
  BY DEF Quote, Bytes
<1>4. a \in Seq(Piece) /\ StringsIn(a) = {}
  BY <1>1, <1>3, RawPiece
<1>5. b \in Seq(Piece) /\ StringsIn(b) = {s}
  BY <1>2, RawPiece
<1>12. PICK d : d = b \o a
  OBVIOUS
<1>6. d \in Seq(Piece) /\ StringsIn(d) = {s}
  BY <1>4, <1>5, <1>12, StringsOfConcat
<1>7. PICK c : c = a \o b
  OBVIOUS
<1>8. c \in Seq(Piece) /\ StringsIn(c) = {s}
  BY <1>4, <1>5, <1>7, StringsOfConcat, SMTT(30)
<1>9. c \o a \in Seq(Piece) /\ StringsIn(c \o a) = {s}
  BY <1>4, <1>8, StringsOfConcat
<1>10. Quoted(s) = c \o a \/ Quoted(s) = a \o d
  BY <1>1, <1>2, <1>7, <1>12 DEF Quoted
<1>11. a \o d \in Seq(Piece) /\ StringsIn(a \o d) = {s}
  BY <1>4, <1>6, StringsOfConcat
<1> QED BY <1>9, <1>10, <1>11

\* Less is written between the parts than is quoted in them.
LEMMA ListedPieces ==
  ASSUME NEW parts \in Seq(Seq(Piece))
  PROVE  /\ Listed(parts) \in Seq(Piece)
         /\ StringsIn(Listed(parts)) = UNION {StringsIn(parts[k]) : k \in DOMAIN parts}
<1> DEFINE comma == Raw(<<44>>)
           all == [k \in DOMAIN parts |-> IF k < Len(parts) THEN parts[k] \o comma ELSE parts[k]]
<1>1. comma \in Seq(Piece) /\ StringsIn(comma) = {}
  <2>1. <<44>> \in Seq(Bytes)
    BY DEF Bytes
  <2> QED BY <2>1, RawPiece
<1>2. Listed(parts) = FlattenSeq(all)
  BY DEF Listed
<1> HIDE DEF comma
<1>3. DOMAIN parts = 1 .. Len(parts) /\ Len(parts) \in Nat /\ \A k \in DOMAIN parts :
        parts[k] \in Seq(Piece)
  OBVIOUS
<1>4. ASSUME NEW k \in DOMAIN parts
      PROVE  all[k] \in Seq(Piece) /\ StringsIn(all[k]) = StringsIn(parts[k])
  <2>1. parts[k] \in Seq(Piece)
    BY <1>3
  <2>4. PICK p \in Seq(Piece) : p = parts[k]
    BY <2>1
  <2>5. p \o comma \in Seq(Piece) /\ StringsIn(p \o comma) = StringsIn(p) \cup StringsIn(comma)
    BY <1>1, StringsOfConcat
  <2>2. /\ parts[k] \o comma \in Seq(Piece)
        /\ StringsIn(parts[k] \o comma) = StringsIn(parts[k])
    BY <1>1, <2>4, <2>5
  <2>3. all[k] = parts[k] \o comma \/ all[k] = parts[k]
    OBVIOUS
  <2> HIDE DEF all
  <2> QED BY <2>1, <2>2, <2>3
<1>5. all \in Seq(Seq(Piece)) /\ DOMAIN all = DOMAIN parts
  <2>1. DOMAIN all = 1 .. Len(parts) /\ all = [k \in 1 .. Len(parts) |-> all[k]]
    BY <1>3
  <2>2. \A k \in 1 .. Len(parts) : all[k] \in Seq(Piece)
    BY <1>3, <1>4
  <2> HIDE DEF all
  <2> QED BY <1>3, <2>1, <2>2
<1> HIDE DEF all
<1>6. FlattenSeq(all) \in Seq(Piece) /\ StringsIn(FlattenSeq(all))
        = UNION {StringsIn(all[k]) : k \in DOMAIN all}
  BY <1>5, StringsOfFlatten
<1> QED BY <1>2, <1>4, <1>5, <1>6

\* The recursion of Digits.
Below(f) ==
  \A k \in Nat : /\ f[k] = IF k < 10 THEN <<48 + k>> ELSE Append(f[k \div 10], 48 + (k % 10))
                 /\ f[k] \in Seq(Bytes)

LEMMA DigitsBelow ==
  \E f : Below(f) /\ \A n \in Int : Digits(n) = IF n < 0 THEN <<45>> \o f[-n] ELSE f[n]
<1> DEFINE T == Seq(Bytes)
           m == [k \in Nat |-> k]
           Def == [a \in [Nat -> T] \X Nat |->
                     IF a[2] < 10 THEN <<48 + a[2]>> ELSE Append(a[1][a[2] \div 10],
                       48 + (a[2] % 10))]
           Is(f) == f = [k \in Nat |-> IF k < 10 THEN <<48 + k>>
             ELSE Append(f[k \div 10], 48 + (k % 10))]
<1>1. T # {} /\ m \in [Nat -> Nat]
  <2>1. <<>> \in T
    OBVIOUS
  <2> QED BY <2>1
<1>2. \A k \in Nat : /\ k < 10 => <<48 + k>> \in T
                     /\ 48 + (k % 10) \in Bytes
                     /\ k \div 10 \in Nat
                     /\ k >= 10 => k \div 10 < k
  <2> SUFFICES ASSUME NEW k \in Nat
               PROVE  /\ k < 10 => <<48 + k>> \in T
                      /\ 48 + (k % 10) \in Bytes
                      /\ k \div 10 \in Nat
                      /\ k >= 10 => k \div 10 < k
    OBVIOUS
  <2>1. k < 10 => 48 + k \in Bytes
    BY DEF Bytes
  <2>2. 48 + (k % 10) \in Bytes
    <3>1. k % 10 \in 0 .. 9
      OBVIOUS
    <3> QED BY <3>1 DEF Bytes
  <2>3. k \div 10 \in Nat /\ (k >= 10 => k \div 10 < k)
    OBVIOUS
  <2> QED BY <2>1, <2>2, <2>3
<1>3. Def \in [[Nat -> T] \X Nat -> T]
  <2> SUFFICES ASSUME NEW g \in [Nat -> T], NEW k \in Nat
               PROVE  (IF k < 10 THEN <<48 + k>> ELSE Append(g[k \div 10], 48 + (k % 10))) \in T
    OBVIOUS
  <2>1. PICK d \in Nat : d = k \div 10
    BY <1>2
  <2>2. PICK r \in Bytes : r = 48 + (k % 10)
    BY <1>2
  <2>3. g[d] \in T
    OBVIOUS
  <2>4. Append(g[d], r) \in T
    BY <2>3
  <2> QED BY <1>2, <2>1, <2>2, <2>4
<1>4. Founded(Def, Nat, T, m)
  <2> SUFFICES ASSUME NEW g \in [Nat -> T], NEW h \in [Nat -> T], NEW k \in Nat,
                      \A y \in Nat : m[y] < m[k] => g[y] = h[y]
               PROVE  Def[<<g, k>>] = Def[<<h, k>>]
    BY DEF Founded
  <2>1. CASE k < 10
    BY <2>1
  <2>2. CASE k >= 10
    <3>1. PICK d \in Nat : d = k \div 10 /\ d < k
      BY <1>2, <2>2
    <3>2. g[d] = h[d]
      BY <3>1
    <3> QED BY <2>2, <3>1, <3>2
  <2> HIDE DEF Def
  <2>3. k < 10 \/ k >= 10
    OBVIOUS
  <2> QED BY <2>1, <2>2, <2>3
<1>5. \E f \in [Nat -> T] : f = [k \in Nat |-> Def[<<f, k>>]]
  <2> HIDE DEF T, m, Def
  <2>1. Recurses(Def, Nat, T, m)
    BY <1>1, <1>3, <1>4 DEF Recurses
  <2>2. Solved(Def, Nat, T)
    BY <2>1, Recursive
  <2> QED BY <2>2 DEF Solved
<1>6. PICK f \in [Nat -> T] : f = [k \in Nat |-> Def[<<f, k>>]]
  BY <1>5
<1>7. Is(f)
  <2>1. ASSUME NEW k \in Nat
        PROVE  f[k] = IF k < 10 THEN <<48 + k>> ELSE Append(f[k \div 10], 48 + (k % 10))
    <3>1. f[k] = Def[<<f, k>>]
      <4> HIDE DEF Def
      <4> QED BY <1>6
    <3>2. Def[<<f, k>>] = IF k < 10 THEN <<48 + k>> ELSE Append(f[k \div 10], 48 + (k % 10))
      OBVIOUS
    <3> QED BY <3>1, <3>2
  <2>2. f = [k \in Nat |-> f[k]]
    OBVIOUS
  <2> QED BY <2>1, <2>2
<1> DEFINE F == CHOOSE g : Is(g)
<1>8. Is(F)
  <2> HIDE DEF Is
  <2> QED BY <1>7
<1>9. \A n \in Int : Digits(n) = IF n < 0 THEN <<45>> \o F[-n] ELSE F[n]
  BY DEF Digits
<1> HIDE DEF F
<1>10. \A k \in Nat : F[k] = IF k < 10 THEN <<48 + k>> ELSE Append(F[k \div 10], 48 + (k % 10))
  BY <1>8
<1> DEFINE G == {k \in Nat : F[k] \in T}
<1>11. ASSUME NEW k \in Nat, \A j \in 0 .. k - 1 : j \in G PROVE k \in G
  <2>1. CASE k < 10
    BY <1>2, <1>10, <2>1
  <2>2. CASE k >= 10
    <3>1. PICK d \in Nat : d = k \div 10 /\ d < k
      BY <1>2, <2>2
    <3>2. d \in 0 .. k - 1
      BY <3>1
    <3>3. F[d] \in T
      BY <1>11, <3>2
    <3>4. PICK r \in Bytes : r = 48 + (k % 10)
      BY <1>2
    <3>5. F[k] = Append(F[d], r)
      <4>1. F[k] = IF k < 10 THEN <<48 + k>> ELSE Append(F[k \div 10], 48 + (k % 10))
        BY <1>10
      <4>2. ~ k < 10
        BY <2>2
      <4> QED BY <3>1, <3>4, <4>1, <4>2, Zenon
    <3>6. Append(F[d], r) \in T
      BY <3>3
    <3> QED BY <3>5, <3>6
  <2> QED BY <2>1, <2>2
<1>12. \A k \in Nat : k \in G
  <2> HIDE DEF G
  <2> QED BY <1>11, Induction
<1>13. \A k \in Nat : F[k] \in Seq(Bytes)
  BY <1>12
<1> QED BY <1>9, <1>10, <1>13 DEF Below

\* The decimal digits of a number are bytes.
LEMMA DigitsAreBytes ==
  ASSUME NEW n \in Int
  PROVE  Digits(n) \in Seq(Bytes)
<1>1. PICK F : Below(F) /\ \A k \in Int : Digits(k) = IF k < 0 THEN <<45>> \o F[-k] ELSE F[k]
  BY DigitsBelow
<1>9. Digits(n) = IF n < 0 THEN <<45>> \o F[-n] ELSE F[n]
  BY <1>1
<1>12. \A k \in Nat : F[k] \in Seq(Bytes)
  BY <1>1 DEF Below
<1>13. CASE n < 0
  <2>1. -n \in Nat
    BY <1>13
  <2>2. F[-n] \in Seq(Bytes)
    BY <1>12, <2>1
  <2>3. <<45>> \in Seq(Bytes)
    BY DEF Bytes
  <2>4. <<45>> \o F[-n] \in Seq(Bytes)
    BY <2>2, <2>3, ConcatOf
  <2> QED BY <1>9, <1>13, <2>4
<1>14. CASE ~ n < 0
  BY <1>9, <1>12, <1>14
<1> QED BY <1>13, <1>14

\* What the members of a struct are.
IsMembers(ms) == ms \in Seq([key : {<<b>> : b \in 0 .. 127}, kind : {"string", "int", "list"}])

LEMMA MembersAre ==
  ASSUME NEW type \in MessageTypes
  PROVE  IsMembers(Members(type)) /\ (type \in Requests => Members(type) = <<>>)
<1> DEFINE M == [key : {<<b>> : b \in 0 .. 127}, kind : {"string", "int", "list"}]
<1>1. ASSUME NEW b \in 0 .. 127, NEW kind \in {"string", "int", "list"} PROVE Member(b, kind) \in M
  BY DEF Member
<1>2. 112 \in 0 .. 127 /\ 117 \in 0 .. 127 /\ 114 \in 0 .. 127 /\ 99 \in 0 .. 127
      /\ 116 \in 0 .. 127 /\ 115 \in 0 .. 127
  OBVIOUS
<1>3. /\ Member(112, "string") \in M /\ Member(117, "string") \in M /\ Member(114, "string") \in M
      /\ Member(99, "string") \in M /\ Member(116, "int") \in M /\ Member(115, "string") \in M
      /\ Member(117, "list") \in M /\ Member(114, "list") \in M
  BY <1>1, <1>2, ZenonT(60)
<1> HIDE DEF M
<1>4. \A x, y, z \in M : <<>> \in Seq(M) /\ <<x>> \in Seq(M) /\ <<x, y>> \in Seq(M)
      /\ <<x, y, z>> \in Seq(M)
  OBVIOUS
<1>5. /\ <<Member(112, "string"), Member(117, "string")>> \in Seq(M)
      /\ <<Member(114, "string")>> \in Seq(M)
      /\ <<Member(99, "string"), Member(114, "string"), Member(116, "int")>> \in Seq(M)
      /\ <<Member(99, "string"), Member(115, "string")>> \in Seq(M)
      /\ <<Member(117, "list")>> \in Seq(M) /\ <<Member(114, "list")>> \in Seq(M)
      /\ <<>> \in Seq(M)
  BY <1>3, <1>4
<1>6. \/ Members(type) = <<Member(112, "string"), Member(117, "string")>>
      \/ Members(type) = <<Member(114, "string")>>
      \/ Members(type) = <<Member(99, "string"), Member(114, "string"), Member(116, "int")>>
      \/ Members(type) = <<Member(99, "string"), Member(115, "string")>>
      \/ Members(type) = <<Member(117, "list")>>
      \/ Members(type) = <<Member(114, "list")>>
      \/ Members(type) = <<>>
  BY DEF Members, RoomName
<1>7. Members(type) \in Seq(M)
  <2> DEFINE ms == Members(type)
  <2> HIDE DEF ms
  <2> QED BY <1>5, <1>6, ZenonT(60) DEF ms
<1>8. type \in Requests => Members(type) = <<>>
  BY DEF Requests, Members
<1> QED BY <1>7, <1>8 DEF IsMembers, M

Joined(q, a, b, c) == q = (a \o b) \o c \/ q = a \o (b \o c)

LEMMA ThreePieces ==
  ASSUME NEW a \in Seq(Piece), NEW b \in Seq(Piece), NEW c \in Seq(Piece),
         NEW q, Joined(q, a, b, c)
  PROVE  q \in Seq(Piece) /\ StringsIn(q) = StringsIn(a) \cup StringsIn(b) \cup StringsIn(c)
<1>1. PICK ab : ab = a \o b
  OBVIOUS
<1>2. PICK bc : bc = b \o c
  OBVIOUS
<1>3. ab \in Seq(Piece) /\ StringsIn(ab) = StringsIn(a) \cup StringsIn(b)
  BY <1>1, StringsOfConcat
<1>4. bc \in Seq(Piece) /\ StringsIn(bc) = StringsIn(b) \cup StringsIn(c)
  BY <1>2, StringsOfConcat
<1>5. ab \o c \in Seq(Piece) /\ StringsIn(ab \o c) = StringsIn(ab) \cup StringsIn(c)
  BY <1>3, StringsOfConcat
<1>6. a \o bc \in Seq(Piece) /\ StringsIn(a \o bc) = StringsIn(a) \cup StringsIn(bc)
  BY <1>4, StringsOfConcat
<1>7. q = ab \o c \/ q = a \o bc
  BY <1>1, <1>2 DEF Joined
<1> QED BY <1>3, <1>4, <1>5, <1>6, <1>7

\* Of a value its strings are written, each of them.
LEMMA ValuePieces ==
  ASSUME NEW kind \in {"string", "int", "list"}, NEW v, IsValueOf(kind, v)
  PROVE  /\ DumpValue(kind, v) \in Seq(Piece)
         /\ StringsIn(DumpValue(kind, v)) \subseteq {v.text} \cup ToSet(v.list)
         /\ {v.text} \cup ToSet(v.list) \subseteq StringsIn(DumpValue(kind, v)) \cup {<<>>}
<1>1. v.text \in Seq(Bytes) /\ v.num \in Int /\ v.list \in Seq(Seq(Bytes))
  BY DEF IsValueOf
<1>2. ToSet(<<>>) = {}
  BY DEF ToSet
<1>3. CASE kind = "string"
  <2>1. DumpValue(kind, v) = Quoted(v.text)
    BY <1>3 DEF DumpValue
  <2>2. v.list = <<>>
    BY <1>3 DEF IsValueOf
  <2> QED BY <1>1, <1>2, <2>1, <2>2, QuotedPieces
<1>4. CASE kind = "int"
  <2>1. DumpValue(kind, v) = Raw(Digits(v.num))
    BY <1>4 DEF DumpValue
  <2>2. v.list = <<>> /\ v.text = <<>>
    BY <1>4 DEF IsValueOf
  <2>3. Digits(v.num) \in Seq(Bytes)
    BY <1>1, DigitsAreBytes
  <2>4. Raw(Digits(v.num)) \in Seq(Piece) /\ StringsIn(Raw(Digits(v.num))) = {}
    BY <2>3, RawPiece
  <2> QED BY <1>2, <2>1, <2>2, <2>4
<1>5. CASE kind = "list"
  <2> DEFINE parts == [k \in DOMAIN v.list |-> Quoted(v.list[k])]
  <2>1. PICK p : p = parts
    OBVIOUS
  <2>2. PICK a, b, c : a = Raw(<<91>>) /\ b = Listed(p) /\ c = Raw(<<93>>)
    OBVIOUS
  <2>3. DumpValue(kind, v) = (a \o b) \o c \/ DumpValue(kind, v) = a \o (b \o c)
    BY <1>5, <2>1, <2>2 DEF DumpValue
  <2>4. DOMAIN v.list = 1 .. Len(v.list) /\ Len(v.list) \in Nat
        /\ \A k \in DOMAIN v.list : v.list[k] \in Seq(Bytes)
    BY <1>1
  <2>5. \A k \in DOMAIN v.list : Quoted(v.list[k]) \in Seq(Piece)
        /\ StringsIn(Quoted(v.list[k])) = {v.list[k]}
    BY <2>4, QuotedPieces
  <2>6. p \in Seq(Seq(Piece)) /\ DOMAIN p = DOMAIN v.list /\ \A k \in DOMAIN p : StringsIn(p[k])
          = {v.list[k]}
    <3>1. parts \in [1 .. Len(v.list) -> Seq(Piece)]
      BY <2>4, <2>5
    <3>2. parts \in Seq(Seq(Piece))
      <4> HIDE DEF parts
      <4> QED BY <2>4, <3>1
    <3> QED BY <2>1, <2>5, <3>2
  <2>7. b \in Seq(Piece) /\ StringsIn(b) = UNION {StringsIn(p[k]) : k \in DOMAIN p}
    BY <2>2, <2>6, ListedPieces
  <2>8. StringsIn(b) = ToSet(v.list)
    <3>2. ASSUME NEW x PROVE (\E k \in DOMAIN p : x \in StringsIn(p[k]))
                 <=> (\E k \in DOMAIN v.list : x = v.list[k])
      BY <2>6
    <3>1. UNION {StringsIn(p[k]) : k \in DOMAIN p} = {v.list[k] : k \in DOMAIN v.list}
      BY <3>2
    <3> QED BY <2>7, <3>1 DEF ToSet
  <2>9. a \in Seq(Piece) /\ StringsIn(a) = {} /\ c \in Seq(Piece) /\ StringsIn(c) = {}
    <3>1. <<91>> \in Seq(Bytes) /\ <<93>> \in Seq(Bytes)
      BY DEF Bytes
    <3> QED BY <2>2, <3>1, RawPiece
  <2>12. PICK q : q = DumpValue(kind, v)
    OBVIOUS
  <2>13. q \in Seq(Piece) /\ StringsIn(q) = StringsIn(a) \cup StringsIn(b) \cup StringsIn(c)
    <3>1. Joined(q, a, b, c)
      BY <2>3, <2>12 DEF Joined
    <3> QED BY <2>7, <2>9, <3>1, ThreePieces
  <2>14. v.text = <<>>
    BY <1>5 DEF IsValueOf
  <2> QED BY <2>8, <2>9, <2>12, <2>13, <2>14
<1> QED BY <1>3, <1>4, <1>5

LEMMA MemberPieces ==
  ASSUME NEW b \in 0 .. 127, NEW kind \in {"string", "int", "list"},
         NEW member, member = [key |-> <<b>>, kind |-> kind], NEW v, IsValueOf(kind, v)
  PROVE  /\ DumpMember(member, v) \in Seq(Piece)
         /\ StringsIn(DumpMember(member, v)) \subseteq {<<b>>} \cup {v.text} \cup ToSet(v.list)
         /\ {v.text} \cup ToSet(v.list) \subseteq StringsIn(DumpMember(member, v)) \cup {<<>>}
<1>1. PICK p, q, r : p = Quoted(<<b>>) /\ q = Raw(<<58>>) /\ r = DumpValue(kind, v)
  OBVIOUS
<1>3. DumpMember(member, v) = (p \o q) \o r \/ DumpMember(member, v) = p \o (q \o r)
  BY <1>1 DEF DumpMember
<1>4. p \in Seq(Piece) /\ StringsIn(p) = {<<b>>} /\ q \in Seq(Piece) /\ StringsIn(q) = {}
  <2>1. <<b>> \in Seq(Bytes) /\ <<58>> \in Seq(Bytes)
    BY DEF Bytes
  <2> QED BY <1>1, <2>1, RawPiece, QuotedPieces
<1>5. /\ r \in Seq(Piece)
      /\ StringsIn(r) \subseteq {v.text} \cup ToSet(v.list)
      /\ {v.text} \cup ToSet(v.list) \subseteq StringsIn(r) \cup {<<>>}
  BY <1>1, ValuePieces
<1>9. PICK d : d = DumpMember(member, v)
  OBVIOUS
<1>10. d \in Seq(Piece) /\ StringsIn(d) = StringsIn(p) \cup StringsIn(q) \cup StringsIn(r)
  <2>1. Joined(d, p, q, r)
    BY <1>3, <1>9 DEF Joined
  <2> QED BY <1>4, <1>5, <2>1, ThreePieces
<1> QED BY <1>4, <1>5, <1>9, <1>10

\* The pieces of a message are pieces; the strings among them are the strings
\* of the message, the names of members and the string of a request.
LEMMA MessagePieces ==
  ASSUME NEW m, IsMessage(m)
  PROVE  /\ Dump(m) \in Seq(Piece)
         /\ StringsIn(Dump(m)) \subseteq Strings(m) \cup {<<>>} \cup {<<b>> : b \in 0 .. 127}
         /\ Strings(m) \subseteq StringsIn(Dump(m)) \cup {<<>>}
<1> DEFINE ms == Members(m.type)
           vs == m.values
<1>1. m.type \in MessageTypes /\ DOMAIN vs = DOMAIN ms /\ \A k \in DOMAIN ms :
        IsValueOf(ms[k].kind, vs[k])
  BY DEF IsMessage
<1>2. IsMembers(ms) /\ (m.type \in Requests => ms = <<>>)
  BY <1>1, MembersAre
<1>3. Strings(m) = UNION {{vs[k].text} \cup ToSet(vs[k].list) : k \in DOMAIN ms}
  BY <1>1 DEF Strings, ToSet
<1>4. CASE m.type \in Requests
  <2>1. Dump(m) = Quoted(<<>>)
    BY <1>4 DEF Dump
  <2>2. <<>> \in Seq(Bytes)
    OBVIOUS
  <2>3. Strings(m) = {}
    BY <1>2, <1>3, <1>4
  <2> QED BY <2>1, <2>2, <2>3, QuotedPieces
<1>5. CASE m.type \notin Requests
  <2> DEFINE parts == [k \in DOMAIN ms |-> DumpMember(ms[k], vs[k])]
  <2>1. PICK ps : ps = parts
    OBVIOUS
  <2>2. PICK a, b, c : a = Raw(<<123>>) /\ b = Listed(ps) /\ c = Raw(<<125>>)
    OBVIOUS
  <2>3. Dump(m) = (a \o b) \o c \/ Dump(m) = a \o (b \o c)
    BY <1>5, <2>1, <2>2 DEF Dump
  <2> HIDE DEF ms, vs
  <2>4. DOMAIN ms = 1 .. Len(ms) /\ Len(ms) \in Nat
        /\ \A k \in DOMAIN ms : ms[k] \in [key : {<<x>> : x \in 0 .. 127},
             kind : {"string", "int", "list"}]
    <3>1. ms \in Seq([key : {<<x>> : x \in 0 .. 127}, kind : {"string", "int", "list"}])
      BY <1>2 DEF IsMembers
    <3> DEFINE M == [key : {<<x>> : x \in 0 .. 127}, kind : {"string", "int", "list"}]
    <3> HIDE DEF M
    <3>2. ms \in Seq(M)
      BY <3>1 DEF M
    <3>3. DOMAIN ms = 1 .. Len(ms) /\ Len(ms) \in Nat /\ \A k \in DOMAIN ms : ms[k] \in M
      BY <3>2
    <3> QED BY <3>3 DEF M
  <2>5. ASSUME NEW k \in DOMAIN ms
        PROVE  /\ DumpMember(ms[k], vs[k]) \in Seq(Piece)
               /\ StringsIn(DumpMember(ms[k], vs[k]))
                    \subseteq {vs[k].text} \cup ToSet(vs[k].list) \cup {<<x>> : x \in 0 .. 127}
               /\ {vs[k].text} \cup ToSet(vs[k].list) \subseteq StringsIn(DumpMember(ms[k],
                    vs[k])) \cup {<<>>}
    <3>1. PICK x \in 0 .. 127, kind \in {"string", "int", "list"} : ms[k]
                 = [key |-> <<x>>, kind |-> kind]
      <4>1. ms[k] \in [key : {<<x>> : x \in 0 .. 127}, kind : {"string", "int", "list"}]
        BY <2>4
      <4> QED BY <4>1
    <3>2. IsValueOf(kind, vs[k])
      <4>1. ms[k].kind = kind
        BY <3>1
      <4> QED BY <1>1, <4>1
    <3>3. PICK member, v : member = ms[k] /\ v = vs[k]
      OBVIOUS
    <3>6. member = [key |-> <<x>>, kind |-> kind] /\ IsValueOf(kind, v)
      BY <3>1, <3>2, <3>3
    <3>4. /\ DumpMember(member, v) \in Seq(Piece)
          /\ StringsIn(DumpMember(member, v)) \subseteq {<<x>>} \cup {v.text} \cup ToSet(v.list)
          /\ {v.text} \cup ToSet(v.list) \subseteq StringsIn(DumpMember(member, v)) \cup {<<>>}
      BY <3>6, MemberPieces, ZenonT(60)
    <3>5. {<<x>>} \subseteq {<<y>> : y \in 0 .. 127}
      OBVIOUS
    <3> QED BY <3>3, <3>4, <3>5
  <2>6. ps \in Seq(Seq(Piece)) /\ DOMAIN ps = DOMAIN ms /\ \A k \in DOMAIN ms : ps[k]
          = DumpMember(ms[k], vs[k])
    <3>1. parts \in [1 .. Len(ms) -> Seq(Piece)]
      BY <2>4, <2>5
    <3>2. parts \in Seq(Seq(Piece))
      <4> HIDE DEF parts
      <4> QED BY <2>4, <3>1
    <3> QED BY <2>1, <3>2
  <2> HIDE DEF parts
  <2>7. b \in Seq(Piece) /\ StringsIn(b) = UNION {StringsIn(ps[k]) : k \in DOMAIN ps}
    BY <2>2, <2>6, ListedPieces
  <2>8. a \in Seq(Piece) /\ StringsIn(a) = {} /\ c \in Seq(Piece) /\ StringsIn(c) = {}
    <3>1. <<123>> \in Seq(Bytes) /\ <<125>> \in Seq(Bytes)
      BY DEF Bytes
    <3> QED BY <2>2, <3>1, RawPiece
  <2>11. PICK q : q = Dump(m)
    OBVIOUS
  <2>12. q \in Seq(Piece) /\ StringsIn(q) = StringsIn(a) \cup StringsIn(b) \cup StringsIn(c)
    <3>1. Joined(q, a, b, c)
      BY <2>3, <2>11 DEF Joined
    <3> QED BY <2>7, <2>8, <3>1, ThreePieces
  <2>13. StringsIn(b) \subseteq Strings(m) \cup {<<x>> : x \in 0 .. 127}
    <3>1. ASSUME NEW s \in StringsIn(b) PROVE s \in Strings(m) \cup {<<x>> : x \in 0 .. 127}
      <4>1. PICK k \in DOMAIN ms : s \in StringsIn(DumpMember(ms[k], vs[k]))
        BY <2>6, <2>7
      <4>2. s \in {vs[k].text} \cup ToSet(vs[k].list) \cup {<<x>> : x \in 0 .. 127}
        BY <2>5, <4>1
      <4> QED BY <1>3, <4>2
    <3> QED BY <3>1
  <2>14. Strings(m) \subseteq StringsIn(b) \cup {<<>>}
    <3>1. ASSUME NEW s \in Strings(m) PROVE s \in StringsIn(b) \cup {<<>>}
      <4>1. PICK k \in DOMAIN ms : s \in {vs[k].text} \cup ToSet(vs[k].list)
        BY <1>3
      <4>2. s \in StringsIn(ps[k]) \cup {<<>>}
        BY <2>5, <2>6, <4>1
      <4> QED BY <2>6, <2>7, <4>2
    <3> QED BY <3>1
  <2> QED BY <2>8, <2>11, <2>12, <2>13, <2>14
<1> QED BY <1>4, <1>5

-----------------------------------------------------------------------------
(* What a strict dump has found out so far. *)

LEMMA StringsOfHead ==
  ASSUME NEW q \in Seq(Piece), q # <<>>
  PROVE  /\ Head(q) \in Piece /\ Tail(q) \in Seq(Piece)
         /\ StringsIn(q) = (IF Head(q).escape THEN {Head(q).bytes} ELSE {}) \cup StringsIn(Tail(q))
<1>1. /\ Head(q) \in Piece /\ Tail(q) \in Seq(Piece) /\ Head(q) = q[1]
      /\ Len(q) \in Nat /\ Len(q) >= 1 /\ Len(Tail(q)) = Len(q) - 1
      /\ DOMAIN q = 1 .. Len(q) /\ DOMAIN Tail(q) = 1 .. Len(q) - 1
      /\ \A k \in 1 .. Len(q) - 1 : Tail(q)[k] = q[k + 1]
  OBVIOUS
<1>2. ASSUME NEW x \in StringsIn(q), x \notin StringsIn(Tail(q))
      PROVE  Head(q).escape /\ x = Head(q).bytes
  <2>1. PICK k \in 1 .. Len(q) : q[k].escape /\ x = q[k].bytes
    BY <1>1 DEF StringsIn
  <2>2. CASE k = 1
    BY <1>1, <2>1, <2>2
  <2>3. CASE k # 1
    <3>1. PICK j \in 1 .. Len(q) - 1 : k = j + 1
      <4>1. k - 1 \in 1 .. Len(q) - 1 /\ k = (k - 1) + 1
        BY <1>1, <2>3
      <4> QED BY <4>1
    <3>2. Tail(q)[j] = q[k] /\ j \in DOMAIN Tail(q)
      BY <1>1, <3>1
    <3>3. x \in StringsIn(Tail(q))
      BY <2>1, <3>2 DEF StringsIn
    <3> QED BY <1>2, <3>3
  <2> QED BY <2>2, <2>3
<1>3. ASSUME NEW x \in StringsIn(Tail(q)) PROVE x \in StringsIn(q)
  <2>1. PICK k \in 1 .. Len(q) - 1 : Tail(q)[k].escape /\ x = Tail(q)[k].bytes
    BY <1>1 DEF StringsIn
  <2>2. k + 1 \in DOMAIN q /\ q[k + 1] = Tail(q)[k]
    BY <1>1
  <2> QED BY <2>1, <2>2 DEF StringsIn
<1>4. Head(q).escape => Head(q).bytes \in StringsIn(q)
  <2>1. 1 \in DOMAIN q
    BY <1>1
  <2> QED BY <1>1, <2>1 DEF StringsIn
<1> QED BY <1>1, <1>2, <1>3, <1>4

LEMMA SmallWellFormed ==
  WellFormed(<<>>) /\ \A b \in 0 .. 127 : WellFormed(<<b>>)
<1>1. WellFormed(<<>>)
  BY DEF WellFormed
<1>2. ASSUME NEW b \in 0 .. 127 PROVE WellFormed(<<b>>)
  <2>1. PICK s \in Seq(Bytes) : s = <<b>>
    <3>1. <<b>> \in Seq(Bytes)
      BY DEF Bytes
    <3> QED BY <3>1
  <2>2. Len(s) = 1 /\ s[1] = b /\ 1 \in 1 .. Len(s) /\ 1 \in 1 .. 1
    BY <2>1
  <2>3. Begins(s, 1, 1) /\ Width(s[1]) = 1
    BY <2>2 DEF Begins, Width
  <2>4. IsScalar(s, 1, 1)
    BY <2>2, <2>3, ScalarBegins
  <2>5. \A k \in 1 .. Len(s) : k = 1
    BY <2>2
  <2>6. WellFormed(s)
    BY <2>2, <2>4, <2>5 DEF WellFormed
  <2> QED BY <2>1, <2>6
<1> QED BY <1>1, <1>2

\* What dump has found out so far, if it is strict.
Judges ==
  error_handler = "strict" =>
    /\ outcome = "dumping" =>
         /\ IF InString THEN Decoding(str, i, undumped_chars, state)
            ELSE i = 0 /\ undumped_chars = 0 /\ state = 0
         /\ \A s \in Strings(message) : WellFormed(s) \/ s \in StringsIn(todo)
         /\ \A s \in StringsIn(todo) : WellFormed(s) \/ s \in Strings(message)
    /\ outcome = "done" => \A s \in Strings(message) : WellFormed(s)
    /\ outcome = "thrown" => \E s \in Strings(message) : ~WellFormed(s)

JudgeInv ==
  /\ BufferInv
  /\ Judges
  /\ outcome = "thrown" => error_handler = "strict"

LEMMA AtStart == ASSUME NEW s \in Seq(Bytes) PROVE Decoding(s, 0, 0, 0)
BY DEF Decoding, Covered

LEMMA InitJudges == Init => JudgeInv
<1> SUFFICES ASSUME Init PROVE JudgeInv
  OBVIOUS
<1>1. NewString /\ o = <<>>
  BY DEF Init
<1>2. CASE SendMessage
  <2>1. PICK x \in Sent : /\ message = x.message /\ ensure_ascii = x.ensure_ascii
                          /\ error_handler = x.error_handler /\ todo = Dump(x.message)
                          /\ outcome = "dumping"
    BY <1>2 DEF SendMessage
  <2>2. IsMessage(message) /\ ensure_ascii \in BOOLEAN /\ error_handler \in Handlers
    BY <2>1, SentAssumption
  <2>3. /\ todo \in Seq(Piece)
        /\ StringsIn(todo) \subseteq Strings(message) \cup {<<>>} \cup {<<b>> : b \in 0 .. 127}
        /\ Strings(message) \subseteq StringsIn(todo) \cup {<<>>}
    BY <2>1, <2>2, MessagePieces
  <2>4. BufferInv
    BY <1>1, <2>1, <2>2, <2>3, InitBuffer DEF DumpInit
  <2>5. \A s \in Strings(message) : WellFormed(s) \/ s \in StringsIn(todo)
    BY <2>3, SmallWellFormed
  <2>6. \A s \in StringsIn(todo) : WellFormed(s) \/ s \in Strings(message)
    BY <2>3, SmallWellFormed
  <2>7. IF InString THEN Decoding(str, i, undumped_chars, state)
        ELSE i = 0 /\ undumped_chars = 0 /\ state = 0
    <3>1. InString => str \in Seq(Bytes)
      <4>1. todo # <<>> => Head(todo) \in Piece
        BY <2>3
      <4> QED BY <4>1 DEF InString, Dumping, str, Piece
    <3>2. i = 0 /\ undumped_chars = 0 /\ state = 0
      BY <1>1 DEF NewString
    <3> QED BY <3>1, <3>2, AtStart
  <2> QED BY <2>1, <2>4, <2>5, <2>6, <2>7 DEF JudgeInv, Judges
<1>3. CASE StrangeText
  <2>1. PICK x \in Texts : message = Message(x.type, <<>>) /\ todo = <<>> /\ outcome = "done"
             /\ ensure_ascii = FALSE /\ error_handler = "strict"
    BY <1>3 DEF StrangeText
  <2>2. Strings(message) = {}
    <3>1. message.values = <<>>
      BY <2>1 DEF Message
    <3> QED BY <3>1 DEF Strings, ToSet
  <2>3. BufferInv
    <3>1. todo \in Seq(Piece) /\ o \in Seq(Bytes) /\ string_buffer \in Seq(Bytes)
          /\ Len(string_buffer) = 0
      BY <1>1, <2>1 DEF NewString
    <3>2. /\ i = 0 /\ state = 0 /\ codepoint = 0 /\ bytes_after_last_accept = 0
             /\ undumped_chars = 0
          /\ reach = 0
      BY <1>1 DEF NewString
    <3>4. ensure_ascii \in BOOLEAN /\ error_handler \in Handlers
      BY <2>1 DEF Handlers
    <3>5. outcome \in {"dumping", "done", "thrown"}
      BY <2>1
    <3>3. DumpTypeOK
      BY <3>1, <3>2, <3>4, <3>5 DEF DumpTypeOK
    <3> QED BY <3>1, <3>2, <3>3, SerializerAssumption DEF BufferInv, StringBufferFits, Needed, Room
  <2> QED BY <2>1, <2>2, <2>3 DEF JudgeInv, Judges
<1> QED BY <1>2, <1>3 DEF Init

\* The string under way and the next byte of it.
LEMMA StringUnderWay ==
  ASSUME BufferInv, InString
  PROVE  /\ todo \in Seq(Piece) /\ todo # <<>> /\ str \in Seq(Bytes) /\ str = Head(todo).bytes
         /\ StringsIn(todo) = {str} \cup StringsIn(Tail(todo)) /\ Tail(todo) \in Seq(Piece)
         /\ i \in Nat /\ undumped_chars \in Nat /\ state \in 0 .. 8 /\ state # 1
         /\ state = 0 => undumped_chars = 0
<1>1. todo \in Seq(Piece) /\ todo # <<>> /\ Head(todo).escape
  BY DEF BufferInv, DumpTypeOK, InString, Dumping
<1>2. /\ Head(todo) \in Piece /\ Tail(todo) \in Seq(Piece)
      /\ StringsIn(todo) = {Head(todo).bytes} \cup StringsIn(Tail(todo))
  BY <1>1, StringsOfHead
<1> QED BY <1>1, <1>2 DEF str, Piece, BufferInv, DumpTypeOK

\* What decode makes of the next byte.
LEMMA ByteJudged ==
  ASSUME BufferInv, Decoding(str, i, undumped_chars, state), MoreBytes
  PROVE  /\ NewState = 0 => Decoding(str, i + 1, 0, 0)
         /\ NewState \notin {0, 1} => Decoding(str, i + 1, undumped_chars + 1, NewState)
         /\ NewState = 1 => ~WellFormed(str)
<1>1. InString /\ i < Len(str)
  BY DEF MoreBytes
<1>2. /\ str \in Seq(Bytes) /\ i \in Nat /\ undumped_chars \in Nat /\ state \in 0 .. 8
      /\ state = 0 => undumped_chars = 0
  BY <1>1, StringUnderWay
<1>9. PICK s \in Seq(Bytes) : s = str
  BY <1>2
<1>10. PICK n \in 0 .. Len(s) - 1 : n = i
  BY <1>1, <1>2, <1>9
<1>11. PICK u, q : u = undumped_chars /\ q = state
  OBVIOUS
<1>12. PICK r : r = NextState(q, s[n + 1])
  OBVIOUS
<1>3. s = str /\ n = i /\ u = undumped_chars /\ q = state /\ r = NextState(q, s[n + 1])
  BY <1>9, <1>10, <1>11, <1>12
<1>4. NewState = r
  BY <1>3 DEF NewState, byte
<1>5. Decoding(s, n, u, q)
  BY <1>3
<1>6. CASE u = 0
  <2>1. q = 0
    BY <1>5, <1>6 DEF Decoding
  <2>2. Decoding(s, n, 0, 0) /\ r = NextState(0, s[n + 1])
    BY <1>3, <1>5, <1>6, <2>1
  <2>3. /\ r = 0 => Decoding(s, n + 1, 0, 0)
        /\ r \notin {0, 1} => Decoding(s, n + 1, 1, r)
        /\ r = 1 => ~WellFormed(s)
    BY <2>2, DecodeFirst
  <2>4. u + 1 = 1
    BY <1>6
  <2> QED BY <1>3, <1>4, <2>3, <2>4
<1>7. CASE u > 0
  <2>3. /\ r = 0 => Decoding(s, n + 1, 0, 0)
        /\ r \notin {0, 1} => Decoding(s, n + 1, u + 1, r)
        /\ r = 1 => ~WellFormed(s)
    BY <1>3, <1>5, <1>7, DecodeNext
  <2> QED BY <1>3, <1>4, <2>3
<1>8. u = 0 \/ u > 0
  BY <1>2, <1>3
<1> QED BY <1>6, <1>7, <1>8

\* The next piece begins.
LEMMA PieceDone ==
  ASSUME JudgeInv, error_handler = "strict", Dumping, NextPiece, i' = 0, undumped_chars' = 0,
         state' = 0,
         Head(todo).escape => WellFormed(Head(todo).bytes), UNCHANGED message
  PROVE  Judges'
<1>1. todo \in Seq(Piece) /\ todo # <<>> /\ outcome = "dumping"
  BY DEF JudgeInv, BufferInv, DumpTypeOK, Dumping
<1>2. /\ Tail(todo) \in Seq(Piece)
      /\ StringsIn(todo) = (IF Head(todo).escape THEN {Head(todo).bytes}
           ELSE {}) \cup StringsIn(Tail(todo))
  BY <1>1, StringsOfHead
<1>3. todo' = Tail(todo) /\ outcome' = "dumping" /\ error_handler' = "strict" /\ message' = message
  BY <1>1 DEF NextPiece
<1>4. \A s \in StringsIn(todo) : WellFormed(s) \/ s \in StringsIn(Tail(todo))
  BY <1>2
<1>5. \A s \in Strings(message) : WellFormed(s) \/ s \in StringsIn(Tail(todo))
  BY <1>1, <1>4 DEF JudgeInv, Judges
<1>6. \A s \in StringsIn(Tail(todo)) : WellFormed(s) \/ s \in Strings(message)
  BY <1>1, <1>2 DEF JudgeInv, Judges
<1>7. InString' => str' \in Seq(Bytes)
  <2>1. todo' # <<>> => Head(todo') \in Piece
    BY <1>2, <1>3
  <2> QED BY <2>1 DEF InString, Dumping, str, Piece
<1>8. IF InString' THEN Decoding(str', i', undumped_chars', state')
      ELSE i' = 0 /\ undumped_chars' = 0 /\ state' = 0
  BY <1>7, AtStart
<1> QED BY <1>3, <1>5, <1>6, <1>8 DEF Judges

LEMMA DumpStepJudges ==
  ASSUME JudgeInv, DumpNext, UNCHANGED message
  PROVE  Judges' /\ (outcome' = "thrown" => error_handler' = "strict")
<1> USE DEF JudgeInv
<1>1. error_handler' = error_handler
  BY DEF DumpNext, AcceptByte, RejectStrict, RejectByte, IncompleteByte, EndString, EndStrict,
         WriteRaw,
         Return, NextPiece
<1>2. outcome' = "thrown" => error_handler' = "strict"
  BY DEF DumpNext, AcceptByte, RejectStrict, RejectByte, IncompleteByte, EndString, EndStrict,
         WriteRaw,
         Return, NextPiece
<1> SUFFICES ASSUME error_handler = "strict" PROVE Judges'
  BY <1>1, <1>2 DEF Judges
<1>3. CASE AcceptByte \/ IncompleteByte
  <2>1. MoreBytes /\ InString /\ outcome = "dumping" /\ todo' = todo /\ outcome' = outcome
    BY <1>3 DEF AcceptByte, IncompleteByte, MoreBytes, InString, Dumping
  <2>2. Decoding(str, i, undumped_chars, state)
    BY <2>1 DEF Judges
  <2>3. str' = str /\ InString'
    BY <2>1 DEF str, InString, Dumping
  <2>4. Decoding(str, i', undumped_chars', state')
    <3>1. CASE AcceptByte
      <4>1. NewState = 0 /\ i' = i + 1 /\ undumped_chars' = 0 /\ state' = NewState
        BY <3>1 DEF AcceptByte, Accepted
      <4> QED BY <2>1, <2>2, <4>1, ByteJudged
    <3>2. CASE IncompleteByte
      <4>1. NewState \notin {0, 1} /\ i' = i + 1 /\ undumped_chars' = undumped_chars + 1
            /\ state' = NewState
        BY <3>2 DEF IncompleteByte
      <4> QED BY <2>1, <2>2, <4>1, ByteJudged
    <3> QED BY <1>3, <3>1, <3>2
  <2>5. message' = message /\ error_handler' = "strict"
    BY <1>1
  <2> QED BY <2>1, <2>3, <2>4, <2>5 DEF Judges
<1>4. CASE RejectStrict \/ EndStrict
  <2>1. InString /\ outcome = "dumping" /\ outcome' = "thrown"
    BY <1>4 DEF RejectStrict, EndStrict, MoreBytes, InString, Dumping
  <2>2. Decoding(str, i, undumped_chars, state)
    BY <2>1 DEF Judges
  <2>3. /\ str \in Seq(Bytes) /\ str \in StringsIn(todo)
    BY <2>1, StringUnderWay
  <2>4. ~WellFormed(str)
    <3>1. CASE RejectStrict
      <4>1. NewState = 1 /\ MoreBytes
        BY <3>1 DEF RejectStrict
      <4> QED BY <2>2, <4>1, ByteJudged
    <3>2. CASE EndStrict
      <4>1. i = Len(str) /\ state # 0
        BY <3>2 DEF EndStrict, Complete
      <4> QED BY <2>2, <2>3, <4>1, DecodeEnd
    <3> QED BY <1>4, <3>1, <3>2
  <2>5. str \in Strings(message)
    BY <2>1, <2>3, <2>4 DEF Judges
  <2> QED BY <2>1, <2>4, <2>5 DEF Judges
<1>5. CASE RejectByte
  BY <1>5 DEF RejectByte
<1>6. CASE EndString
  <2>1. InString /\ outcome = "dumping" /\ i = Len(str) /\ state = 0 /\ StartString /\ NextPiece
        /\ Dumping
    BY <1>6 DEF EndString, InString, Dumping, Complete
  <2>2. Decoding(str, i, undumped_chars, state)
    BY <2>1 DEF Judges
  <2>3. str \in Seq(Bytes)
    BY <2>1, StringUnderWay
  <2>4. WellFormed(str)
    BY <2>1, <2>2, <2>3, DecodeEnd
  <2>5. i' = 0 /\ undumped_chars' = 0 /\ state' = 0
    BY <2>1 DEF StartString
  <2>6. Head(todo).escape => WellFormed(Head(todo).bytes)
    BY <2>4 DEF str
  <2> QED BY <2>1, <2>5, <2>6, PieceDone
<1>7. CASE WriteRaw
  <2>1. Dumping /\ ~Head(todo).escape /\ NextPiece /\ outcome = "dumping" /\ UNCHANGED stringVars
    BY <1>7 DEF WriteRaw, Dumping
  <2>2. ~InString
    BY <2>1 DEF InString
  <2>3. i' = 0 /\ undumped_chars' = 0 /\ state' = 0
    BY <2>1, <2>2 DEF Judges, stringVars
  <2> QED BY <2>1, <2>3, PieceDone
<1>8. CASE Return
  <2>1. outcome = "dumping" /\ outcome' = "done" /\ todo = <<>>
    BY <1>8 DEF Return
  <2>2. StringsIn(todo) = {}
    BY <2>1 DEF StringsIn
  <2>3. \A s \in Strings(message) : WellFormed(s)
    BY <2>1, <2>2 DEF Judges
  <2> QED BY <2>1, <2>3 DEF Judges
<1> QED BY <1>3, <1>4, <1>5, <1>6, <1>7, <1>8 DEF DumpNext

LEMMA JudgeInvariant == Spec => []JudgeInv
<1>1. JudgeInv /\ [Next]_vars => JudgeInv'
  <2> SUFFICES ASSUME JudgeInv, [Next]_vars PROVE JudgeInv'
    OBVIOUS
  <2>1. CASE DumpNext /\ UNCHANGED wayVars
    <3>1. UNCHANGED message
      BY <2>1 DEF wayVars
    <3>2. BufferInv'
      BY <2>1, NextBuffer DEF JudgeInv
    <3> QED BY <2>1, <3>1, <3>2, DumpStepJudges DEF JudgeInv
  <2>2. CASE UNCHANGED dumpVars /\ UNCHANGED message
    <3>1. BufferInv'
      BY <2>2, NextBuffer DEF JudgeInv
    <3> QED BY <2>2, <3>1 DEF JudgeInv, Judges, dumpVars, stringVars, InString, Dumping, str
  <2> QED BY <2>1, <2>2 DEF Next, Serialize, NotSent, Arrive, Parse, Dispatch, vars, wayVars
<1> QED BY <1>1, InitJudges, PTL DEF Spec

\* string_buffer is large enough for what a sender dumps, too: the serializer of
\* serialize_data is the one above (package_handler.hpp:20).
THEOREM BufferInvOnTheWay == Spec => []BufferInv
<1>1. JudgeInv => BufferInv
  BY DEF JudgeInv
<1> QED BY <1>1, JudgeInvariant, PTL

\* dump throws exactly if the handler is strict and a string of the message is
\* not UTF-8: the states of decode (json.hpp:18833) take the sequences of bytes
\* that the standard gives the scalar values, whatever the message.
THEOREM ThrowsCorrect == Spec => []ThrowsForBadUtf8
<1>1. JudgeInv => ThrowsForBadUtf8
  BY DEF JudgeInv, Judges, ThrowsForBadUtf8, BufferInv, DumpTypeOK
<1> QED BY <1>1, JudgeInvariant, PTL

-----------------------------------------------------------------------------
(* A string with what is no UTF-8 replaced. *)

\* The positions of a text, those behind its end among them.
Places == Nat \ {0}

\* A sequence put together of pieces.
Chopped(f, l, piece, next) ==
  f = [a \in Nat |-> IF a > l THEN <<>> ELSE piece[a] \o f[next[a]]]

\* It exists.
LEMMA ChopsExist ==
  ASSUME NEW l \in Nat, NEW piece, NEW next,
         \A a \in 0 .. l : next[a] \in Nat /\ next[a] > a,
         \A a \in 1 .. l : piece[a] \in Seq(Bytes)
  PROVE  \E f : Chopped(f, l, piece, next) /\ \A a \in Places : f[a] \in Seq(Bytes)
<1> DEFINE S == Places
           T == Seq(Bytes)
           m == [a \in S |-> IF a > l THEN 0 ELSE l + 1 - a]
           Def == [x \in [S -> T] \X S |->
                     IF x[2] > l THEN <<>> ELSE piece[x[2]] \o x[1][next[x[2]]]]
<1>1. T # {}
  <2>1. <<>> \in Seq(Bytes)
    OBVIOUS
  <2> QED BY <2>1
<1>2. m \in [S -> Nat]
  BY DEF Places
<1>3. Def \in [[S -> T] \X S -> T]
  <2> SUFFICES ASSUME NEW g \in [S -> T], NEW a \in S
               PROVE  (IF a > l THEN <<>> ELSE piece[a] \o g[next[a]]) \in T
    OBVIOUS
  <2>1. CASE a > l
    <3>1. <<>> \in Seq(Bytes)
      OBVIOUS
    <3> QED BY <2>1, <3>1
  <2>2. CASE ~(a > l)
    <3>1. a \in 1 .. l /\ a \in 0 .. l
      BY <2>2 DEF Places
    <3>2. next[a] \in S
      BY <3>1 DEF Places
    <3>3. g[next[a]] \in Seq(Bytes) /\ piece[a] \in Seq(Bytes)
      BY <3>1, <3>2
    <3> HIDE DEF T, S
    <3>4. piece[a] \o g[next[a]] \in Seq(Bytes)
      BY <3>3, ConcatOf
    <3> QED BY <2>2, <3>4 DEF T
  <2> QED BY <2>1, <2>2
<1>4. Founded(Def, S, T, m)
  <2> SUFFICES ASSUME NEW g \in [S -> T], NEW h \in [S -> T], NEW a \in S,
                      \A y \in S : m[y] < m[a] => g[y] = h[y]
               PROVE  Def[<<g, a>>] = Def[<<h, a>>]
    BY DEF Founded
  <2>1. CASE a > l
    BY <2>1
  <2>2. CASE ~(a > l)
    <3>1. a \in 0 .. l
      BY <2>2 DEF Places
    <3>2. next[a] \in S /\ next[a] > a /\ next[a] \in Nat
      BY <3>1 DEF Places
    <3>3. m[next[a]] < m[a]
      BY <2>2, <3>2 DEF Places
    <3>4. g[next[a]] = h[next[a]]
      BY <3>2, <3>3
    <3> QED BY <3>4
  <2> QED BY <2>1, <2>2
<1>5. PICK f \in [S -> T] : f = [a \in S |-> Def[<<f, a>>]]
  <2> HIDE DEF S, T, m, Def
  <2>1. Recurses(Def, S, T, m)
    BY <1>1, <1>2, <1>3, <1>4 DEF Recurses
  <2>2. Solved(Def, S, T)
    BY <2>1, Recursive
  <2> QED BY <2>2 DEF Solved
<1>6. ASSUME NEW a \in S
      PROVE  f[a] = IF a > l THEN <<>> ELSE piece[a] \o f[next[a]]
  <2>1. f[a] = Def[<<f, a>>]
    <3> HIDE DEF Def
    <3> QED BY <1>5
  <2> QED BY <2>1
<1>7. \A a \in Places : f[a] \in Seq(Bytes)
  BY <1>5
<1>8. PICK g : g = [a \in Nat |-> IF a = 0 THEN piece[0] \o f[next[0]] ELSE f[a]]
  OBVIOUS
<1> HIDE DEF S, T, m, Def
<1>9. \A a \in Places : g[a] = f[a] /\ a \in Nat /\ a # 0
  BY <1>8 DEF Places
<1>10. g[0] = piece[0] \o f[next[0]]
  BY <1>8
<1>11. 0 \in 0 .. l /\ ~(0 > l)
  OBVIOUS
<1>12. \A a \in Nat : ~(a > l) => next[a] \in Places
  BY DEF Places
<1>13. ASSUME NEW a \in Nat
       PROVE  g[a] = IF a > l THEN <<>> ELSE piece[a] \o g[next[a]]
  <2>1. CASE a = 0
    <3>1. g[next[0]] = f[next[0]]
      BY <1>9, <1>11, <1>12
    <3> QED BY <2>1, <3>1, <1>10, <1>11
  <2>2. CASE a # 0
    <3>1. a \in S /\ a \in Places
      BY <2>2 DEF S, Places
    <3>2. g[a] = f[a]
      BY <1>9, <3>1
    <3>3. f[a] = IF a > l THEN <<>> ELSE piece[a] \o f[next[a]]
      BY <1>6, <3>1
    <3>4. ~(a > l) => g[next[a]] = f[next[a]]
      BY <1>9, <1>12
    <3> QED BY <3>2, <3>3, <3>4
  <2> QED BY <2>1, <2>2
<1>14. g = [a \in Nat |-> g[a]]
  BY <1>8
<1>15. Chopped(g, l, piece, next)
  BY <1>13, <1>14 DEF Chopped
<1>16. \A a \in Places : g[a] \in Seq(Bytes)
  BY <1>7, <1>9
<1> QED BY <1>15, <1>16

\* What Longest finds.
IsLongest(s, a, z) ==
  /\ z \in a .. Len(s)
  /\ z = a \/ Starts(s, a, z)
  /\ z = Len(s) \/ ~Starts(s, a, z + 1)

\* What Longest is of: it begins a scalar value, and no longer sequence does.
LEMMA LongestIs ==
  ASSUME NEW s, Len(s) \in Nat, NEW a \in 0 .. Len(s)
  PROVE  IsLongest(s, a, Longest(s, a))
<1> DEFINE W == {z \in a .. Len(s) : z = Len(s) \/ ~Starts(s, a, z + 1)}
<1>1. Len(s) \in W /\ W \subseteq Nat
  OBVIOUS
<1>2. PICK z \in W : \A y \in W : z <= y
  <2> HIDE DEF W
  <2> QED BY <1>1, Least
<1>3. z = a \/ Starts(s, a, z)
  <2>1. CASE z # a
    <3>1. z - 1 \in a .. Len(s) /\ z - 1 # Len(s) /\ (z - 1) + 1 = z /\ ~(z <= z - 1)
      BY <2>1, <1>2
    <3>2. z - 1 \notin W
      BY <1>2, <3>1
    <3> QED BY <3>1, <3>2
  <2> QED BY <2>1
<1>4. IsLongest(s, a, z) /\ z \in a .. Len(s)
  BY <1>2, <1>3 DEF IsLongest
<1>5. Longest(s, a) = CHOOSE y \in a .. Len(s) : IsLongest(s, a, y)
  BY DEF Longest, IsLongest
<1> HIDE DEF W
<1> QED BY <1>4, <1>5

\* What begins a scalar value does so from the start on.
LEMMA BeginsLess ==
  ASSUME NEW s, NEW a \in Nat, NEW y \in Nat, NEW z \in Nat, Begins(s, a, z), a <= y, y <= z,
         Width(s[a]) \in Nat
  PROVE  Begins(s, a, y)
<1>1. Width(s[a]) >= y - a + 1
  BY DEF Begins
<1>2. \A k \in a + 1 .. y : k \in a + 1 .. z
  OBVIOUS
<1>3. y > a => z > a
  OBVIOUS
<1> QED BY <1>1, <1>2, <1>3 DEF Begins

\* The first byte that cannot follow, or the end of the bytes.
LongestEnd(s, a, z) ==
  /\ z = a \/ Begins(s, a, z)
  /\ z = Len(s) \/ ~Begins(s, a, z + 1)

\* There is one longest beginning.
LEMMA LongestIsEnd ==
  ASSUME NEW s \in Seq(Bytes), NEW a \in 1 .. Len(s), NEW z \in a .. Len(s), LongestEnd(s, a, z)
  PROVE  Longest(s, a) = z
<1>1. PICK w \in a .. Len(s) : w = Longest(s, a) /\ LongestEnd(s, a, w)
  <2>1. Len(s) \in Nat /\ a \in 0 .. Len(s)
    OBVIOUS
  <2>2. IsLongest(s, a, Longest(s, a))
    BY <2>1, LongestIs
  <2>3. PICK w \in a .. Len(s) : w = Longest(s, a)
    BY <2>2 DEF IsLongest
  <2>4. (w = a \/ Starts(s, a, w)) /\ (w = Len(s) \/ ~Starts(s, a, w + 1))
    BY <2>2, <2>3 DEF IsLongest
  <2>5. Starts(s, a, w) <=> Begins(s, a, w)
    BY StartsBegins
  <2>6. w # Len(s) => (Starts(s, a, w + 1) <=> Begins(s, a, w + 1))
    <3>1. w # Len(s) => w + 1 \in a .. Len(s)
      BY <2>1
    <3> QED BY <3>1, StartsBegins
  <2> QED BY <2>3, <2>4, <2>5, <2>6 DEF LongestEnd
<1>2. Width(s[a]) \in Nat
  BY DEF Width
<1>3. Len(s) \in Nat /\ a \in Nat /\ z \in Nat /\ w \in Nat /\ a <= z /\ a <= w
      /\ z <= Len(s) /\ w <= Len(s)
  OBVIOUS
<1>4. CASE z < w
  <2>1. Begins(s, a, w) /\ ~Begins(s, a, z + 1) /\ z + 1 \in Nat /\ a <= z + 1 /\ z + 1 <= w
    BY <1>1, <1>3, <1>4 DEF LongestEnd
  <2> QED BY <1>2, <1>3, <2>1, BeginsLess
<1>5. CASE w < z
  <2>1. Begins(s, a, z) /\ ~Begins(s, a, w + 1) /\ w + 1 \in Nat /\ a <= w + 1 /\ w + 1 <= z
    BY <1>1, <1>3, <1>5 DEF LongestEnd
  <2> QED BY <1>2, <1>3, <2>1, BeginsLess
<1> QED BY <1>1, <1>3, <1>4, <1>5

\* It is a string.
LEMMA ChoppedType ==
  ASSUME NEW l \in Nat, NEW piece, NEW next,
         \A a \in 0 .. l : next[a] \in Nat /\ next[a] > a,
         \A a \in 1 .. l : piece[a] \in Seq(Bytes),
         NEW f, Chopped(f, l, piece, next)
  PROVE  \A a \in Places : f[a] \in Seq(Bytes)
<1> DEFINE G == {n \in Nat : \A a \in Places : a + n > l => f[a] \in Seq(Bytes)}
<1>1. ASSUME NEW n \in Nat, \A k \in 0 .. n - 1 : k \in G PROVE n \in G
  <2> SUFFICES ASSUME NEW a \in Places, a + n > l PROVE f[a] \in Seq(Bytes)
    OBVIOUS
  <2>1. f[a] = IF a > l THEN <<>> ELSE piece[a] \o f[next[a]]
    BY DEF Chopped, Places
  <2>2. CASE a > l
    <3>1. <<>> \in Seq(Bytes)
      OBVIOUS
    <3> QED BY <2>1, <2>2, <3>1
  <2>3. CASE ~(a > l)
    <3>1. a \in 1 .. l /\ a \in 0 .. l
      BY <2>3 DEF Places
    <3>2. next[a] \in Places /\ next[a] > a
      BY <3>1 DEF Places
    <3>3. n - 1 \in 0 .. n - 1 /\ next[a] + (n - 1) > l
      BY <2>3, <3>2 DEF Places
    <3>4. f[next[a]] \in Seq(Bytes)
      BY <1>1, <3>2, <3>3
    <3>5. piece[a] \in Seq(Bytes)
      BY <3>1
    <3> HIDE DEF G
    <3> QED BY <2>1, <2>3, <3>4, <3>5, ConcatOf
  <2> QED BY <2>2, <2>3
<1>2. \A n \in Nat : n \in G
  <2> HIDE DEF G
  <2> QED BY <1>1, Induction
<1>3. ASSUME NEW a \in Places PROVE f[a] \in Seq(Bytes)
  <2>1. l \in G
    <3> HIDE DEF G
    <3> QED BY <1>2
  <2>2. a + l > l
    BY DEF Places
  <2> QED BY <2>1, <2>2
<1> QED BY <1>3

\* The recursion of Repaired.
Mends(f, s, fill) ==
  f = [a \in Nat |->
        IF a > Len(s) THEN <<>>
        ELSE LET z == Longest(s, a)
             IN (IF IsScalar(s, a, z) THEN SubSeq(s, a, z) ELSE fill) \o f[z + 1]]

\* The string s from each byte on, with fill for what is no UTF-8.
Mended(s, fill) == CHOOSE f : Mends(f, s, fill)

\* What stands in it for the bytes from a on.
MendedPiece(s, fill, a) == IF IsScalar(s, a, Longest(s, a)) THEN SubSeq(s, a, Longest(s, a))
  ELSE fill

LEMMA SubSeqIs ==
  ASSUME NEW s \in Seq(Bytes), NEW a \in 1 .. Len(s), NEW z \in a .. Len(s)
  PROVE  /\ SubSeq(s, a, z) \in Seq(Bytes) /\ Len(SubSeq(s, a, z)) = z - a + 1
         /\ \A k \in 1 .. z - a + 1 : SubSeq(s, a, z)[k] = s[a + k - 1]
OBVIOUS

\* It is there.
LEMMA MendedIs ==
  ASSUME NEW s \in Seq(Bytes), NEW fill \in Seq(Bytes)
  PROVE  /\ Repaired(s, fill) = Mended(s, fill)[1]
         /\ Mends(Mended(s, fill), s, fill)
         /\ \A a \in Places : Mended(s, fill)[a] \in Seq(Bytes)
<1>1. PICK l \in Nat : l = Len(s)
  OBVIOUS
<1>2. PICK piece : piece = [a \in Nat |-> MendedPiece(s, fill, a)]
  OBVIOUS
<1>3. PICK next : next = [a \in Nat |-> Longest(s, a) + 1]
  OBVIOUS
<1>4. ASSUME NEW a \in 0 .. l PROVE Longest(s, a) \in a .. l
  BY <1>1, LongestIs DEF IsLongest
<1>5. ASSUME NEW a \in 0 .. l PROVE next[a] \in Nat /\ next[a] > a
  <2>1. a \in Nat /\ Longest(s, a) \in a .. l
    BY <1>4
  <2> QED BY <1>3, <2>1
<1>6. ASSUME NEW a \in 1 .. l PROVE piece[a] \in Seq(Bytes)
  <2>1. a \in Nat /\ a \in 0 .. l
    OBVIOUS
  <2>2. Longest(s, a) \in a .. Len(s) /\ a \in 1 .. Len(s)
    BY <1>1, <1>4, <2>1
  <2>3. SubSeq(s, a, Longest(s, a)) \in Seq(Bytes)
    BY <2>2, SubSeqIs
  <2>4. piece[a] = MendedPiece(s, fill, a)
    BY <1>2, <2>1
  <2> QED BY <2>3, <2>4 DEF MendedPiece
<1>7. ASSUME NEW f PROVE Mends(f, s, fill) <=> Chopped(f, l, piece, next)
  <2>1. \A a \in Nat : piece[a] = MendedPiece(s, fill, a) /\ next[a] = Longest(s, a) + 1
    BY <1>2, <1>3
  <2>2. [a \in Nat |->
          IF a > Len(s) THEN <<>>
          ELSE (IF IsScalar(s, a, Longest(s, a)) THEN SubSeq(s, a, Longest(s, a)) ELSE fill)
               \o f[Longest(s, a) + 1]]
        = [a \in Nat |-> IF a > l THEN <<>> ELSE piece[a] \o f[next[a]]]
    BY <1>1, <2>1, Zenon DEF MendedPiece
  <2> QED BY <2>2, Zenon DEF Mends, Chopped
<1>8. \E f : Chopped(f, l, piece, next)
  BY <1>5, <1>6, ChopsExist
<1>9. Mends(Mended(s, fill), s, fill)
  BY <1>7, <1>8 DEF Mended
<1>10. Chopped(Mended(s, fill), l, piece, next)
  BY <1>7, <1>9
<1>11. \A a \in Places : Mended(s, fill)[a] \in Seq(Bytes)
  BY <1>5, <1>6, <1>10, ChoppedType
<1>12. Repaired(s, fill) = Mended(s, fill)[1]
  BY DEF Repaired, Mended, Mends
<1> QED BY <1>9, <1>11, <1>12

\* What becomes of a scalar value, and of the bytes that are none.
MendsOn(s, fill, a, z, b) == Mended(s, fill)[a] = b \o Mended(s, fill)[z + 1]

LEMMA MendedAt ==
  ASSUME NEW s \in Seq(Bytes), NEW fill \in Seq(Bytes), NEW a \in 1 .. Len(s),
         NEW z \in a .. Len(s),
         LongestEnd(s, a, z)
  PROVE  MendsOn(s, fill, a, z, IF IsScalar(s, a, z) THEN SubSeq(s, a, z) ELSE fill)
<1>1. Longest(s, a) = z
  BY LongestIsEnd
<1>2. a \in Nat /\ ~(a > Len(s))
  OBVIOUS
<1>3. Mends(Mended(s, fill), s, fill)
  BY MendedIs
<1>4. PICK f : f = Mended(s, fill)
  OBVIOUS
<1>5. f = [x \in Nat |->
            IF x > Len(s) THEN <<>>
            ELSE (IF IsScalar(s, x, Longest(s, x)) THEN SubSeq(s, x, Longest(s, x)) ELSE fill)
                 \o f[Longest(s, x) + 1]]
  BY <1>3, <1>4, Zenon DEF Mends
<1>6. f[a] = (IF IsScalar(s, a, Longest(s, a)) THEN SubSeq(s, a, Longest(s, a)) ELSE fill)
               \o f[Longest(s, a) + 1]
  BY <1>2, <1>5, Zenon
<1> QED BY <1>1, <1>4, <1>6 DEF MendsOn

\* Behind the string there is nothing.
LEMMA MendedEnd ==
  ASSUME NEW s \in Seq(Bytes), NEW fill \in Seq(Bytes)
  PROVE  Mended(s, fill)[Len(s) + 1] = <<>>
<1>1. Mends(Mended(s, fill), s, fill)
  BY MendedIs
<1>2. Len(s) + 1 \in Nat /\ Len(s) + 1 > Len(s)
  OBVIOUS
<1> QED BY <1>1, <1>2, Zenon DEF Mends

\* A scalar value is kept,
LEMMA MendedScalar ==
  ASSUME NEW s \in Seq(Bytes), NEW fill \in Seq(Bytes), NEW a \in 1 .. Len(s),
         NEW z \in a .. Len(s),
         Begins(s, a, z), Width(s[a]) = z - a + 1
  PROVE  MendsOn(s, fill, a, z, SubSeq(s, a, z))
<1>1. IsScalar(s, a, z)
  BY ScalarBegins
<1>2. ~Begins(s, a, z + 1)
  <2>1. ~(z - a + 1 >= (z + 1) - a + 1)
    OBVIOUS
  <2> QED BY <2>1 DEF Begins
<1>3. LongestEnd(s, a, z)
  BY <1>2 DEF LongestEnd
<1> QED BY <1>1, <1>3, MendedAt

\* what is none is replaced.
LEMMA MendedBroken ==
  ASSUME NEW s \in Seq(Bytes), NEW fill \in Seq(Bytes), NEW a \in 1 .. Len(s),
         NEW z \in a .. Len(s),
         LongestEnd(s, a, z), ~(Begins(s, a, z) /\ Width(s[a]) = z - a + 1)
  PROVE  MendsOn(s, fill, a, z, fill)
<1>1. ~IsScalar(s, a, z)
  BY ScalarBegins
<1> QED BY <1>1, MendedAt

-----------------------------------------------------------------------------
(* What decode finds at each byte. *)

\* n bytes of s were read, the last u of them are the start of a scalar value,
\* and the state of decode is q.
Waiting(s, n, u, q) ==
  /\ n \in 0 .. Len(s) /\ u \in 0 .. n
  /\ u = 0 => q = 0
  /\ u > 0 => /\ Begins(s, n - u + 1, n) /\ Width(s[n - u + 1]) > u
              /\ q = StateAfter(s[n - u + 1], u)

\* It is in the code space that starts at a byte of the table.
LEMMA WaitingFor ==
  ASSUME NEW s \in Seq(Bytes), NEW n, NEW u, NEW q, Waiting(s, n, u, q), u > 0
  PROVE  /\ n - u + 1 \in 1 .. Len(s) /\ s[n - u + 1] \in 194 .. 244
         /\ u \in 1 .. 3
         /\ q \in 2 .. 8
<1>1. n \in 0 .. Len(s) /\ u \in 1 .. n /\ n - u + 1 \in 1 .. Len(s)
  BY DEF Waiting
<1>2. PICK a \in 1 .. Len(s) : a = n - u + 1
  BY <1>1
<1>3. PICK b \in 0 .. 255 : b = s[a]
  BY ByteAt
<1>4. b \in 0 .. 127 \cup 194 .. 244 /\ Width(b) > u /\ q = StateAfter(b, u)
  BY <1>2, <1>3 DEF Waiting, Begins
<1>5. Width(b) = IF b < 128 THEN 1 ELSE IF b < 224 THEN 2 ELSE IF b < 240 THEN 3 ELSE 4
  BY <1>4 DEF Width
<1>6. b \in 194 .. 244 /\ u \in 1 .. 3
  BY <1>1, <1>4, <1>5, SMTT(30)
<1>7. FirstGoes(b)
  BY FirstByte
<1>8. q \in 2 .. 8
  <2>1. NextState(0, b) \in 2 .. 8
    BY <1>6, <1>7 DEF FirstGoes
  <2> QED BY <1>4, <1>6, <2>1 DEF StateAfter
<1> QED BY <1>1, <1>2, <1>3, <1>6, <1>8

\* Where the loop goes on behind an invalid byte.
Again(n, u) == IF u > 0 THEN n ELSE n + 1

\* The bytes from a to z are no scalar value.
NoScalar(s, a, z) == ~(Begins(s, a, z) /\ Width(s[a]) = z - a + 1)

\* What decode makes of the byte behind the n-th.
Decoded(s, n, u, r) ==
  LET a == n - u + 1
  IN /\ a \in 1 .. Len(s) /\ n + 1 \in a .. Len(s) /\ Again(n, u) \in a .. Len(s)
     /\ r = 0 => Begins(s, a, n + 1) /\ Width(s[a]) = (n + 1) - a + 1
     /\ r \notin {0, 1} => Waiting(s, n + 1, u + 1, r)
     /\ r = 1 => LongestEnd(s, a, Again(n, u)) /\ NoScalar(s, a, Again(n, u))

\* decode at the first byte of a scalar value,
LEMMA DecodedFirst ==
  ASSUME NEW s \in Seq(Bytes), NEW n \in 0 .. Len(s) - 1, Waiting(s, n, 0, 0),
         NEW r, r = NextState(0, s[n + 1])
  PROVE  Decoded(s, n, 0, r)
<1>1. PICK a \in 1 .. Len(s) : a = n + 1
  OBVIOUS
<1>2. PICK b \in 0 .. 255 : b = s[a]
  BY ByteAt
<1>3. FirstGoes(b)
  BY FirstByte
<1>5. r = NextState(0, b)
  BY <1>1, <1>2
<1>6. /\ a \in a .. Len(s) /\ a - a + 1 = 1 /\ n - 0 + 1 = a /\ n + 1 = a
      /\ (n + 1) - a + 1 = 1 /\ n + 1 \in a .. Len(s)
  BY <1>1
<1>4. Again(n, 0) = a
  BY <1>6 DEF Again
<1>7. Begins(s, a, a) <=> b \in 0 .. 127 \cup 194 .. 244
  <2>1. b \in 0 .. 127 \cup 194 .. 244 => Width(b) >= 1
    BY DEF Width
  <2>2. ~ a > a /\ a + 1 .. a = {}
    OBVIOUS
  <2> QED BY <1>2, <1>6, <2>1, <2>2 DEF Begins
<1>8. ASSUME r = 0 PROVE Begins(s, a, n + 1) /\ Width(s[a]) = (n + 1) - a + 1
  <2>1. b < 128
    BY <1>3, <1>5, <1>8 DEF FirstGoes
  <2>2. Width(b) = 1
    BY <2>1 DEF Width
  <2>3. b \in 0 .. 127 \cup 194 .. 244
    BY <2>1
  <2>4. Begins(s, a, a)
    BY <1>7, <2>3
  <2> QED BY <1>2, <1>6, <2>2, <2>4
<1>9. ASSUME r \notin {0, 1} PROVE Waiting(s, n + 1, 0 + 1, r)
  <2>1. b \in 194 .. 244
    BY <1>3, <1>5, <1>9 DEF FirstGoes
  <2>2. Width(b) > 1
    BY <2>1 DEF Width
  <2>3. r = StateAfter(b, 1)
    BY <1>5 DEF StateAfter
  <2>4. n + 1 - 1 + 1 = a /\ n + 1 - 1 = n /\ n + 1 = a /\ 0 + 1 = 1
    BY <1>1
  <2>5. Begins(s, a, a)
    BY <1>7, <2>1
  <2> QED BY <1>1, <1>2, <2>2, <2>3, <2>4, <2>5 DEF Waiting
<1>10. ASSUME r = 1 PROVE LongestEnd(s, a, a) /\ NoScalar(s, a, a)
  <2>1. ~Begins(s, a, a)
    BY <1>3, <1>5, <1>7, <1>10 DEF FirstGoes
  <2>2. ~Begins(s, a, a + 1)
    <3>1. Width(s[a]) \in Nat
      BY DEF Width
    <3>2. a \in Nat /\ a + 1 \in Nat /\ a <= a + 1 /\ a <= a
      OBVIOUS
    <3> QED BY <2>1, <3>1, <3>2, BeginsLess
  <2> QED BY <2>1, <2>2 DEF LongestEnd, NoScalar
<1> QED BY <1>4, <1>6, <1>8, <1>9, <1>10 DEF Decoded

\* at a later one,
LEMMA DecodedNext ==
  ASSUME NEW s \in Seq(Bytes), NEW n \in 0 .. Len(s) - 1, NEW u, NEW q, Waiting(s, n, u, q), u > 0,
         NEW r, r = NextState(q, s[n + 1])
  PROVE  Decoded(s, n, u, r)
<1>1. PICK a \in 1 .. Len(s) : a = n - u + 1
  BY WaitingFor
<1>2. PICK lead \in 194 .. 244 : lead = s[a]
  BY <1>1, WaitingFor, ZenonT(60)
<1>3. u \in 1 .. 3 /\ u \in 1 .. n
  <2>1. u \in 1 .. 3
    BY WaitingFor
  <2>2. u \in 0 .. n
    BY DEF Waiting
  <2> QED BY <2>1, <2>2
<1>4. /\ n + 1 \in a + 1 .. Len(s) /\ n + 1 - a = u /\ n \in a .. Len(s)
      /\ n + 1 \in a .. Len(s) /\ Again(n, u) = n /\ n # Len(s)
  BY <1>1, <1>3 DEF Again
<1>5. n + 1 \in 1 .. Len(s)
  OBVIOUS
<1>6. PICK b \in 0 .. 255 : b = s[n + 1]
  BY <1>5, ByteAt
<1>7. Begins(s, a, n) /\ Width(lead) > u /\ q = StateAfter(lead, u)
  BY <1>1, <1>2, <1>3 DEF Waiting
<1>8. PICK fits : fits = IF u = 1 THEN Second(lead, b) ELSE b \in 128 .. 191
  OBVIOUS
<1>9. /\ r = 1 <=> ~fits
      /\ fits => r = IF u + 1 = Width(lead) THEN 0 ELSE StateAfter(lead, u + 1)
  <2>1. Reads(lead, u, b)
    BY <1>3, <1>7, ReadsOn
  <2> QED BY <1>6, <1>7, <1>8, <2>1 DEF Reads
<1>10. fits => b \in 128 .. 191
  BY <1>8 DEF Second
<1>11. fits /\ u + 1 <= Width(lead) => Begins(s, a, n + 1)
  <2> SUFFICES ASSUME fits, u + 1 <= Width(lead) PROVE Begins(s, a, n + 1)
    OBVIOUS
  <2>1. \A k \in a + 1 .. n : s[k] \in 128 .. 191
    BY <1>7 DEF Begins
  <2>2. \A k \in a + 1 .. n + 1 : s[k] \in 128 .. 191
    <3> TAKE k \in a + 1 .. n + 1
    <3>1. k \in a + 1 .. n \/ k = n + 1
      BY <1>4
    <3> QED BY <1>6, <1>10, <2>1, <3>1
  <2>3. Second(s[a], s[a + 1])
    <3>1. CASE u = 1
      <4>1. a + 1 = n + 1
        BY <1>4, <3>1
      <4> QED BY <1>2, <1>6, <1>8, <3>1, <4>1
    <3>2. CASE u > 1
      <4>1. n > a
        BY <1>3, <1>4, <3>2
      <4> QED BY <1>7, <4>1 DEF Begins
    <3> QED BY <1>3, <3>1, <3>2
  <2>4. lead \in 0 .. 127 \cup 194 .. 244
    OBVIOUS
  <2>5. Width(lead) >= n + 1 - a + 1
    <3>1. n + 1 - a + 1 = u + 1
      BY <1>1, <1>3
    <3>2. Width(lead) \in Nat
      BY DEF Width
    <3> QED BY <3>1, <3>2
  <2> QED BY <1>2, <2>2, <2>3, <2>4, <2>5 DEF Begins
<1>12. n + 1 - a + 1 = u + 1 /\ n - a + 1 = u
  BY <1>1, <1>3
<1>13. Width(lead) \in Nat
  BY DEF Width
<1>14. ASSUME r = 0 PROVE Begins(s, a, n + 1) /\ Width(s[a]) = (n + 1) - a + 1
  <2>1. fits
    BY <1>9, <1>14
  <2>2. u + 1 = Width(lead)
    <3> SUFFICES ASSUME u + 1 # Width(lead) PROVE FALSE
      OBVIOUS
    <3>1. r = StateAfter(lead, u + 1)
      BY <1>9, <2>1
    <3>2. u + 1 # 1
      BY <1>3
    <3> QED BY <1>14, <3>1, <3>2 DEF StateAfter
  <2>3. Begins(s, a, n + 1)
    BY <1>11, <2>1, <2>2, <1>13
  <2> QED BY <1>2, <1>12, <2>2, <2>3
<1>15. ASSUME r \notin {0, 1} PROVE Waiting(s, n + 1, u + 1, r)
  <2>1. fits
    BY <1>9, <1>15
  <2>2. u + 1 # Width(lead) /\ r = StateAfter(lead, u + 1)
    BY <1>9, <1>15, <2>1
  <2>3. u + 1 < Width(lead)
    BY <1>3, <1>7, <1>13, <2>2
  <2>4. Begins(s, a, n + 1)
    BY <1>3, <1>11, <1>13, <2>1, <2>3
  <2>5. n + 1 - (u + 1) + 1 = a /\ n + 1 - (u + 1) = n - u /\ u + 1 \in 0 .. n + 1 /\ u + 1 > 0
        /\ u + 1 # 0
    BY <1>1, <1>3
  <2>6. n + 1 \in 0 .. Len(s)
    OBVIOUS
  <2> QED BY <1>2, <2>2, <2>3, <2>4, <2>5, <2>6 DEF Waiting
<1>16. ASSUME r = 1 PROVE LongestEnd(s, a, n) /\ NoScalar(s, a, n)
  <2>1. ~fits
    BY <1>9, <1>16
  <2>2. ~Begins(s, a, n + 1)
    <3> SUFFICES ASSUME Begins(s, a, n + 1) PROVE FALSE
      OBVIOUS
    <3>1. n + 1 > a
      BY <1>4
    <3>2. b \in 128 .. 191
      BY <1>4, <1>6 DEF Begins
    <3>3. u = 1 => a + 1 = n + 1
      BY <1>4
    <3>4. u = 1 => Second(lead, b)
      BY <1>2, <1>6, <3>1, <3>3 DEF Begins
    <3> QED BY <1>8, <2>1, <3>2, <3>4
  <2>3. Width(s[a]) # n - a + 1
    BY <1>2, <1>3, <1>7, <1>12, <1>13
  <2> QED BY <1>7, <2>2, <2>3 DEF LongestEnd, NoScalar
<1> QED BY <1>1, <1>4, <1>14, <1>15, <1>16 DEF Decoded

\* A string ends in the middle of a sequence.
LEMMA DecodedEnd ==
  ASSUME NEW s \in Seq(Bytes), NEW u, NEW q, Waiting(s, Len(s), u, q), q # 0
  PROVE  /\ Len(s) - u + 1 \in 1 .. Len(s)
         /\ LongestEnd(s, Len(s) - u + 1, Len(s)) /\ NoScalar(s, Len(s) - u + 1, Len(s))
<1>1. u > 0 /\ u \in 1 .. Len(s)
  BY DEF Waiting
<1>2. PICK a \in 1 .. Len(s) : a = Len(s) - u + 1 /\ Len(s) - a + 1 = u
  BY <1>1
<1>3. Begins(s, a, Len(s)) /\ Width(s[a]) > u
  BY <1>1, <1>2 DEF Waiting
<1>4. Width(s[a]) # u
  <2>1. Width(s[a]) \in Nat
    BY DEF Width
  <2> QED BY <1>1, <1>3, <2>1
<1> QED BY <1>2, <1>3, <1>4 DEF LongestEnd, NoScalar

\* at any.
LEMMA DecodedByte ==
  ASSUME NEW s \in Seq(Bytes), NEW n \in 0 .. Len(s) - 1, NEW u, NEW q, Waiting(s, n, u, q),
         NEW r, r = NextState(q, s[n + 1])
  PROVE  Decoded(s, n, u, r)
<1>1. u = 0 \/ u > 0
  BY DEF Waiting
<1>2. CASE u = 0
  <2>1. q = 0
    BY <1>2 DEF Waiting
  <2> QED BY <1>2, <2>1, DecodedFirst
<1>3. CASE u > 0
  BY <1>3, DecodedNext
<1> QED BY <1>1, <1>2, <1>3
=============================================================================
