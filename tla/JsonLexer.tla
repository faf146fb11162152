------------------------------- MODULE JsonLexer -------------------------------
(***************************************************************************)
(* lexer of json.hpp, which json::parse reads a payload with: what scan()   *)
(* returns for the text t, read from position p on.  get() reads the byte   *)
(* at a position and goes on to the next, unget() goes back by one.         *)
(***************************************************************************)
EXTENDS Utf8

CONSTANT MaxUnsigned   \* the largest number_unsigned_t

ASSUME LexerAssumption == MaxUnsigned \in Nat

EOF == -1

At(t, p) == IF p <= Len(t) THEN t[p] ELSE EOF

\* A token: its type, the string or the number read, where the next begins.
Token(type, next)       == [type |-> type, text |-> <<>>, num |-> 0, next |-> next]
StringToken(text, next) == [Token("value_string", next) EXCEPT !.text = text]
Error(p)                == Token("parse_error", p)

-----------------------------------------------------------------------------
(* Strings.  One turn of the loop of scan_string reads a unit: an escape, an *)
(* ASCII character or a sequence of UTF-8 bytes; ok is FALSE for an error.   *)

Unit(bytes, next) == [ok |-> TRUE, bytes |-> bytes, next |-> next]
NoUnit            == [ok |-> FALSE, bytes |-> <<>>, next |-> 1]

\* The letter behind a backslash and the byte it stands for.
Escapes == {<<Quote, Quote>>, <<Backslash, Backslash>>, <<47, 47>>, <<98, 8>>,
            <<102, 12>>, <<110, 10>>, <<114, 13>>, <<116, 9>>}

HexValue(c) == CASE c \in 48 .. 57  -> c - 48
                 [] c \in 65 .. 70  -> c - 55
                 [] c \in 97 .. 102 -> c - 87
                 [] OTHER           -> -1

\* get_codepoint: the four hexadecimal digits from p on, or -1.
Codepoint(t, p) ==
  LET digit == [k \in 0 .. 3 |-> HexValue(At(t, p + k))]
  IN IF \E k \in 0 .. 3 : digit[k] = -1 THEN -1
     ELSE 4096 * digit[0] + 256 * digit[1] + 16 * digit[2] + digit[3]

HighSurrogate(cp) == 55296 <= cp /\ cp <= 56319
LowSurrogate(cp)  == 56320 <= cp /\ cp <= 57343

Continuation(n) == 128 + (n % 64)

\* The code point translated into bytes.
Utf8(cp) ==
  IF cp < 128 THEN <<cp>>
  ELSE IF cp <= 2047 THEN <<192 + (cp \div 64), Continuation(cp)>>
  ELSE IF cp <= 65535 THEN <<224 + (cp \div 4096), Continuation(cp \div 64), Continuation(cp)>>
  ELSE <<240 + (cp \div 262144), Continuation(cp \div 4096), Continuation(cp \div 64),
         Continuation(cp)>>

\* Mistake: the second half of a pair is taken for a character of its own.
UnicodeEscapeAlone(t, p) ==
  LET cp == Codepoint(t, p)
  IN IF cp = -1 THEN NoUnit ELSE Unit(Utf8(cp), p + 4)

\* The digits of "\u" begin at p; a high surrogate needs a low one behind it.
UnicodeEscape(t, p) ==
  LET cp1 == Codepoint(t, p)
      cp2 == IF At(t, p + 4) = Backslash /\ At(t, p + 5) = 117 THEN Codepoint(t, p + 6) ELSE -1
  IN IF cp1 = -1 \/ LowSurrogate(cp1) THEN NoUnit
     ELSE IF ~HighSurrogate(cp1) THEN Unit(Utf8(cp1), p + 4)
     ELSE IF LowSurrogate(cp2) THEN Unit(Utf8(cp1 * 1024 + cp2 - 56613888), p + 10)
     ELSE NoUnit

Escape(t, p) ==
  IF At(t, p) = 117 THEN UnicodeEscape(t, p + 1)
  ELSE IF \E e \in Escapes : e[1] = At(t, p)
  THEN Unit(<<(CHOOSE e \in Escapes : e[1] = At(t, p))[2]>>, p + 1)
  ELSE NoUnit

\* What next_byte_in_range expects behind a first byte.
AnyTail == 128 .. 191

Tails(first) ==
  CASE first \in 194 .. 223             -> <<AnyTail>>
    [] first = 224                      -> <<160 .. 191, AnyTail>>
    [] first \in (225 .. 239) \ {237}   -> <<AnyTail, AnyTail>>
    [] first = 237                      -> <<128 .. 159, AnyTail>>
    [] first = 240                      -> <<144 .. 191, AnyTail, AnyTail>>
    [] first \in 241 .. 243             -> <<AnyTail, AnyTail, AnyTail>>
    [] first = 244                      -> <<128 .. 143, AnyTail, AnyTail>>
    [] OTHER                            -> <<>>

Multibyte(t, p) ==
  LET tails == Tails(At(t, p))
      n     == Len(tails)
  IN IF n > 0 /\ \A k \in 1 .. n : At(t, p + k) \in tails[k]
     THEN Unit([k \in 1 .. n + 1 |-> t[p + k - 1]], p + n + 1)
     ELSE NoUnit

UnitAt(t, p) ==
  IF At(t, p) = Backslash THEN Escape(t, p + 1)
  ELSE IF At(t, p) \in 32 .. 127 THEN Unit(<<At(t, p)>>, p + 1)
  ELSE Multibyte(t, p)

\* What was read so far, and the next unit.
Extended(read, unit) == [unit EXCEPT !.bytes = read.bytes \o @]

\* scan_string: the opening quote is behind us, token_buffer is empty.
ScanString(t, start) ==
  LET scan[read \in [ok : BOOLEAN, bytes : Seq(Bytes), next : Nat]] ==
        IF ~read.ok THEN Error(read.next)
        ELSE IF At(t, read.next) = Quote THEN StringToken(read.bytes, read.next + 1)
        ELSE scan[Extended(read, UnitAt(t, read.next))]
  IN scan[Unit(<<>>, start)]

-----------------------------------------------------------------------------
(* Numbers. *)

Digit  == 48 .. 57
Minus  == 45
Dot    == 46
Exp    == {69, 101}
Sign   == {43, 45}

\* The table of scan_number: from a state, on a byte, to a state.  Where it has
\* no row, the number is done, or there is an error.
NumberTable ==
  {<<{"init"}, {Minus}, "minus">>,
   <<{"init", "minus"}, {48}, "zero">>,
   <<{"init", "minus", "any1"}, Digit \ {48}, "any1">>,
   <<{"any1"}, {48}, "any1">>,
   <<{"zero", "any1"}, {Dot}, "decimal1">>,
   <<{"decimal1", "decimal2"}, Digit, "decimal2">>,
   <<{"zero", "any1", "decimal2"}, Exp, "exponent">>,
   <<{"exponent"}, Sign, "sign">>,
   <<{"exponent", "sign", "any2"}, Digit, "any2">>}

NumberStates == {"init", "minus", "zero", "any1", "decimal1", "decimal2", "exponent", "sign", "any2"}

NumberNext(from, c) ==
  IF \E row \in NumberTable : from \in row[1] /\ c \in row[2]
  THEN (CHOOSE row \in NumberTable : from \in row[1] /\ c \in row[2])[3]
  ELSE IF from \in {"zero", "any1", "decimal2", "any2"} THEN "done"
  ELSE "error"

\* The type is that of the literal; an integer that does not fit is a float.
NumberToken(negative, float, value, next) ==
  LET type == IF float THEN "value_float"
              ELSE IF ~negative /\ value <= MaxUnsigned THEN "value_unsigned"
              ELSE IF negative /\ value <= (MaxUnsigned + 1) \div 2 THEN "value_integer"
              ELSE "value_float"
  IN [Token(type, next) EXCEPT !.num = CASE type = "value_unsigned" -> value
                                         [] type = "value_integer"  -> -value
                                         [] OTHER                   -> 0]

\* scan_number: current is the byte at p.
ScanNumber(t, p) ==
  LET end[q \in Nat] ==
        [from \in NumberStates |->
           LET to == NumberNext(from, At(t, q))
           IN IF to = "done" THEN q ELSE IF to = "error" THEN 0 ELSE end[q + 1][to]]
      next   == end[p]["init"]
      value[q \in Nat] ==
        IF q < p \/ t[q] \notin Digit THEN 0 ELSE 10 * value[q - 1] + t[q] - 48
      float  == \E q \in p .. next - 1 : t[q] \in {Dot} \cup Exp
  IN IF next = 0 THEN Error(p)
     ELSE NumberToken(t[p] = Minus, float, IF float THEN 0 ELSE value[next - 1], next)

-----------------------------------------------------------------------------
(* scan. *)

Space == {9, 10, 13, 32}

SkipWhitespace(t, p) ==
  CHOOSE q \in p .. p + Len(t) : /\ At(t, q) \notin Space
                                 /\ \A r \in p .. q - 1 : At(t, r) \in Space

\* skip_bom, for the first token: where the text begins, or 0 for half a mark.
SkipBom(t) ==
  IF At(t, 1) # 239 THEN 1
  ELSE IF At(t, 2) = 187 /\ At(t, 3) = 191 THEN 4
  ELSE 0

\* The structural characters.
Structure == {<<91, "begin_array">>, <<93, "end_array">>, <<123, "begin_object">>,
              <<125, "end_object">>, <<58, "name_separator">>, <<44, "value_separator">>}

Literals == {<<<<116, 114, 117, 101>>, "literal_true">>,
             <<<<102, 97, 108, 115, 101>>, "literal_false">>,
             <<<<110, 117, 108, 108>>, "literal_null">>}

IsLiteral(t, p, word) == \A k \in 1 .. Len(word) : At(t, p + k - 1) = word[k]

\* The token whose first byte is at p.
TokenAt(t, p) ==
  LET c == At(t, p)
  IN IF \E s \in Structure : s[1] = c
     THEN Token((CHOOSE s \in Structure : s[1] = c)[2], p + 1)
     ELSE IF \E w \in Literals : IsLiteral(t, p, w[1])
     THEN LET w == CHOOSE w \in Literals : IsLiteral(t, p, w[1])
          IN Token(w[2], p + Len(w[1]))
     ELSE IF c = Quote THEN ScanString(t, p + 1)
     ELSE IF c \in Digit \cup {Minus} THEN ScanNumber(t, p)
     ELSE IF c \in {0, EOF} THEN Token("end_of_input", p + 1)
     ELSE Error(p)

\* scan: the next token from p on.
Scan(t, p) ==
  LET begin == IF p > 1 THEN p ELSE SkipBom(t)
      token[q \in Nat] == TokenAt(t, q)
  IN IF begin = 0 THEN Error(p) ELSE token[SkipWhitespace(t, begin)]
=============================================================================
