---------------------------- MODULE JsonSerializer ----------------------------
(***************************************************************************)
(* serializer of json.hpp, which serialize_data calls through dump(): the   *)
(* text of a value is written piece by piece to the output adapter, and     *)
(* the strings in it go through dump_escaped, byte by byte, with the        *)
(* decoder of Bjoern Hoehrmann and a buffer of fixed size.                  *)
(*                                                                         *)
(* A text is a sequence of bytes.  The pieces come from JsonMessages.       *)
(***************************************************************************)
EXTENDS Utf8

CONSTANT BufferSize   \* string_buffer.size(): 512 in the code

ASSUME SerializerAssumption == BufferSize \in Nat /\ BufferSize >= 13

VARIABLES
  todo,           \* the pieces still to be written; the first may be under way
  ensure_ascii,   \* the options of dump: the program's are FALSE and "strict"
  error_handler,
  i,              \* the bytes of the string under way that are behind the loop
  state,          \* of decode
  codepoint,
  string_buffer,  \* its bytes before the index "bytes"
  bytes_after_last_accept,
  undumped_chars,
  reach,          \* one past the last cell of string_buffer the last step wrote
  o,              \* what the output adapter has received
  outcome         \* "dumping", "done", or "thrown" for type_error 316

stringVars == <<i, state, codepoint, string_buffer, bytes_after_last_accept,
                undumped_chars, reach>>
dumpVars   == <<todo, ensure_ascii, error_handler, stringVars, o, outcome>>

Handlers == {"strict", "ignore", "replace"}
Piece    == [escape : BOOLEAN, bytes : Seq(Bytes)]

-----------------------------------------------------------------------------
(* decode. *)

UTF8_ACCEPT == 0
UTF8_REJECT == 1

\* The first 256 entries of utf8d.
TypeOf(b) ==
  IF b < 128 THEN 0
  ELSE IF b < 144 THEN 1
  ELSE IF b < 160 THEN 9
  ELSE IF b < 192 THEN 7
  ELSE IF b < 194 THEN 8
  ELSE IF b < 224 THEN 2
  ELSE IF b = 224 THEN 10
  ELSE IF b = 237 THEN 4
  ELSE IF b < 240 THEN 3
  ELSE IF b = 240 THEN 11
  ELSE IF b < 244 THEN 6
  ELSE IF b = 244 THEN 5
  ELSE 8

\* The rest of utf8d: where a first byte leads, and which types of byte lead
\* where from the states 2 to 8.
FirstState(type) == <<0, 1, 2, 3, 5, 8, 7, 1, 1, 1, 4, 6>>[type + 1]

Follows(from, type) ==
  \/ from \in {2, 3, 7} /\ type \in {1, 7, 9}
  \/ from = 4 /\ type = 7
  \/ from = 5 /\ type \in {1, 9}
  \/ from = 6 /\ type \in {7, 9}
  \/ from = 8 /\ type = 1

NextState(from, b) ==
  LET type == TypeOf(b)
  IN IF from = UTF8_ACCEPT THEN FirstState(type)
     ELSE IF ~Follows(from, type) THEN UTF8_REJECT
     ELSE IF from = 2 THEN UTF8_ACCEPT
     ELSE IF from \in {3, 4, 5} THEN 2
     ELSE 3

\* The bits of a first byte that belong to the code point: (0xFF >> type) & byte.
FirstBits(b) ==
  LET type == TypeOf(b)
  IN IF type > 8 THEN 0 ELSE b % <<256, 128, 64, 32, 16, 8, 4, 2, 1>>[type + 1]

NextCodepoint(b) ==
  IF state = UTF8_ACCEPT THEN FirstBits(b) ELSE 64 * codepoint + (b % 64)

-----------------------------------------------------------------------------
(* dump_escaped. *)

HexDigit(n) == IF n < 10 THEN 48 + n ELSE 87 + n

\* snprintf's "\\u%04x" of a value of 16 bits.
Hex4(n) ==
  <<Backslash, 117, HexDigit((n \div 4096) % 16), HexDigit((n \div 256) % 16),
    HexDigit((n \div 16) % 16), HexDigit(n % 16)>>

\* The second character of the short escapes.
ShortEscapes == {<<8, 98>>, <<9, 116>>, <<10, 110>>, <<12, 102>>, <<13, 114>>,
                 <<Quote, Quote>>, <<Backslash, Backslash>>}

HasShortEscape(cp) == \E e \in ShortEscapes : e[1] = cp
ShortEscape(cp)    == <<Backslash, (CHOOSE e \in ShortEscapes : e[1] = cp)[2]>>

ByNumber(cp) == ~HasShortEscape(cp) /\ (cp <= 31 \/ (ensure_ascii /\ cp >= 127))

\* What is written for a code point whose last byte is given; the bytes
\* before the last are in the buffer already, unless all is to be ASCII.
Escaped(cp, b) ==
  IF HasShortEscape(cp) THEN ShortEscape(cp)
  ELSE IF ~ByNumber(cp) THEN <<b>>
  ELSE IF cp <= 65535 THEN Hex4(cp)
  ELSE Hex4(55232 + (cp \div 1024)) \o Hex4(56320 + (cp % 1024))

\* snprintf ends what it writes with a null byte.
Cells(cp, b) == Len(Escaped(cp, b)) + (IF ByNumber(cp) THEN 1 ELSE 0)

\* U+FFFD.
ReplacementBytes == <<239, 191, 189>>
Replacement      == IF ensure_ascii THEN Hex4(65533) ELSE ReplacementBytes

\* Mistake: room for one "\uxxxx" only.
RoomTight == 7

\* "there must be 13 bytes left, as this is the maximal number of bytes to be
\* written for one code point".
Room == 13

\* The buffer now holds the bytes b, all of them accepted; it may be written out.
Accepted(b) ==
  /\ IF BufferSize - Len(b) < Room
     THEN string_buffer' = <<>> /\ o' = o \o b
     ELSE string_buffer' = b /\ o' = o
  /\ bytes_after_last_accept' = Len(string_buffer')
  /\ undumped_chars' = 0

Dumping     == outcome = "dumping" /\ todo # <<>>
InString    == Dumping /\ Head(todo).escape
str         == Head(todo).bytes
MoreBytes   == InString /\ i < Len(str)
byte        == str[i + 1]
NewState    == NextState(state, byte)

StartString == /\ i' = 0
               /\ state' = UTF8_ACCEPT
               /\ codepoint' = 0
               /\ string_buffer' = <<>>
               /\ bytes_after_last_accept' = 0
               /\ undumped_chars' = 0
               /\ reach' = 0

\* decode found a new code point.
AcceptByte ==
  /\ MoreBytes
  /\ NewState = UTF8_ACCEPT
  /\ LET cp == NextCodepoint(byte)
     IN /\ Accepted(string_buffer \o Escaped(cp, byte))
        /\ reach' = Len(string_buffer) + Cells(cp, byte)
        /\ codepoint' = cp
  /\ state' = NewState
  /\ i' = i + 1
  /\ UNCHANGED <<todo, ensure_ascii, error_handler, outcome>>

\* decode found an invalid byte, and the handler is strict.
RejectStrict ==
  /\ MoreBytes
  /\ NewState = UTF8_REJECT
  /\ error_handler = "strict"
  /\ outcome' = "thrown"
  /\ UNCHANGED <<todo, ensure_ascii, error_handler, stringVars, o>>

\* Mistake: the byte that ended a sequence is not looked at again.
NeverAgain == i + 1

\* A byte that ended a sequence is read again, since it may be fine for itself.
ReadAgain == IF undumped_chars > 0 THEN i ELSE i + 1

\* Mistake: the incomplete bytes are still counted.
ForgetBytes(kept) ==
  /\ string_buffer' = kept
  /\ UNCHANGED <<undumped_chars, bytes_after_last_accept, reach, o>>

Ignore(kept) ==
  /\ string_buffer' = kept
  /\ undumped_chars' = 0
  /\ UNCHANGED <<bytes_after_last_accept, reach, o>>

Replace(kept) ==
  /\ Accepted(kept \o Replacement)
  /\ reach' = Len(kept) + Len(Replacement)

\* The incomplete bytes are taken back, and forgotten or replaced.
RejectByte ==
  /\ MoreBytes
  /\ NewState = UTF8_REJECT
  /\ i' = ReadAgain
  /\ state' = UTF8_ACCEPT
  /\ codepoint' = NextCodepoint(byte)
  /\ LET kept == SubSeq(string_buffer, 1, bytes_after_last_accept)
     IN \/ error_handler = "ignore" /\ Ignore(kept)
        \/ error_handler = "replace" /\ Replace(kept)
  /\ UNCHANGED <<todo, ensure_ascii, error_handler, outcome>>

\* decode found a yet incomplete code point.
IncompleteByte ==
  /\ MoreBytes
  /\ NewState \notin {UTF8_ACCEPT, UTF8_REJECT}
  /\ string_buffer' = IF ensure_ascii THEN string_buffer ELSE Append(string_buffer, byte)
  /\ reach' = Len(string_buffer')
  /\ undumped_chars' = undumped_chars + 1
  /\ codepoint' = NextCodepoint(byte)
  /\ state' = NewState
  /\ i' = i + 1
  /\ UNCHANGED <<todo, ensure_ascii, error_handler, bytes_after_last_accept, o, outcome>>

NextPiece == todo' = Tail(todo) /\ UNCHANGED <<ensure_ascii, error_handler, outcome>>

\* Mistake: nobody asks for the state.
Unasked == TRUE

\* The last code point of the string is complete.
Complete == state = UTF8_ACCEPT

\* The string is finished ...
EndString ==
  /\ InString
  /\ i = Len(str)
  /\ \/ Complete /\ o' = o \o string_buffer
     \/ /\ ~Complete
        /\ error_handler # "strict"
        /\ o' = o \o SubSeq(string_buffer, 1, bytes_after_last_accept)
                  \o (IF error_handler = "replace" THEN Replacement ELSE <<>>)
  /\ StartString
  /\ NextPiece

\* ... or it is incomplete, and the handler is strict.
EndStrict ==
  /\ InString
  /\ i = Len(str)
  /\ ~Complete
  /\ error_handler = "strict"
  /\ outcome' = "thrown"
  /\ UNCHANGED <<todo, ensure_ascii, error_handler, stringVars, o>>

\* write_characters and write_character, for all that is not in a string.
WriteRaw ==
  /\ Dumping
  /\ ~Head(todo).escape
  /\ o' = o \o Head(todo).bytes
  /\ NextPiece
  /\ UNCHANGED stringVars

Return ==
  /\ outcome = "dumping"
  /\ todo = <<>>
  /\ outcome' = "done"
  /\ UNCHANGED <<todo, ensure_ascii, error_handler, stringVars, o>>

DumpNext ==
  \/ AcceptByte \/ RejectStrict \/ RejectByte \/ IncompleteByte
  \/ EndString \/ EndStrict \/ WriteRaw \/ Return

NewString == /\ i = 0
             /\ state = UTF8_ACCEPT
             /\ codepoint = 0
             /\ string_buffer = <<>>
             /\ bytes_after_last_accept = 0
             /\ undumped_chars = 0
             /\ reach = 0

DumpInit == /\ todo \in Seq(Piece)
            /\ ensure_ascii \in BOOLEAN
            /\ error_handler \in Handlers
            /\ NewString
            /\ o = <<>>
            /\ outcome = "dumping"

DumpSpec == DumpInit /\ [][DumpNext]_dumpVars

-----------------------------------------------------------------------------
(* Properties. *)

DumpTypeOK ==
  /\ todo \in Seq(Piece)
  /\ ensure_ascii \in BOOLEAN
  /\ error_handler \in Handlers
  /\ i \in Nat
  /\ state \in 0 .. 8
  /\ codepoint \in Nat
  /\ string_buffer \in Seq(Bytes)
  /\ bytes_after_last_accept \in Nat
  /\ undumped_chars \in Nat
  /\ reach \in Nat
  /\ o \in Seq(Bytes)
  /\ outcome \in {"dumping", "done", "thrown"}

\* The bytes that the state of decode still asks for.
Needed == IF state \in {0, 1} THEN 0 ELSE IF state = 2 THEN 1
          ELSE IF state \in 3 .. 5 THEN 2 ELSE 3

\* string_buffer is large enough for what is written between two looks at the
\* room that is left: incomplete bytes, an escape with snprintf's null byte,
\* or a replacement character.
StringBufferFits ==
  /\ reach <= BufferSize
  /\ Len(string_buffer) <= BufferSize

\* Why it is, inductively: after an accepted code point 13 bytes are left, and
\* behind it are the incomplete bytes, never more than three; if all is to be
\* ASCII there are none, and the longest escape finds its 13.
BufferInv ==
  /\ DumpTypeOK
  /\ StringBufferFits
  /\ state # UTF8_REJECT
  /\ bytes_after_last_accept <= BufferSize - Room
  /\ Len(string_buffer) = bytes_after_last_accept + (IF ensure_ascii THEN 0 ELSE undumped_chars)
  /\ undumped_chars + Needed <= 4
  /\ state = UTF8_ACCEPT => undumped_chars = 0
=============================================================================
