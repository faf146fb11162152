------------------------------ MODULE MCJsonText ------------------------------
(* Messages and texts for TLC. *)
EXTENDS JsonText

\* Pieces of strings: an ASCII letter, a quote, a tab, another control
\* character, DEL, characters of two, three and four bytes, and bytes that are
\* no UTF-8: a lone continuation, sequences cut short, a surrogate, a value
\* above U+10FFFF, a byte that never occurs.
Good == {<<65>>, <<34>>, <<9>>, <<1>>, <<127>>, <<195, 169>>, <<226, 130, 172>>,
         <<240, 159, 152, 128>>}
Bad  == {<<128>>, <<195>>, <<224, 160>>, <<237, 160, 128>>, <<240, 159>>, <<244, 144>>, <<255>>}
Segments == Good \cup Bad

Short == {<<>>} \cup Segments \cup {x \o y : x, y \in Segments}
Long  == {x \o y : x \in Short, y \in Segments}
Few   == {<<>>, <<65>>, <<226, 130, 172, 34>>, <<195>>}

OneString(type, strings)  == {Message(type, <<StringValue(x)>>) : x \in strings}
TwoStrings(type, strings) == {Message(type, <<StringValue(x), StringValue(y)>>) : x, y \in strings}

Ordinary ==
  UNION {OneString("create_room", Long), OneString("enter_room", Few), OneString("leave_room", Few),
         TwoStrings("login", Few), TwoStrings("message", Few),
         {Message("send_message", <<StringValue(x), StringValue(y), IntValue(n)>>) :
            x, y \in Few, n \in {0, 1}},
         {Message(type, <<ListValue(l)>>) : type \in {"get_users_response", "get_rooms_response"},
                                            l \in UNION {[1 .. n -> Few] : n \in 0 .. 2}},
         {Message(type, <<>>) : type \in Requests}}

With(m, ascii, handler) == [message |-> m, ensure_ascii |-> ascii, error_handler |-> handler]

MCSent == {With(m, FALSE, "strict") : m \in Ordinary}
          \cup {With(m, ascii, handler) : m \in OneString("create_room", Short),
                                          ascii \in BOOLEAN, handler \in Handlers}

Letter(n) == <<Quote, n, Quote>>

\* All texts of up to five tokens, those of five without brackets: {, }, comma,
\* colon, "r", 1, [, ].
NoArray == {<<123>>, <<125>>, <<44>>, <<58>>, Letter(114), <<49>>}

TokenTexts == {FlattenSeq(x) : x \in [1 .. 5 -> NoArray]
                                 \cup UNION {[1 .. n -> NoArray \cup {<<91>>, <<93>>}] : n \in 0 .. 4}}

\* {"r":[1],"c":{"r":1,"r":{}},"u":["c"]} and what is left without one of its
\* tokens, or with one of them twice.
Nested == <<<<123>>, Letter(114), <<58>>, <<91>>, <<49>>, <<93>>, <<44>>, Letter(99), <<58>>,
            <<123>>, Letter(114), <<58>>, <<49>>, <<44>>, Letter(114), <<58>>, <<123>>, <<125>>, <<125>>,
            <<44>>, Letter(117), <<58>>, <<91>>, Letter(99), <<93>>, <<125>>>>

NestedTexts == {FlattenSeq(Nested)}
               \cup {FlattenSeq(RemoveAt(Nested, n)) : n \in DOMAIN Nested}
               \cup {FlattenSeq(InsertAt(Nested, n, Nested[n])) : n \in DOMAIN Nested}

\* Numbers: 0, 1, 9, dot, minus, plus, e.
NumberTexts == UNION {[1 .. n -> {48, 49, 57, 46, 45, 43, 101}] : n \in 1 .. 4}

\* Strings with escapes: \n, \x, \u00e9, \u0000, the halves of a pair and
\* digits that are none; and raw bytes.
Hexes == {<<48, 48, 101, 57>>, <<48, 48, 48, 48>>, <<68, 56, 51, 68>>, <<68, 69, 48, 48>>,
          <<56, 66, 67, 103>>}
Units == Segments \cup {<<92, 110>>, <<92, 120>>, <<92>>} \cup {<<92, 117>> \o h : h \in Hexes}

StringTexts == {<<Quote>> \o x \o y \o <<Quote>> : x, y \in Units \cup {<<>>}}

\* Literals whole and cut short, white space, a null byte, byte order marks.
OtherTexts == {<<116, 114, 117, 101>>, <<32, 102, 97, 108, 115, 101, 10>>, <<110, 117, 108>>,
               <<110, 117, 108, 108, 0, 49>>, <<239, 187, 191, 49>>, <<239, 187, 49>>}

StrangeTexts(type, r, texts) == {[type |-> type, receiver |-> r, text |-> x] : x \in texts}

MCTexts == UNION {StrangeTexts("get_rooms_request", "server", TokenTexts \cup NumberTexts),
                  StrangeTexts("get_rooms_request", "client", OtherTexts),
                  StrangeTexts("get_rooms_request", "server", OtherTexts),
                  StrangeTexts("message", "client", StringTexts),
                  StrangeTexts("enter_room", "server", NestedTexts),
                  StrangeTexts("get_users_response", "client", NestedTexts),
                  StrangeTexts("send_message", "server", NestedTexts)}
=============================================================================
