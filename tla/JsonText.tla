------------------------------- MODULE JsonText -------------------------------
(***************************************************************************)
(* A message on its way: serialize_data dumps it at the sender, the frame   *)
(* (see FrameChannel) carries the text, dispatch_message parses it at the   *)
(* receiver, reads the message from the value and calls the handler.  Or a  *)
(* text that no sender of this program wrote is dispatched.                 *)
(***************************************************************************)
EXTENDS JsonSerializer, JsonParser, JsonMessages

CONSTANTS Sent,     \* sets of [message, ensure_ascii, error_handler]
          Texts     \* and of [type, receiver, text]

\* The int that to_json writes has 32 bits and an integer of json 64: it fits.
Storable(n) == -((MaxUnsigned + 1) \div 2) <= n /\ n <= MaxUnsigned

\* What the structs can hold and a frame can carry.
ASSUME SentAssumption ==
  \A x \in Sent : /\ IsMessage(x.message)
                  /\ \A k \in DOMAIN x.message.values : Storable(x.message.values[k].num)
                  /\ x.ensure_ascii \in BOOLEAN
                  /\ x.error_handler \in Handlers
ASSUME TextsAssumption ==
  \A x \in Texts : x.text \in Seq(Bytes)

VARIABLES
  origin,     \* "sender", or "stranger" for a text no sender wrote
  message,    \* what was sent; of a stranger's, the type in the header only
  receiver,   \* "server" or "client"
  fate,       \* "none", "unsent", "handled", "ignored" (no handler) or "thrown"
  delivered   \* what the handler gets

wayVars == <<origin, message, receiver, fate, delivered>>
vars    == <<dumpVars, parseVars, wayVars>>

Handled(r) == IF r = "server" THEN ServerHandles ELSE ClientHandles

SendMessage ==
  \E x \in Sent :
    /\ origin = "sender"
    /\ message = x.message
    /\ receiver = IF message.type \in ServerHandles THEN "server" ELSE "client"
    /\ ensure_ascii = x.ensure_ascii
    /\ error_handler = x.error_handler
    /\ todo = Dump(x.message)
    /\ outcome = "dumping"
    /\ text = <<>> /\ last_token = Token("uninitialized", 1)
    /\ verdict = "idle"

StrangeText ==
  \E x \in Texts :
    /\ origin = "stranger"
    /\ receiver = x.receiver
    /\ message = Message(x.type, <<>>)
    /\ ensure_ascii = FALSE
    /\ error_handler = "strict"
    /\ todo = <<>>
    /\ outcome = "done"
    /\ text = x.text /\ last_token = Scan(x.text, 1)
    /\ verdict = "parsing"

Init ==
  /\ SendMessage \/ StrangeText
  /\ NewString
  /\ o = <<>>
  /\ NewParser
  /\ fate = "none"
  /\ delivered = Message("none", <<>>)

\* serialize_data: dump() under way, or it has thrown and nothing is sent.
Serialize == DumpNext /\ UNCHANGED <<parseVars, wayVars>>

NotSent ==
  /\ outcome = "thrown"
  /\ fate = "none"
  /\ fate' = "unsent"
  /\ UNCHANGED <<dumpVars, parseVars, origin, message, receiver, delivered>>

\* The frame has arrived, and dispatch_message calls json::parse ...
Arrive ==
  /\ outcome = "done"
  /\ verdict = "idle"
  /\ StartParse(o)
  /\ UNCHANGED <<dumpVars, wayVars>>

Parse == ParseNext /\ UNCHANGED <<dumpVars, wayVars>>

\* ... which throws, or from_json does, outside safeInvoke; or there is a
\* handler for the type, or there is none.
Dispatch ==
  /\ verdict \in {"accepted", "parse_error", "out_of_range"}
  /\ fate = "none"
  /\ IF verdict # "accepted" \/ ~Deserializable(nodes, message.type)
     THEN fate' = "thrown" /\ UNCHANGED delivered
     ELSE IF message.type \in Handled(receiver)
     THEN fate' = "handled" /\ delivered' = FromJson(nodes, message.type)
     ELSE fate' = "ignored" /\ UNCHANGED delivered
  /\ UNCHANGED <<dumpVars, parseVars, origin, message, receiver>>

Next == Serialize \/ NotSent \/ Arrive \/ Parse \/ Dispatch

Spec     == Init /\ [][Next]_vars
FairSpec == Spec /\ WF_vars(Next)

-----------------------------------------------------------------------------
(* Properties. *)

\* dump throws for those strings that are not UTF-8, all of them and no others
\* (package_handler.hpp:20: the client dumps what is typed at its console).
ThrowsForBadUtf8 ==
  outcome # "dumping" =>
    ((outcome = "thrown") <=> (error_handler = "strict" /\ ~\A s \in Strings(message) : WellFormed(s)))

\* What one side could dump the other side parses, and its handler gets the
\* message that was sent; no message of this program makes dispatch_message
\* throw (package_dispatcher.hpp:42).  With the other two error handlers every
\* sequence that is not UTF-8 is left out, or replaced by U+FFFD.
Received(s) == IF error_handler = "replace" THEN Repaired(s, ReplacementBytes)
               ELSE Repaired(s, <<>>)

MessagesArrive ==
  origin = "sender" /\ fate \notin {"none", "unsent"} =>
    /\ fate = "handled"
    /\ delivered.type = message.type
    /\ delivered.values = [k \in DOMAIN message.values |->
         [message.values[k] EXCEPT !.text = Received(@),
                                   !.list = [n \in DOMAIN @ |-> Received(@[n])]]]

\* A string that the lexer let through can be dumped: what the server forwards
\* (a name, a content, a room) never makes its own dump throw.
ScannedIsDumpable ==
  \A n \in DOMAIN nodes :
    /\ WellFormed(nodes[n].text)
    /\ \A e \in ToSet(nodes[n].items) : WellFormed(e.key)

\* The grammar: a number, and which tokens of a text make a value.
IsNumber(s) ==
  LET Some(a, z)  == a <= z /\ \A k \in a .. z : s[k] \in Digit
      Whole(a, z) == Some(a, z) /\ (s[a] = 48 => a = z)
      Power(a, z) == \/ a > z
                     \/ s[a] \in Exp /\ (Some(a + 1, z) \/ (a < z /\ s[a + 1] \in Sign /\ Some(a + 2, z)))
      Part(a, z)  == a > z \/ (s[a] = Dot /\ Some(a + 1, z))
      first       == IF s[1] = Minus THEN 2 ELSE 1
  IN \E a \in 1 .. Len(s) : \E z \in a .. Len(s) :
       Whole(first, a) /\ Part(a + 1, z) /\ Power(z + 1, Len(s))

\* Where the tokens from the a-th on can end a value, a list of values or a list
\* of members.
Phrases == {"value", "values", "members"}

IsValue(ts) ==
  LET ends[a \in Nat \ {0}] ==
        [what \in Phrases |->
           LET Closed(end, list) ==
                 {z \in a + 1 .. Len(ts) : ts[z] = end /\ (z = a + 1 \/ z - 1 \in ends[a + 1][list])}
               value  == IF a > Len(ts) THEN {}
                         ELSE IF ts[a] \in Scalars THEN {a}
                         ELSE IF ts[a] = "begin_array" THEN Closed("end_array", "values")
                         ELSE IF ts[a] = "begin_object" THEN Closed("end_object", "members")
                         ELSE {}
               member == IF a + 2 <= Len(ts) /\ ts[a] = "value_string" /\ ts[a + 1] = "name_separator"
                         THEN ends[a + 2]["value"]
                         ELSE {}
               first  == IF what = "members" THEN member ELSE value
               comma  == {c \in a + 1 .. Len(ts) : ts[c] = "value_separator" /\ c - 1 \in first}
           IN IF what = "value" THEN value
              ELSE first \cup UNION {ends[c + 1][what] : c \in comma}]
  IN Len(ts) \in ends[1]["value"]

\* What the lexer makes of a text, up to the end or the first error.
Tokens(s) ==
  LET from[p \in Nat \ {0}] ==
        LET t == Scan(s, p)
        IN IF t.type = "end_of_input" THEN <<>>
           ELSE IF t.type = "parse_error" THEN <<t>>
           ELSE <<t>> \o from[t.next]
  IN from[1]

TokenTypes(s) == LET tokens == Tokens(s) IN [k \in DOMAIN tokens |-> tokens[k].type]

NumberBytes == Digit \cup Sign \cup Exp \cup {Dot}

IsJson == IF text # <<>> /\ ToSet(text) \subseteq NumberBytes THEN IsNumber(text)
          ELSE IsValue(TokenTypes(text))

\* json::parse accepts what the grammar derives and nothing else.
AcceptsJson ==
  /\ verdict = "accepted" => IsJson
  /\ verdict = "parse_error" => ~IsJson

\* Every text comes to an end in both machines.
Finishes == <>(fate # "none")
=============================================================================
