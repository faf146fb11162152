------------------------------ MODULE JsonParser ------------------------------
(***************************************************************************)
(* parser of json.hpp: sax_parse_internal drives json_sax_dom_parser, which *)
(* builds the value json::parse returns.  The parser has a stack of its own *)
(* (states: are we in an array or in an object) and the builder has another *)
(* one (ref_stack: pointers to the arrays and objects that are open), and   *)
(* object_element points to the member whose value is read next.            *)
(*                                                                         *)
(* The values lie in nodes; node 1 is the result, and a pointer is the      *)
(* number of a node.                                                        *)
(***************************************************************************)
EXTENDS JsonLexer, SequencesExt

VARIABLES
  text,         \* what is parsed
  last_token,   \* the lexer reads on where it ends
  states,       \* a stack of "array" (true in the code) and "object"
  evaluate,     \* a value was parsed: evaluate the state next
  dom,          \* json_sax_dom_parser: nodes, ref_stack and object_element, 0 for
                \* the null pointer
  verdict       \* "idle", "parsing", "parsed", "accepted", "parse_error" or
                \* "out_of_range"

parseVars == <<text, last_token, states, evaluate, dom, verdict>>

Node(type, str, num) == [type |-> type, text |-> str, num |-> num, items |-> <<>>]
NullNode  == Node("null", <<>>, 0)

Scalars == {"value_string", "value_unsigned", "value_integer", "value_float",
            "literal_true", "literal_false", "literal_null"}

ScalarNode(t) ==
  Node(CASE t.type = "value_string"   -> "string"
         [] t.type = "value_unsigned" -> "unsigned"
         [] t.type = "value_integer"  -> "integer"
         [] t.type = "value_float"    -> "float"
         [] t.type = "literal_null"   -> "null"
         [] OTHER                     -> "boolean",
       t.text, IF t.type = "literal_true" THEN 1 ELSE t.num)

-----------------------------------------------------------------------------
(* json_sax_dom_parser: what its calls make of the builder h.               *)

Entry(key, n) == [key |-> key, node |-> n]

\* Where handle_value puts a value.
Place(h) == IF h.ref_stack = <<>> THEN 1
            ELSE IF h.nodes[Last(h.ref_stack)].type = "array" THEN Len(h.nodes) + 1
            ELSE h.object_element

\* The container on top gets one more child.
AddChild(h, key, v) ==
  LET entry  == Entry(key, Len(h.nodes) + 1)
      linked == [h.nodes EXCEPT ![Last(h.ref_stack)].items = Append(@, entry)]
  IN [h EXCEPT !.nodes = Append(linked, v)]

\* The root is replaced, an array grows, a member is overwritten.
HandleValue(h, v) == IF Place(h) > Len(h.nodes) THEN AddChild(h, <<>>, v)
                     ELSE [h EXCEPT !.nodes[Place(h)] = v]

\* start_object and start_array.
StartContainer(h, type) ==
  [HandleValue(h, Node(type, <<>>, 0)) EXCEPT !.ref_stack = Append(@, Place(h))]

\* end_object and end_array.
EndContainer(h) == [h EXCEPT !.ref_stack = Front(@)]

\* key: operator[] finds the member, or adds one that is null.
Key(h, key) ==
  LET items == h.nodes[Last(h.ref_stack)].items
      found == {k \in 1 .. Len(items) : items[k].key = key}
  IN IF found # {}
     THEN [h EXCEPT !.object_element = items[CHOOSE k \in found : TRUE].node]
     ELSE [AddChild(h, key, NullNode) EXCEPT !.object_element = Len(h.nodes) + 1]

-----------------------------------------------------------------------------
(* sax_parse_internal.  t is the token that get_token reads last in a step. *)

Next1 == Scan(text, last_token.next)
Next2 == Scan(text, Next1.next)

ParseError(t) ==
  /\ verdict' = "parse_error"
  /\ last_token' = t
  /\ UNCHANGED <<dom, text, states, evaluate>>

AtValue(types) == verdict = "parsing" /\ ~evaluate /\ last_token.type \in types
AtState(top)   == verdict = "parsing" /\ evaluate /\ states # <<>> /\ Last(states) = top

\* A member begins: its key, a colon and the first token of its value are
\* read from the token k on, or the text is refused at one of them.
MemberFollows(k, h, stack) ==
  LET colon == Scan(text, k.next)
  IN IF k.type # "value_string" THEN ParseError(k)
     ELSE IF colon.type # "name_separator" THEN ParseError(colon)
     ELSE /\ last_token' = Scan(text, colon.next)
          /\ dom' = Key(h, k.text)
          /\ states' = stack
          /\ evaluate' = FALSE
          /\ UNCHANGED <<text, verdict>>

\* A value is complete, and so is what it closes.
Completed(t, h, stack) ==
  /\ last_token' = t
  /\ dom' = h
  /\ states' = stack
  /\ evaluate' = TRUE
  /\ UNCHANGED <<text, verdict>>

BeginObject ==
  /\ AtValue({"begin_object"})
  /\ LET h == StartContainer(dom, "object")
     IN IF Next1.type = "end_object" THEN Completed(Next1, EndContainer(h), states)
        ELSE MemberFollows(Next1, h, Append(states, "object"))

BeginArray ==
  /\ AtValue({"begin_array"})
  /\ LET h == StartContainer(dom, "array")
     IN IF Next1.type = "end_array" THEN Completed(Next1, EndContainer(h), states)
        ELSE /\ last_token' = Next1
             /\ dom' = h
             /\ states' = Append(states, "array")
             /\ UNCHANGED <<text, evaluate, verdict>>

ScalarValue ==
  /\ AtValue(Scalars)
  /\ Completed(last_token, HandleValue(dom, ScalarNode(last_token)), states)

\* strtod may have returned an infinity.
FloatOverflow ==
  /\ AtValue({"value_float"})
  /\ verdict' = "out_of_range"
  /\ UNCHANGED <<dom, text, last_token, states, evaluate>>

Unexpected ==
  /\ verdict = "parsing" /\ ~evaluate
  /\ last_token.type \notin Scalars \cup {"begin_object", "begin_array"}
  /\ ParseError(last_token)

\* The end of the hierarchy.
EndOfHierarchy ==
  /\ verdict = "parsing" /\ evaluate /\ states = <<>>
  /\ verdict' = "parsed"
  /\ UNCHANGED <<dom, text, last_token, states, evaluate>>

NextElement ==
  /\ AtState("array")
  /\ Next1.type = "value_separator"
  /\ last_token' = Next2
  /\ evaluate' = FALSE
  /\ UNCHANGED <<dom, text, states, verdict>>

NextMember ==
  /\ AtState("object")
  /\ Next1.type = "value_separator"
  /\ MemberFollows(Next2, dom, states)

\* Mistake: only the builder's stack is popped.
NotPopped == states

Popped == Front(states)

Close(type, end) ==
  /\ AtState(type)
  /\ Next1.type = end
  /\ Completed(Next1, EndContainer(dom), Popped)

EndArray  == Close("array", "end_array")
EndObject == Close("object", "end_object")

\* Neither a comma nor the end of what is open.
MissingEnd ==
  /\ \/ AtState("array") /\ Next1.type \notin {"value_separator", "end_array"}
     \/ AtState("object") /\ Next1.type \notin {"value_separator", "end_object"}
  /\ ParseError(Next1)

\* Mistake: what follows the value is not looked at.
Whatever(t) == TRUE

Exhausted(t) == t.type = "end_of_input"

\* parse, in strict mode: the input must be completely read.
StrictEnd ==
  /\ verdict = "parsed"
  /\ last_token' = Next1
  /\ verdict' = IF Exhausted(Next1) THEN "accepted" ELSE "parse_error"
  /\ UNCHANGED <<dom, text, states, evaluate>>

ParseNext ==
  \/ BeginObject \/ BeginArray \/ ScalarValue \/ FloatOverflow \/ Unexpected
  \/ EndOfHierarchy \/ NextElement \/ NextMember \/ EndArray \/ EndObject
  \/ MissingEnd \/ StrictEnd

\* The constructors of the parser and of the builder: the first token is read.
NewParser == /\ states = <<>>
             /\ evaluate = FALSE
             /\ dom = [nodes |-> <<NullNode>>, ref_stack |-> <<>>, object_element |-> 0]

StartParse(t) ==
  /\ verdict' = "parsing"
  /\ text' = t
  /\ last_token' = Scan(t, 1)
  /\ UNCHANGED <<states, evaluate, dom>>

-----------------------------------------------------------------------------
(* Properties. *)

nodes     == dom.nodes
ref_stack == dom.ref_stack
Types     == [k \in DOMAIN ref_stack |-> nodes[ref_stack[k]].type]
Holds(n)  == {e.node : e \in ToSet(nodes[n].items)}

\* The two stacks say the same, as the assertions of the builder expect: while
\* the parser asks for a value in an array, the builder has that array on top;
\* every container that is open hangs in the one below it, and the member that
\* a value is about to be written to belongs to the object on top.
StacksAgree ==
  verdict \in {"parsing", "parsed"} =>
    /\ states = Types
    /\ \A k \in 1 .. Len(ref_stack) :
         IF k = 1 THEN ref_stack[1] = 1 ELSE ref_stack[k] \in Holds(ref_stack[k - 1])
    /\ ~evaluate /\ ref_stack # <<>> /\ Last(Types) = "object" =>
         dom.object_element \in Holds(Last(ref_stack))
=============================================================================
