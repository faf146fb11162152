----------------------------- MODULE JsonMessages -----------------------------
(***************************************************************************)
(* The messages of message_type.hpp: the value their to_json builds, the    *)
(* pieces in which serializer::dump writes it, and what from_json finds in  *)
(* a value that was parsed.  A name of a member is its first letter.        *)
(***************************************************************************)
EXTENDS Utf8, SequencesExt

-----------------------------------------------------------------------------
(* to_json: the members in the order of the object's map.                   *)

Member(letter, kind) == [key |-> <<letter>>, kind |-> kind]

RoomName == <<Member(114, "string")>>

Members(type) ==
  CASE type = "login"              -> <<Member(112, "string"), Member(117, "string")>>
    [] type = "enter_room"         -> RoomName
    [] type = "create_room"        -> RoomName
    [] type = "leave_room"         -> RoomName
    [] type = "send_message"       -> <<Member(99, "string"), Member(114, "string"),
                                        Member(116, "int")>>
    [] type = "message"            -> <<Member(99, "string"), Member(115, "string")>>
    [] type = "get_users_response" -> <<Member(117, "list")>>
    [] type = "get_rooms_response" -> <<Member(114, "list")>>
    [] OTHER                       -> <<>>

ServerHandles == {"login", "enter_room", "get_rooms_request", "send_message", "leave_room",
                  "get_users_request", "create_room"}
ClientHandles == {"get_rooms_response", "get_users_response", "message"}
MessageTypes  == ServerHandles \cup ClientHandles

\* A request is sent as an empty string, though its to_json is null.
Requests == {"get_rooms_request", "get_users_request"}

\* The value of a member: a string, a number or a list of strings.
StringValue(s) == [text |-> s, num |-> 0, list |-> <<>>]
IntValue(n)    == [text |-> <<>>, num |-> n, list |-> <<>>]
ListValue(l)   == [text |-> <<>>, num |-> 0, list |-> l]

Message(type, values) == [type |-> type, values |-> values]

\* The types of the members in the structs; what is of another type is empty.
IsValueOf(kind, v) ==
  /\ v \in [text : Seq(Bytes), num : Int, list : Seq(Seq(Bytes))]
  /\ kind # "string" => v.text = <<>>
  /\ kind # "int" => v.num = 0
  /\ kind # "list" => v.list = <<>>

IsMessage(m) ==
  /\ m = Message(m.type, m.values)
  /\ m.type \in MessageTypes
  /\ DOMAIN m.values = DOMAIN Members(m.type)
  /\ \A k \in DOMAIN m.values : IsValueOf(Members(m.type)[k].kind, m.values[k])

Strings(m) == UNION {{v.text} \cup ToSet(v.list) : v \in ToSet(m.values)}

-----------------------------------------------------------------------------
(* dump: the characters written as they are, and the strings in between.    *)

Raw(bytes)  == <<[escape |-> FALSE, bytes |-> bytes]>>
Quoted(s)   == Raw(<<Quote>>) \o <<[escape |-> TRUE, bytes |-> s]>> \o Raw(<<Quote>>)

\* count_digits and dump_integer.
Digits(n) ==
  LET below[k \in Nat] == IF k < 10 THEN <<48 + k>> ELSE Append(below[k \div 10], 48 + (k % 10))
  IN IF n < 0 THEN <<45>> \o below[-n] ELSE below[n]

\* A comma behind all but the last of the parts.
Listed(parts) == FlattenSeq([k \in DOMAIN parts |->
                   IF k < Len(parts) THEN parts[k] \o Raw(<<44>>) ELSE parts[k]])

DumpValue(kind, v) ==
  CASE kind = "string" -> Quoted(v.text)
    [] kind = "int"    -> Raw(Digits(v.num))
    [] OTHER           -> Raw(<<91>>) \o Listed([k \in DOMAIN v.list |-> Quoted(v.list[k])])
                          \o Raw(<<93>>)

DumpMember(member, v) == Quoted(member.key) \o Raw(<<58>>) \o DumpValue(member.kind, v)

Dump(m) ==
  LET members == Members(m.type)
  IN IF m.type \in Requests THEN Quoted(<<>>)
     ELSE Raw(<<123>>)
          \o Listed([k \in DOMAIN members |-> DumpMember(members[k], m.values[k])])
          \o Raw(<<125>>)

-----------------------------------------------------------------------------
(* from_json: the value is the first of the nodes the parser left.          *)

\* at(): the numbers of the nodes found; type_error 304 and out_of_range 403
\* are both the empty set.
Found(nodes, key) ==
  IF nodes[1].type # "object" THEN {}
  ELSE {e.node : e \in {x \in ToSet(nodes[1].items) : x.key = key}}

Numeric == {"unsigned", "integer", "float", "boolean"}

\* get<std::string>, get<int>, get<std::vector<std::string>>: no type_error 302.
Readable(nodes, n, kind) ==
  CASE kind = "string" -> nodes[n].type = "string"
    [] kind = "int"    -> nodes[n].type \in Numeric
    [] OTHER           -> /\ nodes[n].type = "array"
                          /\ \A e \in ToSet(nodes[n].items) : nodes[e.node].type = "string"

Read(nodes, n, kind) ==
  CASE kind = "string" -> StringValue(nodes[n].text)
    [] kind = "int"    -> IntValue(nodes[n].num)
    [] OTHER           -> ListValue([k \in DOMAIN nodes[n].items |->
                                       nodes[nodes[n].items[k].node].text])

\* from_json throws nothing.
Deserializable(nodes, type) ==
  \A member \in ToSet(Members(type)) :
    \E n \in Found(nodes, member.key) : Readable(nodes, n, member.kind)

FromJson(nodes, type) ==
  Message(type, [k \in DOMAIN Members(type) |->
    LET member == Members(type)[k]
    IN Read(nodes, CHOOSE n \in Found(nodes, member.key) : TRUE, member.kind)])
=============================================================================
