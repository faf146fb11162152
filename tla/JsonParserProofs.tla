--------------------------- MODULE JsonParserProofs ---------------------------
(***************************************************************************)
(* The two stacks of the parser agree, for every text.  The argument is     *)
(* about the builder: the values it has stored form a tree in which a child *)
(* lies behind its parent, ref_stack is a path down that tree, and neither  *)
(* a new value nor an overwritten one lies on the path.  And what it stores *)
(* is UTF-8, because each unit that the lexer reads is.  And it accepts     *)
(* what the grammar derives: at each token the rest of the tokens closes    *)
(* what is open, if the whole is a value.  The last sections are about      *)
(* single strings and numbers: of which bytes scan_string reads a given     *)
(* string, and what scan_number computes of the digits of a number.         *)
(***************************************************************************)
EXTENDS JsonSerializerProofs

USE DEF UTF8_ACCEPT, UTF8_REJECT

-----------------------------------------------------------------------------
(* Sequences whose elements are of no particular set. *)

IsSeq(s) == \E S : s \in Seq(S)

LEMMA SeqLength ==
  ASSUME NEW s, IsSeq(s)
  PROVE  Len(s) \in Nat /\ DOMAIN s = 1 .. Len(s) /\ (s # <<>> <=> Len(s) > 0)
<1>1. PICK S : s \in Seq(S)
  BY DEF IsSeq
<1> QED BY <1>1, EmptySeq, LenProperties

LEMMA SeqAppend ==
  ASSUME NEW s, IsSeq(s), NEW e
  PROVE  /\ IsSeq(Append(s, e))
         /\ Len(Append(s, e)) = Len(s) + 1
         /\ \A k \in 1 .. Len(s) : Append(s, e)[k] = s[k]
         /\ Append(s, e)[Len(s) + 1] = e
         /\ ToSet(Append(s, e)) = ToSet(s) \cup {e}
<1>1. PICK S : s \in Seq(S)
  BY DEF IsSeq
<1>2. s \in Seq(S \cup {e})
  BY <1>1, SeqMonotonic
<1>3. /\ Append(s, e) \in Seq(S \cup {e})
      /\ Len(Append(s, e)) = Len(s) + 1 /\ Len(s) \in Nat
      /\ \A k \in 1 .. Len(s) : Append(s, e)[k] = s[k]
      /\ Append(s, e)[Len(s) + 1] = e
  BY <1>2
<1>4. DOMAIN Append(s, e) = 1 .. Len(s) + 1 /\ DOMAIN s = 1 .. Len(s)
  BY <1>2, <1>3, LenProperties
<1>5. 1 .. Len(s) + 1 = (1 .. Len(s)) \cup {Len(s) + 1}
  BY <1>3
<1>6. ToSet(Append(s, e)) = ToSet(s) \cup {e}
  BY <1>3, <1>4, <1>5 DEF ToSet
<1> QED BY <1>3, <1>6 DEF IsSeq

LEMMA SeqExcept ==
  ASSUME NEW s, IsSeq(s), NEW n \in 1 .. Len(s), NEW e
  PROVE  /\ IsSeq([s EXCEPT ![n] = e])
         /\ Len([s EXCEPT ![n] = e]) = Len(s)
         /\ \A k \in 1 .. Len(s) : [s EXCEPT ![n] = e][k] = IF k = n THEN e ELSE s[k]
<1>1. PICK S : s \in Seq(S)
  BY DEF IsSeq
<1>2. s \in Seq(S \cup {e})
  BY <1>1, SeqMonotonic
<1>3. e \in S \cup {e}
  OBVIOUS
<1> QED BY <1>2, <1>3, ExceptSeq DEF IsSeq

LEMMA FrontOfSeq ==
  ASSUME NEW S, NEW s \in Seq(S), s # <<>>
  PROVE  /\ Front(s) \in Seq(S) /\ Len(Front(s)) = Len(s) - 1
         /\ \A k \in 1 .. Len(s) - 1 : Front(s)[k] = s[k]
<1> DEFINE n == Len(s) - 1
           f == SubSeq(s, 1, n)
<1>1. Len(s) \in Nat \ {0} /\ \A k \in 1 .. n : s[k] \in S
  BY EmptySeq, LenProperties
<1>2. n \in Nat
  BY <1>1
<1> HIDE DEF n
<1>3. f \in Seq(S) /\ Len(f) = (IF 1 <= n THEN n - 1 + 1 ELSE 0)
      /\ \A k \in 1 .. n - 1 + 1 : f[k] = s[1 + k - 1]
  BY <1>1, <1>2, SubSeqProperties
<1> HIDE DEF f
<1>4. Len(f) = n /\ \A k \in 1 .. n : f[k] = s[k]
  BY <1>2, <1>3
<1> QED BY <1>3, <1>4 DEF Front, f, n

LEMMA FrontOfAppend ==
  ASSUME NEW S, NEW s \in Seq(S), NEW e \in S
  PROVE  Front(Append(s, e)) = s
<1> DEFINE a == Append(s, e)
<1>1. a \in Seq(S) /\ a # <<>> /\ Len(a) = Len(s) + 1 /\ Len(s) \in Nat
      /\ \A k \in 1 .. Len(s) : a[k] = s[k]
  OBVIOUS
<1> HIDE DEF a
<1>2. Front(a) \in Seq(S) /\ Len(Front(a)) = Len(a) - 1
      /\ \A k \in 1 .. Len(a) - 1 : Front(a)[k] = a[k]
  BY <1>1, FrontOfSeq
<1>3. Front(a) = s
  BY <1>1, <1>2, SeqEqual
<1> QED BY <1>3 DEF a

-----------------------------------------------------------------------------
(* The builder h. *)

IsNode(v) == /\ v = [type |-> v.type, text |-> v.text, num |-> v.num, items |-> v.items]
             /\ IsSeq(v.items)

Children(h, n) == {e.node : e \in ToSet(h.nodes[n].items)}

Tree(h) ==
  /\ h = [nodes |-> h.nodes, ref_stack |-> h.ref_stack, object_element |-> h.object_element]
  /\ IsSeq(h.nodes) /\ Len(h.nodes) > 0
  /\ \A n \in 1 .. Len(h.nodes) : /\ IsNode(h.nodes[n])
                                  /\ Children(h, n) \subseteq n + 1 .. Len(h.nodes)

\* The path from the root to the container on top of ref_stack.
Path(h) ==
  /\ h.ref_stack \in Seq(1 .. Len(h.nodes))
  /\ \A k \in 1 .. Len(h.ref_stack) :
       IF k = 1 THEN h.ref_stack[1] = 1 ELSE h.ref_stack[k] \in Children(h, h.ref_stack[k - 1])
  /\ \A j \in 1 .. Len(h.ref_stack) : \A k \in 1 .. Len(h.ref_stack) :
       j < k => h.ref_stack[j] < h.ref_stack[k]

Stacked(h, stack) ==
  /\ stack \in Seq({"array", "object"})
  /\ Len(stack) = Len(h.ref_stack)
  /\ \A k \in 1 .. Len(stack) : stack[k] = h.nodes[h.ref_stack[k]].type

\* A value is written to a member of the object on top.
Aimed(h) ==
  h.ref_stack # <<>> /\ h.nodes[Last(h.ref_stack)].type = "object" =>
    h.object_element \in Children(h, Last(h.ref_stack))

ParserInv ==
  /\ Tree(dom) /\ Path(dom) /\ Stacked(dom, states)
  /\ evaluate \in BOOLEAN
  /\ ~evaluate => Aimed(dom)

LEMMA TopOfPath ==
  ASSUME NEW h, Tree(h), Path(h), h.ref_stack # <<>>
  PROVE  /\ Len(h.ref_stack) \in Nat \ {0} /\ Len(h.nodes) \in Nat
         /\ Last(h.ref_stack) = h.ref_stack[Len(h.ref_stack)]
         /\ Last(h.ref_stack) \in 1 .. Len(h.nodes)
         /\ \A k \in 1 .. Len(h.ref_stack) : /\ h.ref_stack[k] \in 1 .. Len(h.nodes)
                                             /\ h.ref_stack[k] <= Last(h.ref_stack)
<1>1. Len(h.nodes) \in Nat
  BY SeqLength DEF Tree
<1>2. Len(h.ref_stack) \in Nat \ {0}
  BY EmptySeq DEF Path
<1>3. \A k \in 1 .. Len(h.ref_stack) : h.ref_stack[k] \in 1 .. Len(h.nodes)
  BY <1>2 DEF Path
<1>4. \A k \in 1 .. Len(h.ref_stack) : h.ref_stack[k] <= h.ref_stack[Len(h.ref_stack)]
  BY <1>1, <1>2, <1>3 DEF Path
<1> QED BY <1>1, <1>2, <1>3, <1>4 DEF Last

LEMMA NoChildren ==
  ASSUME NEW h, NEW n, h.nodes[n].items = <<>>
  PROVE  Children(h, n) = {}
<1>1. DOMAIN <<>> = {}
  OBVIOUS
<1> QED BY <1>1 DEF Children, ToSet

\* Nothing happens to the containers on the path but that they get children.
LEMMA PathKept ==
  ASSUME NEW h, Tree(h), Path(h), NEW stack, Stacked(h, stack),
         NEW g, Tree(g), g.ref_stack = h.ref_stack, Len(h.nodes) <= Len(g.nodes),
         \A k \in 1 .. Len(h.ref_stack) :
           /\ g.nodes[h.ref_stack[k]].type = h.nodes[h.ref_stack[k]].type
           /\ Children(h, h.ref_stack[k]) \subseteq Children(g, h.ref_stack[k])
  PROVE  Path(g) /\ Stacked(g, stack)
<1>1. Len(h.nodes) \in Nat /\ Len(g.nodes) \in Nat
  BY SeqLength DEF Tree
<1>2. Len(h.ref_stack) \in Nat
  BY LenProperties DEF Path
<1>3. g.ref_stack \in Seq(1 .. Len(g.nodes))
  <2>1. 1 .. Len(h.nodes) \subseteq 1 .. Len(g.nodes)
    BY <1>1
  <2> QED BY <2>1, SeqMonotonic DEF Path
<1>4. ASSUME NEW k \in 1 .. Len(h.ref_stack)
      PROVE  IF k = 1 THEN g.ref_stack[1] = 1
             ELSE g.ref_stack[k] \in Children(g, g.ref_stack[k - 1])
  <2>1. CASE k = 1
    BY <2>1 DEF Path
  <2>2. CASE k # 1
    <3>1. k - 1 \in 1 .. Len(h.ref_stack)
      BY <1>2, <2>2
    <3> QED BY <2>2, <3>1 DEF Path
  <2> QED BY <2>1, <2>2
<1>5. Path(g)
  BY <1>3, <1>4 DEF Path
<1>6. Stacked(g, stack)
  BY DEF Stacked
<1> QED BY <1>5, <1>6

\* Nothing is new in the nodes there were but a member of that key.
Grown(h, g, key) ==
  \A n \in 1 .. Len(h.nodes) :
    /\ g.nodes[n].text = h.nodes[n].text
    /\ \A e \in ToSet(g.nodes[n].items) : e \in ToSet(h.nodes[n].items) \/ e.key = key

\* A container gets a child.
LEMMA ChildAdded ==
  ASSUME NEW h, Tree(h), NEW top, top = Last(h.ref_stack), top \in 1 .. Len(h.nodes), NEW key,
         NEW v, IsNode(v), v.items = <<>>,
         NEW g, g = AddChild(h, key, v)
  PROVE  /\ Tree(g) /\ g.ref_stack = h.ref_stack /\ g.object_element = h.object_element
         /\ Len(g.nodes) = Len(h.nodes) + 1 /\ g.nodes[Len(h.nodes) + 1] = v
         /\ \A n \in 1 .. Len(h.nodes) : g.nodes[n].type = h.nodes[n].type
         /\ \A n \in 1 .. Len(h.nodes) : Children(h, n) \subseteq Children(g, n)
         /\ Len(h.nodes) + 1 \in Children(g, top)
         /\ Grown(h, g, key)
<1> DEFINE e     == Entry(key, Len(h.nodes) + 1)
           items == Append(h.nodes[top].items, e)
           node  == [h.nodes[top] EXCEPT !.items = items]
           all   == [h.nodes EXCEPT ![top] = node]
<1>1. Len(h.nodes) \in Nat /\ IsSeq(h.nodes) /\ DOMAIN h.nodes = 1 .. Len(h.nodes)
  BY SeqLength DEF Tree
<1>2. IsNode(h.nodes[top]) /\ IsSeq(h.nodes[top].items)
  BY DEF Tree, IsNode
<1>3. IsSeq(items) /\ ToSet(items) = ToSet(h.nodes[top].items) \cup {e}
  <2> HIDE DEF e
  <2> QED BY <1>2, SeqAppend
<1>4. /\ node.items = items /\ node.type = h.nodes[top].type /\ IsNode(node)
      /\ node.text = h.nodes[top].text
  <2> HIDE DEF items
  <2> QED BY <1>2, <1>3 DEF IsNode
<1>5. /\ IsSeq(all) /\ Len(all) = Len(h.nodes)
      /\ \A n \in 1 .. Len(h.nodes) : all[n] = IF n = top THEN node ELSE h.nodes[n]
  <2> HIDE DEF node
  <2> QED BY <1>1, SeqExcept
<1>6. /\ g.nodes = Append(all, v)
      /\ g = [nodes |-> g.nodes, ref_stack |-> h.ref_stack, object_element |-> h.object_element]
  <2>1. PICK N, R, O : h = [nodes |-> N, ref_stack |-> R, object_element |-> O]
    BY DEF Tree
  <2>2. g = [h EXCEPT !.nodes = Append([N EXCEPT ![top].items = Append(@, e)], v)]
    <3>1. N = h.nodes
      BY <2>1
    <3> QED BY <3>1 DEF AddChild
  <2>3. [N EXCEPT ![top].items = Append(@, e)] = [N EXCEPT ![top]
          = [N[top] EXCEPT !.items = Append(N[top].items, e)]]
    <3>1. N = h.nodes /\ N[top] = [type |-> N[top].type, text |-> N[top].text, num |-> N[top].num,
            items |-> N[top].items]
      BY <1>2, <2>1 DEF IsNode
    <3> HIDE DEF e
    <3> QED BY <3>1
  <2>4. [N EXCEPT ![top].items = Append(@, e)] = all
    BY <2>1, <2>3
  <2> HIDE DEF all
  <2>5. g = [nodes |-> Append(all, v), ref_stack |-> R, object_element |-> O]
    BY <2>1, <2>2, <2>4
  <2> QED BY <2>1, <2>5
<1> HIDE DEF all, node, items
<1>7. /\ IsSeq(g.nodes) /\ Len(g.nodes) = Len(h.nodes) + 1 /\ g.nodes[Len(h.nodes) + 1] = v
      /\ \A n \in 1 .. Len(h.nodes) : g.nodes[n] = IF n = top THEN node ELSE h.nodes[n]
  BY <1>5, <1>6, SeqAppend
<1>8. \A n \in 1 .. Len(h.nodes) : n # top => Children(g, n) = Children(h, n)
  BY <1>7 DEF Children
<1>9. Children(g, top) = Children(h, top) \cup {Len(h.nodes) + 1}
  <2>1. g.nodes[top].items = items
    BY <1>4, <1>7
  <2>2. e.node = Len(h.nodes) + 1
    BY DEF Entry
  <2> HIDE DEF e
  <2> QED BY <1>3, <2>1, <2>2, Zenon DEF Children
<1>10. Children(g, Len(h.nodes) + 1) = {}
  BY <1>7, NoChildren
<1>11. ASSUME NEW n \in 1 .. Len(g.nodes)
       PROVE  IsNode(g.nodes[n]) /\ Children(g, n) \subseteq n + 1 .. Len(g.nodes)
  <2>1. CASE n = Len(h.nodes) + 1
    BY <2>1, <1>7, <1>10
  <2>2. CASE n \in 1 .. Len(h.nodes)
    <3>1. IsNode(g.nodes[n])
      BY <2>2, <1>4, <1>7 DEF Tree
    <3>2. Children(h, n) \subseteq n + 1 .. Len(h.nodes)
      BY <2>2 DEF Tree
    <3>3. Children(g, n) \subseteq Children(h, n) \cup {Len(h.nodes) + 1}
      BY <1>8, <1>9, <2>2
    <3> QED BY <1>1, <1>7, <2>2, <3>1, <3>2, <3>3
  <2> QED BY <1>1, <1>7, <2>1, <2>2
<1>12. Tree(g)
  BY <1>1, <1>6, <1>7, <1>11 DEF Tree
<1>13. \A n \in 1 .. Len(h.nodes) : g.nodes[n].type = h.nodes[n].type
  BY <1>4, <1>7
<1>14. Grown(h, g, key)
  <2>1. e.key = key
    BY DEF Entry
  <2> HIDE DEF e
  <2> QED BY <1>3, <1>4, <1>7, <2>1 DEF Grown
<1>15. /\ Tree(g) /\ g.ref_stack = h.ref_stack /\ g.object_element = h.object_element
       /\ Len(g.nodes) = Len(h.nodes) + 1 /\ g.nodes[Len(h.nodes) + 1] = v
       /\ \A n \in 1 .. Len(h.nodes) : g.nodes[n].type = h.nodes[n].type
       /\ \A n \in 1 .. Len(h.nodes) : Children(h, n) \subseteq Children(g, n)
       /\ Len(h.nodes) + 1 \in Children(g, top)
  BY <1>6, <1>7, <1>8, <1>9, <1>12, <1>13
<1> QED BY <1>14, <1>15

\* A value is overwritten.
LEMMA NodeReplaced ==
  ASSUME NEW h, Tree(h), NEW n \in 1 .. Len(h.nodes), NEW v, IsNode(v), v.items = <<>>,
         NEW g, g = [h EXCEPT !.nodes[n] = v]
  PROVE  /\ Tree(g) /\ g.ref_stack = h.ref_stack /\ g.object_element = h.object_element
         /\ Len(g.nodes) = Len(h.nodes) /\ g.nodes[n] = v
         /\ \A m \in 1 .. Len(h.nodes) \ {n} : g.nodes[m] = h.nodes[m]
         /\ \A m \in 1 .. Len(h.nodes) \ {n} : Children(g, m) = Children(h, m)
<1>1. Len(h.nodes) \in Nat /\ IsSeq(h.nodes)
  BY SeqLength DEF Tree
<1>2. g = [nodes |-> [h.nodes EXCEPT ![n] = v], ref_stack |-> h.ref_stack,
           object_element |-> h.object_element]
  BY DEF Tree
<1>3. /\ IsSeq(g.nodes) /\ Len(g.nodes) = Len(h.nodes)
      /\ \A m \in 1 .. Len(h.nodes) : g.nodes[m] = IF m = n THEN v ELSE h.nodes[m]
  BY <1>1, <1>2, SeqExcept
<1>4. \A m \in 1 .. Len(h.nodes) \ {n} : Children(g, m) = Children(h, m)
  BY <1>3 DEF Children
<1>5. Children(g, n) = {}
  BY <1>3, NoChildren
<1>6. Tree(g)
  BY <1>1, <1>2, <1>3, <1>4, <1>5 DEF Tree
<1> QED BY <1>2, <1>3, <1>4, <1>6
-----------------------------------------------------------------------------
(* What the calls of json_sax_dom_parser do to the builder. *)

\* A value is put where it belongs, and not over a container on the path.
LEMMA ValueHandled ==
  ASSUME NEW h, Tree(h), Path(h), NEW stack, Stacked(h, stack), Aimed(h),
         NEW v, IsNode(v), v.items = <<>>,
         NEW p, p = Place(h), NEW g, g = HandleValue(h, v)
  PROVE  /\ Tree(g) /\ Path(g) /\ Stacked(g, stack) /\ g.ref_stack = h.ref_stack
         /\ p \in 1 .. Len(g.nodes) /\ g.nodes[p] = v
         /\ IF h.ref_stack = <<>> THEN p = 1
            ELSE p \in Children(g, Last(h.ref_stack)) /\ p > Last(h.ref_stack)
<1> DEFINE top == Last(h.ref_stack)
<1>1. Len(h.nodes) \in Nat /\ Len(h.nodes) > 0
  BY SeqLength DEF Tree
<1>2. CASE h.ref_stack = <<>>
  <2>1. p = 1 /\ p \in 1 .. Len(h.nodes) /\ g = [h EXCEPT !.nodes[p] = v]
    BY <1>1, <1>2 DEF Place, HandleValue
  <2>2. /\ Tree(g) /\ g.ref_stack = h.ref_stack /\ Len(g.nodes) = Len(h.nodes)
        /\ g.nodes[p] = v
    BY <2>1, NodeReplaced
  <2>3. Path(g) /\ Stacked(g, stack)
    BY <1>1, <1>2, <2>2, PathKept
  <2> QED BY <1>2, <2>1, <2>2, <2>3
<1>3. CASE h.ref_stack # <<>> /\ h.nodes[top].type = "array"
  <2>1. top \in 1 .. Len(h.nodes)
    BY <1>3, TopOfPath
  <2>2. p = Len(h.nodes) + 1 /\ g = AddChild(h, <<>>, v)
    BY <1>1, <1>3 DEF Place, HandleValue
  <2>3. /\ Tree(g) /\ g.ref_stack = h.ref_stack /\ Len(g.nodes) = Len(h.nodes) + 1
        /\ g.nodes[p] = v /\ p \in Children(g, top)
        /\ \A n \in 1 .. Len(h.nodes) : /\ g.nodes[n].type = h.nodes[n].type
                                        /\ Children(h, n) \subseteq Children(g, n)
    BY <2>1, <2>2, ChildAdded
  <2>4. \A k \in 1 .. Len(h.ref_stack) : h.ref_stack[k] \in 1 .. Len(h.nodes)
    BY <1>3, TopOfPath
  <2>5. Path(g) /\ Stacked(g, stack)
    BY <1>1, <2>3, <2>4, PathKept, SMTT(30)
  <2> QED BY <1>1, <1>3, <2>1, <2>2, <2>3, <2>5
<1>4. CASE h.ref_stack # <<>> /\ h.nodes[top].type # "array"
  <2>1. /\ Len(h.ref_stack) \in Nat \ {0} /\ top \in 1 .. Len(h.nodes)
        /\ top = h.ref_stack[Len(h.ref_stack)]
        /\ \A k \in 1 .. Len(h.ref_stack) : /\ h.ref_stack[k] \in 1 .. Len(h.nodes)
                                            /\ h.ref_stack[k] <= top
    BY <1>4, TopOfPath
  <2>2. h.nodes[top].type = "object"
    <3>1. Len(stack) = Len(h.ref_stack) /\ stack[Len(stack)] = h.nodes[top].type
      BY <2>1 DEF Stacked
    <3>2. stack[Len(stack)] \in {"array", "object"}
      BY <2>1, <3>1 DEF Stacked
    <3> QED BY <1>4, <3>1, <3>2
  <2>3. p \in Children(h, top)
    BY <1>4, <2>2 DEF Place, Aimed
  <2>4. p \in top + 1 .. Len(h.nodes)
    BY <2>1, <2>3 DEF Tree
  <2>5. p \in 1 .. Len(h.nodes) /\ p > top /\ g = [h EXCEPT !.nodes[p] = v]
    BY <1>1, <2>1, <2>4 DEF HandleValue
  <2>6. /\ Tree(g) /\ g.ref_stack = h.ref_stack /\ Len(g.nodes) = Len(h.nodes)
        /\ g.nodes[p] = v
        /\ \A m \in 1 .. Len(h.nodes) \ {p} : /\ g.nodes[m] = h.nodes[m]
                                              /\ Children(g, m) = Children(h, m)
    BY <2>5, NodeReplaced
  <2>7. \A k \in 1 .. Len(h.ref_stack) : h.ref_stack[k] \in 1 .. Len(h.nodes) \ {p}
    BY <1>1, <2>1, <2>5
  <2>8. Path(g) /\ Stacked(g, stack)
    BY <1>1, <2>6, <2>7, PathKept
  <2>9. p \in Children(g, top)
    BY <2>1, <2>3, <2>6, <2>7
  <2> QED BY <1>4, <2>5, <2>6, <2>8, <2>9
<1> QED BY <1>2, <1>3, <1>4

LEMMA ContainerStarted ==
  ASSUME NEW h, Tree(h), Path(h), NEW stack, Stacked(h, stack), Aimed(h),
         NEW type \in {"array", "object"}, NEW g, g = StartContainer(h, type)
  PROVE  /\ Tree(g) /\ Path(g) /\ Stacked(g, Append(stack, type))
         /\ g.ref_stack # <<>> /\ g.nodes[Last(g.ref_stack)].type = type
<1> DEFINE v == Node(type, <<>>, 0)
           p == Place(h)
           f == HandleValue(h, v)
           n == Len(h.ref_stack)
<1>1. IsNode(v) /\ v.items = <<>> /\ v.type = type
  <2>1. <<>> \in Seq({})
    BY EmptySeq
  <2> QED BY <2>1 DEF Node, IsNode, IsSeq
<1>2. /\ Tree(f) /\ Path(f) /\ Stacked(f, stack) /\ f.ref_stack = h.ref_stack
      /\ p \in 1 .. Len(f.nodes) /\ f.nodes[p] = v
      /\ IF h.ref_stack = <<>> THEN p = 1
         ELSE p \in Children(f, Last(h.ref_stack)) /\ p > Last(h.ref_stack)
  <2> HIDE DEF v
  <2> QED BY <1>1, ValueHandled
<1>3. g = [f EXCEPT !.ref_stack = Append(@, p)]
  BY DEF StartContainer
<1> HIDE DEF v, p, f
<1>4. /\ g = [nodes |-> f.nodes, ref_stack |-> Append(h.ref_stack, p),
              object_element |-> f.object_element]
      /\ g.nodes = f.nodes /\ g.ref_stack = Append(h.ref_stack, p)
  <2>1. PICK N, R, O : f = [nodes |-> N, ref_stack |-> R, object_element |-> O]
    BY <1>2 DEF Tree
  <2> QED BY <1>2, <1>3, <2>1
<1>5. Tree(g)
  <2>1. \A k : Children(g, k) = Children(f, k)
    BY <1>4 DEF Children
  <2> QED BY <1>2, <1>4, <2>1 DEF Tree
<1>6. /\ h.ref_stack \in Seq(1 .. Len(f.nodes)) /\ n \in Nat
      /\ g.ref_stack \in Seq(1 .. Len(f.nodes))
      /\ Len(g.ref_stack) = n + 1 /\ g.ref_stack[n + 1] = p
      /\ \A k \in 1 .. n : g.ref_stack[k] = h.ref_stack[k]
  BY <1>2, <1>4 DEF Path
<1>7. n # 0 => Last(h.ref_stack) = h.ref_stack[n] /\ h.ref_stack # <<>>
  BY <1>6, EmptySeq DEF Last
<1>8. Path(g)
  <2>1. ASSUME NEW k \in 1 .. Len(g.ref_stack)
        PROVE  IF k = 1 THEN g.ref_stack[1] = 1
               ELSE g.ref_stack[k] \in Children(g, g.ref_stack[k - 1])
    <3>1. CASE k \in 1 .. n
      <4>1. k # 1 => k - 1 \in 1 .. n
        BY <1>6, <3>1
      <4> QED BY <1>2, <1>4, <1>6, <3>1, <4>1, SMTT(90) DEF Path, Children
    <3>2. CASE k = n + 1 /\ n = 0
      <4>1. h.ref_stack = <<>>
        BY <1>6, <3>2, EmptySeq
      <4> QED BY <1>2, <1>6, <3>2, <4>1
    <3>3. CASE k = n + 1 /\ n # 0
      <4>1. p \in Children(f, h.ref_stack[n])
        BY <1>2, <1>7, <3>3
      <4>2. g.ref_stack[k] = p /\ k # 1 /\ k - 1 = n /\ g.ref_stack[n] = h.ref_stack[n]
        BY <1>6, <3>3
      <4>3. Children(g, h.ref_stack[n]) = Children(f, h.ref_stack[n])
        BY <1>4 DEF Children
      <4> QED BY <4>1, <4>2, <4>3
    <3> QED BY <1>6, <3>1, <3>2, <3>3
  <2>2. ASSUME NEW j \in 1 .. Len(g.ref_stack), NEW k \in 1 .. Len(g.ref_stack), j < k
        PROVE  g.ref_stack[j] < g.ref_stack[k]
    <3>1. CASE k \in 1 .. n
      <4>1. j \in 1 .. n
        BY <1>6, <2>2, <3>1
      <4> QED BY <1>2, <1>6, <2>2, <3>1, <4>1 DEF Path
    <3>2. CASE k = n + 1
      <4>1. j \in 1 .. n /\ n # 0 /\ n \in 1 .. n
        BY <1>6, <2>2, <3>2
      <4>2. h.ref_stack[n] < p /\ p \in Nat
        BY <1>2, <1>7, <4>1
      <4>3. h.ref_stack[j] \in Nat /\ h.ref_stack[n] \in Nat
        <5>1. h.ref_stack[j] \in 1 .. Len(f.nodes) /\ h.ref_stack[n] \in 1 .. Len(f.nodes)
          BY <1>6, <4>1, ElementOfSeq
        <5> QED BY <5>1
      <4>4. j < n => h.ref_stack[j] < h.ref_stack[n]
        BY <1>2, <4>1 DEF Path
      <4>5. h.ref_stack[j] < p
        BY <1>6, <4>1, <4>2, <4>3, <4>4
      <4> QED BY <1>6, <3>2, <4>1, <4>5
    <3> QED BY <1>6, <3>1, <3>2
  <2> QED BY <1>4, <1>6, <2>1, <2>2 DEF Path
<1>9. Stacked(g, Append(stack, type))
  <2>1. stack \in Seq({"array", "object"}) /\ Len(stack) = n
    BY <1>2 DEF Stacked
  <2>2. /\ Append(stack, type) \in Seq({"array", "object"})
        /\ Len(Append(stack, type)) = n + 1 /\ Append(stack, type)[n + 1] = type
        /\ \A k \in 1 .. n : Append(stack, type)[k] = stack[k]
    BY <2>1
  <2>3. \A k \in 1 .. n : stack[k] = f.nodes[h.ref_stack[k]].type
    BY <1>2, <2>1 DEF Stacked
  <2>4. f.nodes[p].type = type
    BY <1>1, <1>2
  <2>5. \A k \in 1 .. n + 1 : Append(stack, type)[k] = g.nodes[g.ref_stack[k]].type
    BY <1>4, <1>6, <2>2, <2>3, <2>4
  <2> QED BY <1>6, <2>2, <2>5 DEF Stacked
<1>10. g.ref_stack # <<>> /\ Last(g.ref_stack) = p
  BY <1>6, EmptySeq DEF Last
<1> QED BY <1>1, <1>2, <1>4, <1>5, <1>8, <1>9, <1>10

LEMMA ContainerEnded ==
  ASSUME NEW h, Tree(h), Path(h), NEW stack, Stacked(h, stack), h.ref_stack # <<>>,
         NEW g, g = EndContainer(h)
  PROVE  Tree(g) /\ Path(g) /\ Stacked(g, Front(stack))
<1> DEFINE n == Len(h.ref_stack) - 1
<1>1. /\ g = [nodes |-> h.nodes, ref_stack |-> Front(h.ref_stack),
              object_element |-> h.object_element]
      /\ g.nodes = h.nodes /\ g.ref_stack = Front(h.ref_stack)
  <2>1. PICK N, R, O : h = [nodes |-> N, ref_stack |-> R, object_element |-> O]
    BY DEF Tree
  <2> QED BY <2>1 DEF EndContainer
<1>2. \A k : Children(g, k) = Children(h, k)
  BY <1>1 DEF Children
<1>3. Tree(g)
  BY <1>1, <1>2 DEF Tree
<1>4. h.ref_stack \in Seq(1 .. Len(h.nodes)) /\ Len(h.ref_stack) \in Nat \ {0}
  BY EmptySeq DEF Path
<1>5. /\ g.ref_stack \in Seq(1 .. Len(g.nodes)) /\ Len(g.ref_stack) = n
      /\ \A k \in 1 .. n : g.ref_stack[k] = h.ref_stack[k]
  BY <1>1, <1>4, FrontOfSeq
<1>6. Path(g)
  <2>1. ASSUME NEW k \in 1 .. n
        PROVE  IF k = 1 THEN g.ref_stack[1] = 1
               ELSE g.ref_stack[k] \in Children(g, g.ref_stack[k - 1])
    <3>1. k # 1 => k - 1 \in 1 .. n
      BY <1>4
    <3>2. k \in 1 .. Len(h.ref_stack)
      BY <1>4
    <3> QED BY <1>2, <1>5, <3>1, <3>2 DEF Path
  <2>2. ASSUME NEW j \in 1 .. n, NEW k \in 1 .. n, j < k
        PROVE  g.ref_stack[j] < g.ref_stack[k]
    <3>1. j \in 1 .. Len(h.ref_stack) /\ k \in 1 .. Len(h.ref_stack)
      BY <1>4
    <3> QED BY <1>5, <2>2, <3>1 DEF Path
  <2> QED BY <1>5, <2>1, <2>2 DEF Path
<1>7. stack \in Seq({"array", "object"}) /\ Len(stack) = n + 1 /\ stack # <<>>
  BY <1>4, EmptySeq DEF Stacked
<1>8. /\ Front(stack) \in Seq({"array", "object"}) /\ Len(Front(stack)) = n
      /\ \A k \in 1 .. n : Front(stack)[k] = stack[k]
  <2>1. Len(stack) - 1 = n
    BY <1>4, <1>7
  <2> QED BY <1>7, <2>1, FrontOfSeq
<1>9. \A k \in 1 .. n : stack[k] = h.nodes[h.ref_stack[k]].type
  BY <1>4, <1>7 DEF Stacked
<1>10. Stacked(g, Front(stack))
  BY <1>1, <1>5, <1>8, <1>9 DEF Stacked
<1> QED BY <1>3, <1>6, <1>10

LEMMA KeyTaken ==
  ASSUME NEW h, Tree(h), Path(h), NEW stack, Stacked(h, stack), h.ref_stack # <<>>,
         NEW key, NEW g, g = Key(h, key)
  PROVE  Tree(g) /\ Path(g) /\ Stacked(g, stack) /\ Aimed(g) /\ g.ref_stack = h.ref_stack
<1> DEFINE top   == Last(h.ref_stack)
           items == h.nodes[top].items
           found == {k \in 1 .. Len(items) : items[k].key = key}
<1>1. /\ top \in 1 .. Len(h.nodes) /\ Len(h.nodes) \in Nat
      /\ \A k \in 1 .. Len(h.ref_stack) : h.ref_stack[k] \in 1 .. Len(h.nodes)
  BY TopOfPath
<1>2. PICK N, R, O : h = [nodes |-> N, ref_stack |-> R, object_element |-> O]
  BY DEF Tree
<1>3. CASE found # {}
  <2>1. PICK k \in found : g = [h EXCEPT !.object_element = items[k].node]
    BY <1>3 DEF Key
  <2>2. /\ g = [nodes |-> h.nodes, ref_stack |-> h.ref_stack, object_element |-> items[k].node]
        /\ g.nodes = h.nodes /\ g.ref_stack = h.ref_stack /\ g.object_element = items[k].node
    BY <1>2, <2>1
  <2>3. IsSeq(items)
    BY <1>1 DEF Tree, IsNode
  <2>4. items[k] \in ToSet(items)
    BY <2>3, SeqLength DEF ToSet
  <2>5. \A n : Children(g, n) = Children(h, n)
    BY <2>2 DEF Children
  <2>6. g.object_element \in Children(g, Last(g.ref_stack))
    BY <2>2, <2>4 DEF Children
  <2>7. Tree(g)
    BY <2>2, <2>5 DEF Tree
  <2>8. Path(g) /\ Stacked(g, stack)
    BY <1>1, <2>2, <2>5, <2>7, PathKept, SMTT(90)
  <2> QED BY <2>2, <2>6, <2>7, <2>8 DEF Aimed
<1>4. CASE found = {}
  <2> DEFINE f == AddChild(h, key, NullNode)
             n == Len(h.nodes) + 1
  <2>1. IsNode(NullNode) /\ NullNode.items = <<>>
    <3>1. <<>> \in Seq({})
      BY EmptySeq
    <3> QED BY <3>1 DEF NullNode, Node, IsNode, IsSeq
  <2>2. /\ Tree(f) /\ f.ref_stack = h.ref_stack /\ Len(f.nodes) = n
        /\ n \in Children(f, top)
        /\ \A m \in 1 .. Len(h.nodes) : /\ f.nodes[m].type = h.nodes[m].type
                                        /\ Children(h, m) \subseteq Children(f, m)
    BY <1>1, <2>1, ChildAdded
  <2>3. g = [f EXCEPT !.object_element = n]
    BY <1>4 DEF Key
  <2> HIDE DEF f
  <2>4. /\ g = [nodes |-> f.nodes, ref_stack |-> f.ref_stack, object_element |-> n]
        /\ g.nodes = f.nodes /\ g.ref_stack = h.ref_stack /\ g.object_element = n
    <3>1. PICK A, B, C : f = [nodes |-> A, ref_stack |-> B, object_element |-> C]
      BY <2>2 DEF Tree
    <3> QED BY <2>2, <2>3, <3>1
  <2>5. \A m : Children(g, m) = Children(f, m)
    BY <2>4 DEF Children
  <2>6. Tree(g)
    BY <2>2, <2>4, <2>5 DEF Tree
  <2>7. Path(g) /\ Stacked(g, stack)
    <3>1. Len(h.nodes) <= Len(g.nodes)
      BY <1>1, <2>2, <2>4
    <3>2. ASSUME NEW k \in 1 .. Len(h.ref_stack)
          PROVE  /\ g.nodes[h.ref_stack[k]].type = h.nodes[h.ref_stack[k]].type
                 /\ Children(h, h.ref_stack[k]) \subseteq Children(g, h.ref_stack[k])
      <4>1. h.ref_stack[k] \in 1 .. Len(h.nodes)
        BY <1>1
      <4> HIDE DEF n
      <4> QED BY <2>2, <2>4, <2>5, <4>1
    <3>3. g.ref_stack = h.ref_stack
      BY <2>4
    <3> QED BY <2>6, <3>1, <3>2, <3>3, PathKept
  <2>8. Aimed(g)
    BY <2>2, <2>4, <2>5 DEF Aimed
  <2> QED BY <2>4, <2>6, <2>7, <2>8
<1> QED BY <1>3, <1>4
-----------------------------------------------------------------------------
(* The parser's steps. *)

LEMMA Untouched ==
  ASSUME ParserInv, UNCHANGED <<dom, states, evaluate>>
  PROVE  ParserInv'
BY DEF ParserInv, Tree, Path, Stacked, Aimed, Children

LEMMA BuilderNext ==
  ASSUME NEW h, NEW stack, Tree(h), Path(h), Stacked(h, stack),
         dom' = h, states' = stack, evaluate' \in BOOLEAN, ~evaluate' => Aimed(h)
  PROVE  ParserInv'
BY DEF ParserInv, Tree, Path, Stacked, Aimed, Children

LEMMA MemberBegun ==
  ASSUME ParserInv, NEW k, NEW h, NEW stack, MemberFollows(k, h, stack),
         Tree(h), Path(h), Stacked(h, stack), h.ref_stack # <<>>
  PROVE  ParserInv'
<1>1. \/ UNCHANGED <<dom, states, evaluate>>
      \/ dom' = Key(h, k.text) /\ states' = stack /\ evaluate' = FALSE
  BY DEF MemberFollows, ParseError
<1>2. ASSUME dom' = Key(h, k.text), states' = stack, evaluate' = FALSE
      PROVE  ParserInv'
  <2> DEFINE g == Key(h, k.text)
  <2>1. Tree(g) /\ Path(g) /\ Stacked(g, stack) /\ Aimed(g)
    BY KeyTaken
  <2> HIDE DEF g
  <2>2. dom' = g
    BY <1>2 DEF g
  <2> QED BY <1>2, <2>1, <2>2, BuilderNext
<1> QED BY <1>1, <1>2, Untouched

LEMMA ObjectBegun == ASSUME ParserInv, BeginObject PROVE ParserInv'
<1> DEFINE h == StartContainer(dom, "object")
<1>1. Tree(dom) /\ Path(dom) /\ Stacked(dom, states) /\ Aimed(dom)
  BY DEF ParserInv, BeginObject, AtValue
<1>2. /\ Tree(h) /\ Path(h) /\ Stacked(h, Append(states, "object"))
      /\ h.ref_stack # <<>>
  BY <1>1, ContainerStarted
<1>3. \/ Completed(Next1, EndContainer(h), states)
      \/ MemberFollows(Next1, h, Append(states, "object"))
  BY DEF BeginObject
<1> HIDE DEF h
<1>4. CASE Completed(Next1, EndContainer(h), states)
  <2>1. Tree(EndContainer(h)) /\ Path(EndContainer(h))
        /\ Stacked(EndContainer(h), Front(Append(states, "object")))
    BY <1>2, ContainerEnded
  <2>2. Front(Append(states, "object")) = states
    <3>1. states \in Seq({"array", "object"})
      BY <1>1 DEF Stacked
    <3> QED BY <3>1, FrontOfAppend
  <2>3. dom' = EndContainer(h) /\ states' = states /\ evaluate' = TRUE
    BY <1>4 DEF Completed
  <2> QED BY <2>1, <2>2, <2>3, BuilderNext
<1>5. CASE MemberFollows(Next1, h, Append(states, "object"))
  BY <1>2, <1>5, MemberBegun
<1> QED BY <1>3, <1>4, <1>5

LEMMA ArrayBegun == ASSUME ParserInv, BeginArray PROVE ParserInv'
<1> DEFINE h == StartContainer(dom, "array")
<1>1. Tree(dom) /\ Path(dom) /\ Stacked(dom, states) /\ Aimed(dom) /\ evaluate = FALSE
  BY DEF ParserInv, BeginArray, AtValue
<1>2. /\ Tree(h) /\ Path(h) /\ Stacked(h, Append(states, "array"))
      /\ h.ref_stack # <<>> /\ h.nodes[Last(h.ref_stack)].type = "array"
  BY <1>1, ContainerStarted
<1>3. \/ Completed(Next1, EndContainer(h), states)
      \/ dom' = h /\ states' = Append(states, "array") /\ UNCHANGED evaluate
  BY DEF BeginArray
<1> HIDE DEF h
<1>4. CASE Completed(Next1, EndContainer(h), states)
  <2>1. Tree(EndContainer(h)) /\ Path(EndContainer(h))
        /\ Stacked(EndContainer(h), Front(Append(states, "array")))
    BY <1>2, ContainerEnded
  <2>2. Front(Append(states, "array")) = states
    <3>1. states \in Seq({"array", "object"})
      BY <1>1 DEF Stacked
    <3> QED BY <3>1, FrontOfAppend
  <2>3. dom' = EndContainer(h) /\ states' = states /\ evaluate' = TRUE
    BY <1>4 DEF Completed
  <2> QED BY <2>1, <2>2, <2>3, BuilderNext
<1>5. CASE dom' = h /\ states' = Append(states, "array") /\ UNCHANGED evaluate
  <2>1. Aimed(h)
    BY <1>2 DEF Aimed
  <2> QED BY <1>1, <1>2, <1>5, <2>1, BuilderNext
<1> QED BY <1>3, <1>4, <1>5

LEMMA ScalarStored == ASSUME ParserInv, ScalarValue PROVE ParserInv'
<1> DEFINE v == ScalarNode(last_token)
           g == HandleValue(dom, v)
<1>1. Tree(dom) /\ Path(dom) /\ Stacked(dom, states) /\ Aimed(dom)
  BY DEF ParserInv, ScalarValue, AtValue
<1>2. IsNode(v) /\ v.items = <<>>
  <2>1. <<>> \in Seq({})
    BY EmptySeq
  <2>2. \A type, txt, num : /\ Node(type, txt, num).items = <<>>
                            /\ IsNode(Node(type, txt, num))
    BY <2>1 DEF Node, IsNode, IsSeq
  <2> QED BY <2>2 DEF ScalarNode
<1> HIDE DEF v
<1>3. Tree(g) /\ Path(g) /\ Stacked(g, states)
  BY <1>1, <1>2, ValueHandled
<1>4. dom' = g /\ states' = states /\ evaluate' = TRUE
  BY DEF ScalarValue, Completed, v
<1> HIDE DEF g
<1> QED BY <1>3, <1>4, BuilderNext

\* The state on top is the type of the container on top.
LEMMA StateOnTop ==
  ASSUME ParserInv, states # <<>>
  PROVE  dom.ref_stack # <<>> /\ Last(states) = dom.nodes[Last(dom.ref_stack)].type
<1>1. /\ states \in Seq({"array", "object"}) /\ Len(states) = Len(dom.ref_stack)
      /\ \A k \in 1 .. Len(states) : states[k] = dom.nodes[dom.ref_stack[k]].type
  BY DEF ParserInv, Stacked
<1>2. Len(states) \in Nat \ {0}
  BY <1>1, EmptySeq
<1>3. dom.ref_stack # <<>>
  BY <1>1, <1>2, EmptySeq
<1> QED BY <1>1, <1>2, <1>3 DEF Last

LEMMA ElementBegun == ASSUME ParserInv, NextElement PROVE ParserInv'
<1>1. /\ dom' = dom /\ states' = states /\ evaluate' = FALSE
      /\ states # <<>> /\ Last(states) = "array"
  BY DEF NextElement, AtState
<1>2. Tree(dom) /\ Path(dom) /\ Stacked(dom, states)
  BY DEF ParserInv
<1>3. Aimed(dom)
  BY <1>1, StateOnTop DEF Aimed
<1> QED BY <1>1, <1>2, <1>3, BuilderNext

LEMMA ContainerClosed ==
  ASSUME ParserInv, NEW type, NEW end, Close(type, end) PROVE ParserInv'
<1>1. /\ dom' = EndContainer(dom) /\ states' = Front(states) /\ evaluate' = TRUE
      /\ states # <<>>
  BY DEF Close, Completed, AtState, Popped
<1>2. Tree(dom) /\ Path(dom) /\ Stacked(dom, states) /\ dom.ref_stack # <<>>
  BY <1>1, StateOnTop DEF ParserInv
<1>3. Tree(EndContainer(dom)) /\ Path(EndContainer(dom))
      /\ Stacked(EndContainer(dom), Front(states))
  BY <1>2, ContainerEnded
<1> QED BY <1>1, <1>3, BuilderNext

LEMMA ParserStep == ASSUME ParserInv, ParseNext PROVE ParserInv'
<1>1. CASE NextMember
  <2>1. MemberFollows(Next2, dom, states) /\ dom.ref_stack # <<>>
    BY <1>1, StateOnTop DEF NextMember, AtState
  <2> QED BY <2>1, MemberBegun DEF ParserInv
<1>2. CASE EndArray \/ EndObject
  BY <1>2, ContainerClosed DEF EndArray, EndObject
<1>3. CASE FloatOverflow \/ Unexpected \/ EndOfHierarchy \/ MissingEnd \/ StrictEnd
  <2>1. UNCHANGED <<dom, states, evaluate>>
    BY <1>3 DEF FloatOverflow, Unexpected, EndOfHierarchy, MissingEnd, StrictEnd, ParseError
  <2> QED BY <2>1, Untouched
<1> QED
  BY <1>1, <1>2, <1>3, ObjectBegun, ArrayBegun, ScalarStored, ElementBegun DEF ParseNext

LEMMA ParserInvariant == Spec => []ParserInv
<1>1. Init => ParserInv
  <2> SUFFICES ASSUME Init PROVE ParserInv
    OBVIOUS
  <2>1. /\ dom = [nodes |-> <<NullNode>>, ref_stack |-> <<>>, object_element |-> 0]
        /\ states = <<>> /\ evaluate = FALSE
    BY DEF Init, NewParser
  <2>2. /\ dom.nodes = <<NullNode>> /\ dom.ref_stack = <<>> /\ Len(dom.nodes) = 1
        /\ dom.nodes[1] = NullNode
    BY <2>1
  <2>3. IsSeq(dom.nodes)
    <3>1. dom.nodes \in Seq({NullNode})
      BY <2>2
    <3> QED BY <3>1 DEF IsSeq
  <2>4. IsNode(NullNode) /\ NullNode.items = <<>>
    <3>1. <<>> \in Seq({})
      BY EmptySeq
    <3> QED BY <3>1 DEF NullNode, Node, IsNode, IsSeq
  <2>5. Children(dom, 1) = {}
    BY <2>2, <2>4, NoChildren
  <2>6. Tree(dom)
    <3>1. \A n \in 1 .. Len(dom.nodes) : n = 1
      BY <2>2
    <3> QED BY <2>1, <2>2, <2>3, <2>4, <2>5, <3>1 DEF Tree
  <2>7. Path(dom) /\ Stacked(dom, states) /\ Aimed(dom)
    <3>1. Len(<<>>) = 0 /\ <<>> \in Seq(1 .. Len(dom.nodes)) /\ <<>> \in Seq({"array", "object"})
      BY EmptySeq
    <3> QED BY <2>1, <2>2, <3>1 DEF Path, Stacked, Aimed
  <2> QED BY <2>1, <2>6, <2>7 DEF ParserInv
<1>2. ParserInv /\ [Next]_vars => ParserInv'
  <2> SUFFICES ASSUME ParserInv, [Next]_vars PROVE ParserInv'
    OBVIOUS
  <2>1. ParseNext \/ UNCHANGED <<dom, states, evaluate>>
    BY DEF Next, Serialize, NotSent, Arrive, StartParse, Parse, Dispatch, vars, parseVars
  <2> QED BY <2>1, ParserStep, Untouched
<1> QED BY <1>1, <1>2, PTL DEF Spec

\* For every text, the parser's stack of states and the builder's stack of
\* containers say the same, and a member is written to the object on top
\* (json.hpp:12575, 6967).
THEOREM StacksCorrect == Spec => []StacksAgree
<1>1. ParserInv => StacksAgree
  <2> SUFFICES ASSUME ParserInv PROVE StacksAgree
    OBVIOUS
  <2>1. Tree(dom) /\ Path(dom) /\ Stacked(dom, states) /\ (~evaluate => Aimed(dom))
    BY DEF ParserInv
  <2>2. /\ states \in Seq({"array", "object"}) /\ ref_stack \in Seq(1 .. Len(dom.nodes))
        /\ Len(states) = Len(ref_stack)
        /\ \A k \in 1 .. Len(states) : states[k] = nodes[ref_stack[k]].type
    BY <2>1 DEF Path, Stacked, nodes, ref_stack
  <2>3. states = Types
    <3>1. DOMAIN states = 1 .. Len(states) /\ DOMAIN ref_stack = 1 .. Len(states)
          /\ states \in [1 .. Len(states) -> {"array", "object"}]
      BY <2>2, LenProperties
    <3> QED BY <2>2, <3>1 DEF Types
  <2>4. \A n : Holds(n) = Children(dom, n)
    BY DEF Holds, Children, nodes
  <2>5. \A k \in 1 .. Len(ref_stack) :
          IF k = 1 THEN ref_stack[1] = 1 ELSE ref_stack[k] \in Holds(ref_stack[k - 1])
    BY <2>1, <2>4 DEF Path, ref_stack
  <2>6. ASSUME ~evaluate, ref_stack # <<>>, Last(Types) = "object"
        PROVE  dom.object_element \in Holds(Last(ref_stack))
    <3>1. states # <<>>
      BY <2>2, <2>6, EmptySeq
    <3>2. dom.nodes[Last(dom.ref_stack)].type = "object"
      BY <2>3, <2>6, <3>1, StateOnTop
    <3> QED BY <2>1, <2>4, <2>6, <3>2 DEF Aimed, ref_stack
  <2> QED BY <2>3, <2>5, <2>6 DEF StacksAgree
<1> QED BY <1>1, ParserInvariant, PTL

-----------------------------------------------------------------------------
(* UTF-8 joined to UTF-8, and the code points translated into it. *)

\* A scalar value stays one where it is copied to.
LEMMA CopiedScalar ==
  ASSUME NEW t \in Seq(Bytes), NEW u \in Seq(Bytes),
         NEW a \in 1 .. Len(t), NEW z \in a .. Len(t),
         NEW b \in 1 .. Len(u), NEW y \in b .. Len(u), y - b = z - a,
         \A k \in 0 .. z - a : u[b + k] = t[a + k],
         IsScalar(t, a, z)
  PROVE  IsScalar(u, b, y)
<1>1. Begins(t, a, z) /\ Width(t[a]) = z - a + 1
  BY ScalarBegins
<1>2. Len(t) \in Nat /\ Len(u) \in Nat
  OBVIOUS
<1>3. u[b] = t[a]
  <2>1. 0 \in 0 .. z - a /\ b + 0 = b /\ a + 0 = a
    OBVIOUS
  <2> QED BY <2>1
<1>4. \A k \in b + 1 .. y : u[k] \in 128 .. 191
  <2> SUFFICES ASSUME NEW k \in b + 1 .. y PROVE u[k] \in 128 .. 191
    OBVIOUS
  <2>1. PICK j \in 1 .. z - a : k = b + j
    <3>1. k - b \in 1 .. z - a /\ k = b + (k - b)
      BY <1>2
    <3> QED BY <3>1
  <2>2. u[b + j] = t[a + j] /\ a + j \in a + 1 .. z
    <3>1. j \in 0 .. z - a
      BY <1>2, <2>1
    <3> QED BY <1>2, <2>1, <3>1
  <2>3. t[a + j] \in 128 .. 191
    BY <1>1, <2>2 DEF Begins
  <2> QED BY <2>1, <2>2, <2>3
<1>5. y > b => z > a /\ u[b + 1] = t[a + 1]
  <2> SUFFICES ASSUME y > b PROVE z > a /\ u[b + 1] = t[a + 1]
    OBVIOUS
  <2>1. z > a /\ 1 \in 0 .. z - a
    BY <1>2
  <2> QED BY <2>1
<1>6. Begins(u, b, y)
  <2>1. u[b] \in 0 .. 127 \cup 194 .. 244
    BY <1>1, <1>3 DEF Begins
  <2>2. Width(u[b]) >= y - b + 1
    BY <1>1, <1>3 DEF Begins
  <2>3. y > b => Second(u[b], u[b + 1])
    BY <1>1, <1>3, <1>5 DEF Begins
  <2> QED BY <1>4, <2>1, <2>2, <2>3 DEF Begins
<1>7. Width(u[b]) = y - b + 1
  BY <1>1, <1>3
<1> QED BY <1>6, <1>7, ScalarBegins

\* Two texts of scalar values are one.
LEMMA WellFormedJoined ==
  ASSUME NEW s \in Seq(Bytes), NEW t \in Seq(Bytes), WellFormed(s), WellFormed(t)
  PROVE  s \o t \in Seq(Bytes) /\ WellFormed(s \o t)
<1>1. PICK u \in Seq(Bytes) : u = s \o t
  BY ConcatOf
<1>2. /\ Len(u) = Len(s) + Len(t) /\ Len(s) \in Nat /\ Len(t) \in Nat
      /\ \A k \in 1 .. Len(s) : u[k] = s[k]
      /\ \A k \in 1 .. Len(t) : u[Len(s) + k] = t[k]
  BY <1>1, ConcatOf
<1>3. ASSUME NEW k \in 1 .. Len(u)
      PROVE  \E a \in 1 .. k : \E z \in k .. Len(u) : IsScalar(u, a, z)
  <2>1. CASE k <= Len(s)
    <3>1. k \in 1 .. Len(s)
      BY <1>2, <2>1
    <3>2. PICK a \in 1 .. k, z \in k .. Len(s) : IsScalar(s, a, z)
      BY <3>1 DEF WellFormed
    <3>3. a \in 1 .. Len(s) /\ z \in a .. Len(s) /\ a \in 1 .. Len(u) /\ z \in a .. Len(u)
          /\ z \in k .. Len(u)
      BY <1>2, <3>1
    <3>4. \A j \in 0 .. z - a : u[a + j] = s[a + j]
      <4> SUFFICES ASSUME NEW j \in 0 .. z - a PROVE u[a + j] = s[a + j]
        OBVIOUS
      <4>1. a + j \in 1 .. Len(s)
        BY <1>2, <3>3
      <4> QED BY <1>2, <4>1
    <3>5. IsScalar(u, a, z)
      BY <3>2, <3>3, <3>4, CopiedScalar
    <3> QED BY <3>3, <3>5
  <2>2. CASE k > Len(s)
    <3>1. PICK i0 \in 1 .. Len(t) : k = Len(s) + i0
      <4>1. k - Len(s) \in 1 .. Len(t) /\ k = Len(s) + (k - Len(s))
        BY <1>2, <2>2
      <4> QED BY <4>1
    <3>2. PICK a \in 1 .. i0, z \in i0 .. Len(t) : IsScalar(t, a, z)
      BY <3>1 DEF WellFormed
    <3>3. PICK b \in Int, y \in Int : b = Len(s) + a /\ y = Len(s) + z
      BY <1>2
    <3>4. /\ a \in 1 .. Len(t) /\ z \in a .. Len(t) /\ b \in 1 .. Len(u) /\ y \in b .. Len(u)
          /\ b \in 1 .. k /\ y \in k .. Len(u) /\ y - b = z - a
      BY <1>2, <3>1, <3>3
    <3>5. \A j \in 0 .. z - a : u[b + j] = t[a + j]
      <4> SUFFICES ASSUME NEW j \in 0 .. z - a PROVE u[b + j] = t[a + j]
        OBVIOUS
      <4>1. a + j \in 1 .. Len(t) /\ b + j = Len(s) + (a + j)
        BY <1>2, <3>3, <3>4
      <4> QED BY <1>2, <4>1
    <3>6. IsScalar(u, b, y)
      BY <3>2, <3>4, <3>5, CopiedScalar
    <3> QED BY <3>4, <3>6
  <2> QED BY <1>2, <2>1, <2>2
<1>4. WellFormed(u)
  BY <1>3 DEF WellFormed
<1> QED BY <1>1, <1>4

\* Bytes that are one scalar value.
OneScalar(s) ==
  /\ Len(s) \in Nat \ {0} /\ Width(s[1]) = Len(s)
  /\ s[1] \in 0 .. 127 \cup 194 .. 244
  /\ \A k \in 2 .. Len(s) : s[k] \in 128 .. 191
  /\ Len(s) > 1 => Second(s[1], s[2])

LEMMA OneWellFormed ==
  ASSUME NEW s \in Seq(Bytes), OneScalar(s)
  PROVE  IsScalar(s, 1, Len(s)) /\ WellFormed(s)
<1>5. PICK n \in Nat \ {0} : n = Len(s)
  BY DEF OneScalar
<1>1. Begins(s, 1, n)
  <2>1. 1 + 1 = 2 /\ n - 1 + 1 = n
    OBVIOUS
  <2> QED BY <1>5, <2>1 DEF Begins, OneScalar
<1>2. 1 \in 1 .. Len(s) /\ n \in 1 .. Len(s) /\ n - 1 + 1 = n
  BY <1>5
<1>3. IsScalar(s, 1, n)
  <2>1. Width(s[1]) = n - 1 + 1
    BY <1>5 DEF OneScalar
  <2> QED BY <1>1, <1>2, <2>1, ScalarBegins
<1>4. WellFormed(s)
  <2> SUFFICES ASSUME NEW k \in 1 .. Len(s) PROVE \E a \in 1 .. k : \E z \in k .. Len(s) :
                      IsScalar(s, a, z)
    BY DEF WellFormed
  <2>1. 1 \in 1 .. k /\ n \in k .. Len(s)
    BY <1>5
  <2> QED BY <1>3, <2>1
<1> QED BY <1>3, <1>4, <1>5

Six == 0 .. 63

LEMMA ThreeParts ==
  ASSUME NEW c \in Nat, NEW d \in Nat, NEW e \in Nat, c <= 63, d <= 63, e <= 63
  PROVE  4096 * c + 64 * d + e \in Nat /\ 4096 * c + 64 * d + e <= 262143
BY SMTT(60)

LEMMA DivBig ==
  ASSUME NEW n \in Nat, NEW q \in Nat, NEW r \in Nat, r <= 262143, n = 262144 * q + r
  PROVE  n \div 262144 = q
BY SMTT(60)

LEMMA DivSmall ==
  ASSUME NEW n \in Nat, NEW q \in Nat, NEW r \in Nat, r <= 4095, n = 4096 * q + r
  PROVE  n \div 4096 = q
OBVIOUS

LEMMA PartsJoined ==
  ASSUME NEW n \in Nat, NEW w \in Nat, NEW h \in Nat, NEW c \in Nat, NEW d \in Nat, NEW e \in Nat,
         NEW x \in Nat, x = 4096 * c + 64 * d + e, n = 4096 * w + (64 * d + e), w = 64 * h + c
  PROVE  n = 262144 * h + x
BY SMTT(60)

\* The six-bit parts of a number.
Parts(n, h, c, d, e) ==
  /\ n = 262144 * h + 4096 * c + 64 * d + e
  /\ n \div 262144 = h /\ n \div 4096 = 64 * h + c /\ n \div 64 = 4096 * h + 64 * c + d
  /\ Continuation(n) = 128 + e
  /\ Continuation(n \div 64) = 128 + d
  /\ Continuation(n \div 4096) = 128 + c

LEMMA SixBits ==
  ASSUME NEW n \in Nat
  PROVE  \E q \in Nat : \E r \in Six : n = 64 * q + r /\ n \div 64 = q /\ n % 64 = r
<1>1. n \div 64 \in Nat /\ n % 64 \in 0 .. 63 /\ n = 64 * (n \div 64) + (n % 64)
  OBVIOUS
<1> QED BY <1>1 DEF Six

HasParts(n) == \E h \in Nat : \E c \in Six : \E d \in Six : \E e \in Six : Parts(n, h, c, d, e)

LEMMA PartsOf ==
  ASSUME NEW n \in Nat
  PROVE  HasParts(n)
<1>1. PICK q \in Nat, e \in Six : n = 64 * q + e /\ n \div 64 = q /\ n % 64 = e
  BY SixBits, SMTT(60)
<1>2. PICK w \in Nat, d \in Six : q = 64 * w + d /\ q \div 64 = w /\ q % 64 = d
  BY SixBits, SMTT(60)
<1>3. PICK h \in Nat, c \in Six : w = 64 * h + c /\ w \div 64 = h /\ w % 64 = c
  BY SixBits, SMTT(60)
<1>13. /\ c \in Nat /\ c <= 63 /\ d \in Nat /\ d <= 63 /\ e \in Nat /\ e <= 63
  BY SMTT(60) DEF Six
<1>4. n = 4096 * w + (64 * d + e) /\ 64 * d + e \in Nat /\ 64 * d + e <= 4095
  BY <1>1, <1>2, <1>13, SMTT(60)
<1>5. n \div 4096 = w
  <2>1. PICK x \in Nat : x = 64 * d + e
    BY <1>4, SMTT(60)
  <2> QED BY <1>4, <2>1, DivSmall, SMTT(60)
<1>12. PICK x \in Nat : x = 4096 * c + 64 * d + e /\ x <= 262143
  BY <1>13, ThreeParts, SMTT(60)
<1>6. n = 262144 * h + x
  BY <1>3, <1>4, <1>12, <1>13, PartsJoined, SMTT(60)
<1>7. n \div 262144 = h
  BY <1>6, <1>12, DivBig, SMTT(60)
<1>8. Continuation(n) = 128 + e
  BY <1>1, SMTT(60) DEF Continuation
<1>9. Continuation(n \div 64) = 128 + d
  BY <1>1, <1>2, SMTT(60) DEF Continuation
<1>10. Continuation(n \div 4096) = 128 + c
  BY <1>3, <1>5, SMTT(60) DEF Continuation
<1>11. Parts(n, h, c, d, e)
  <2>1. n \div 4096 = 64 * h + c /\ n \div 64 = 4096 * h + 64 * c + d
    BY <1>1, <1>2, <1>3, <1>5, SMTT(60)
  <2>2. n = 262144 * h + 4096 * c + 64 * d + e
    BY <1>6, <1>12, <1>13, SMTT(60)
  <2> QED BY <1>7, <1>8, <1>9, <1>10, <2>1, <2>2, <1>6, SMTT(60) DEF Parts
<1> QED BY <1>11, SMTT(60) DEF HasParts

LEMMA ListOf ==
  ASSUME NEW S, NEW x \in S, NEW y \in S, NEW z \in S, NEW w \in S
  PROVE  /\ <<x, y>> \in Seq(S) /\ <<x, y, z>> \in Seq(S) /\ <<x, y, z, w>> \in Seq(S)
         /\ <<x>> \in Seq(S) /\ Len(<<x>>) = 1 /\ <<x>>[1] = x
         /\ Len(<<x, y>>) = 2 /\ <<x, y>>[1] = x /\ <<x, y>>[2] = y
         /\ Len(<<x, y, z>>) = 3 /\ <<x, y, z>>[1] = x /\ <<x, y, z>>[2] = y /\ <<x, y, z>>[3] = z
         /\ Len(<<x, y, z, w>>) = 4 /\ <<x, y, z, w>>[1] = x /\ <<x, y, z, w>>[2] = y
         /\ <<x, y, z, w>>[3] = z /\ <<x, y, z, w>>[4] = w
OBVIOUS

LEMMA TwoBytes ==
  ASSUME NEW x \in Bytes, NEW y \in Bytes, x \in 194 .. 223, y \in 128 .. 191
  PROVE  <<x, y>> \in Seq(Bytes) /\ WellFormed(<<x, y>>)
<1>1. PICK s \in Seq(Bytes) : s = <<x, y>>
  BY ListOf
<1>2. Len(s) = 2 /\ s[1] = x /\ s[2] = y
  BY <1>1, ListOf
<1>3. Width(s[1]) = 2 /\ s[1] \in 0 .. 127 \cup 194 .. 244 /\ Second(s[1], s[2])
  BY <1>2 DEF Width, Second
<1>4. \A k \in 2 .. 2 : s[k] \in 128 .. 191
  <2> SUFFICES ASSUME NEW k \in 2 .. 2 PROVE s[k] \in 128 .. 191
    OBVIOUS
  <2>1. k = 2
    OBVIOUS
  <2> QED BY <1>2, <2>1
<1>6. OneScalar(s)
  BY <1>2, <1>3, <1>4 DEF OneScalar
<1>5. WellFormed(s)
  BY <1>6, OneWellFormed
<1> QED BY <1>1, <1>5

LEMMA ThreeBytes ==
  ASSUME NEW x \in Bytes, NEW y \in Bytes, NEW z \in Bytes,
         x \in 224 .. 239, y \in 128 .. 191, z \in 128 .. 191, x = 224 => y >= 160, x = 237
           => y <= 159
  PROVE  <<x, y, z>> \in Seq(Bytes) /\ WellFormed(<<x, y, z>>)
<1>1. PICK s \in Seq(Bytes) : s = <<x, y, z>>
  BY ListOf
<1>2. Len(s) = 3 /\ s[1] = x /\ s[2] = y /\ s[3] = z
  BY <1>1, ListOf
<1>3. Width(s[1]) = 3 /\ s[1] \in 0 .. 127 \cup 194 .. 244 /\ Second(s[1], s[2])
  BY <1>2 DEF Width, Second
<1>4. \A k \in 2 .. 3 : s[k] \in 128 .. 191
  <2> SUFFICES ASSUME NEW k \in 2 .. 3 PROVE s[k] \in 128 .. 191
    OBVIOUS
  <2>1. k = 2 \/ k = 3
    OBVIOUS
  <2> QED BY <1>2, <2>1
<1>6. OneScalar(s)
  BY <1>2, <1>3, <1>4 DEF OneScalar
<1>5. WellFormed(s)
  BY <1>6, OneWellFormed
<1> QED BY <1>1, <1>5

LEMMA FourBytes ==
  ASSUME NEW x \in Bytes, NEW y \in Bytes, NEW z \in Bytes, NEW w \in Bytes,
         x \in 240 .. 244, y \in 128 .. 191, z \in 128 .. 191, w \in 128 .. 191,
         x = 240 => y >= 144, x = 244 => y <= 143
  PROVE  <<x, y, z, w>> \in Seq(Bytes) /\ WellFormed(<<x, y, z, w>>)
<1>1. PICK s \in Seq(Bytes) : s = <<x, y, z, w>>
  BY ListOf
<1>2. Len(s) = 4 /\ s[1] = x /\ s[2] = y /\ s[3] = z /\ s[4] = w
  BY <1>1, ListOf
<1>3. Width(s[1]) = 4 /\ s[1] \in 0 .. 127 \cup 194 .. 244 /\ Second(s[1], s[2])
  BY <1>2 DEF Width, Second
<1>4. \A k \in 2 .. 4 : s[k] \in 128 .. 191
  <2> SUFFICES ASSUME NEW k \in 2 .. 4 PROVE s[k] \in 128 .. 191
    OBVIOUS
  <2>1. k = 2 \/ k = 3 \/ k = 4
    OBVIOUS
  <2> QED BY <1>2, <2>1
<1>6. OneScalar(s)
  BY <1>2, <1>3, <1>4 DEF OneScalar
<1>5. WellFormed(s)
  BY <1>6, OneWellFormed
<1> QED BY <1>1, <1>5

Alone(b) == WellFormed(<<b>>)

LEMMA OneByte == \A b \in 0 .. 127 : Alone(b)
BY SmallWellFormed DEF Alone

\* The bytes of a scalar value are UTF-8.
LEMMA Utf8IsWellFormed ==
  ASSUME NEW cp \in Nat, cp <= 1114111, cp < 55296 \/ cp > 57343
  PROVE  Utf8(cp) \in Seq(Bytes) /\ WellFormed(Utf8(cp))
<1>1. PICK h \in Nat, c \in Six, d \in Six, e \in Six : Parts(cp, h, c, d, e)
  <2>1. HasParts(cp)
    BY PartsOf, SMTT(60)
  <2> QED BY <2>1, SMTT(60) DEF HasParts
<1>6. /\ c \in Nat /\ c <= 63 /\ d \in Nat /\ d <= 63 /\ e \in Nat /\ e <= 63
  BY SMTT(60) DEF Six
<1>7. /\ cp = 262144 * h + 4096 * c + 64 * d + e
      /\ cp \div 262144 = h /\ cp \div 4096 = 64 * h + c /\ cp \div 64 = 4096 * h + 64 * c + d
  BY <1>1, SMTT(60) DEF Parts
<1>8. /\ Continuation(cp) = 128 + e /\ Continuation(cp \div 64) = 128 + d
      /\ Continuation(cp \div 4096) = 128 + c
  BY <1>1, SMTT(60) DEF Parts
<1>9. PICK p \in Bytes : p = 128 + e /\ p \in 128 .. 191
  BY <1>6, SMTT(60) DEF Bytes
<1>10. PICK q \in Bytes : q = 128 + d /\ q \in 128 .. 191
  BY <1>6, SMTT(60) DEF Bytes
<1>11. PICK r \in Bytes : r = 128 + c /\ r \in 128 .. 191
  BY <1>6, SMTT(60) DEF Bytes
<1>2. CASE cp < 128
  <2>1. Utf8(cp) = <<cp>>
    BY <1>2, SMTT(60) DEF Utf8
  <2>2. PICK b \in 0 .. 127 : b = cp
    BY <1>2, SMTT(60)
  <2>3. <<b>> \in Seq(Bytes)
    <3>1. b \in Bytes
      BY SMTT(60) DEF Bytes
    <3> QED BY <3>1, ListOf, SMTT(60)
  <2>4. WellFormed(<<b>>)
    <3>1. Alone(b)
      BY OneByte, SMTT(60)
    <3> QED BY <3>1, SMTT(60) DEF Alone
  <2> QED BY <2>1, <2>2, <2>3, <2>4, SMTT(60)
<1>3. CASE 128 <= cp /\ cp <= 2047
  <2>1. PICK x \in Bytes : x = 192 + (cp \div 64) /\ x \in 194 .. 223
    <3>1. cp \div 64 >= 2 /\ cp \div 64 <= 31 /\ cp \div 64 \in Nat
      BY <1>3, <1>6, <1>7, SMTT(60)
    <3>2. 192 + (cp \div 64) \in 194 .. 223
      BY <3>1, SMTT(60)
    <3> QED BY <3>2, SMTT(60) DEF Bytes
  <2>2. Utf8(cp) = <<x, p>>
    BY <1>3, <1>8, <1>9, <2>1, SMTT(60) DEF Utf8
  <2>3. <<x, p>> \in Seq(Bytes) /\ WellFormed(<<x, p>>)
    BY <1>9, <2>1, TwoBytes, SMTT(60)
  <2> QED BY <2>2, <2>3, SMTT(60)
<1>4. CASE 2048 <= cp /\ cp <= 65535
  <2>1. PICK x \in Bytes : x = 224 + (cp \div 4096) /\ x \in 224 .. 239
    <3>1. cp \div 4096 >= 0 /\ cp \div 4096 <= 15 /\ cp \div 4096 \in Nat
      BY <1>4, <1>6, <1>7, SMTT(60)
    <3>2. 224 + (cp \div 4096) \in 224 .. 239
      BY <3>1, SMTT(60)
    <3> QED BY <3>2, SMTT(60) DEF Bytes
  <2>2. Utf8(cp) = <<x, q, p>>
    BY <1>4, <1>8, <1>9, <1>10, <2>1, SMTT(60) DEF Utf8
  <2>3. /\ x = 224 => q >= 160
        /\ x = 237 => q <= 159
    <3>1. x = 224 + 64 * h + c /\ q = 128 + d /\ h = 0
      BY <1>4, <1>6, <1>7, <1>10, <2>1, SMTT(60)
    <3> QED BY <1>4, <1>6, <1>7, <3>1, SMTT(60)
  <2>4. <<x, q, p>> \in Seq(Bytes) /\ WellFormed(<<x, q, p>>)
    BY <1>9, <1>10, <2>1, <2>3, ThreeBytes, SMTT(60)
  <2> QED BY <2>2, <2>4, SMTT(60)
<1>5. CASE cp > 65535
  <2>1. PICK x \in Bytes : x = 240 + (cp \div 262144) /\ x \in 240 .. 244
    <3>1. cp \div 262144 >= 0 /\ cp \div 262144 <= 4 /\ cp \div 262144 \in Nat
      BY <1>5, <1>6, <1>7, SMTT(60)
    <3>2. 240 + (cp \div 262144) \in 240 .. 244
      BY <3>1, SMTT(60)
    <3> QED BY <3>2, SMTT(60) DEF Bytes
  <2>2. Utf8(cp) = <<x, r, q, p>>
    BY <1>5, <1>8, <1>9, <1>10, <1>11, <2>1, SMTT(60) DEF Utf8
  <2>3. /\ x = 240 => r >= 144
        /\ x = 244 => r <= 143
    <3>1. x = 240 + h /\ r = 128 + c
      BY <1>7, <1>11, <2>1, SMTT(60)
    <3> QED BY <1>5, <1>6, <1>7, <3>1, SMTT(60)
  <2>4. <<x, r, q, p>> \in Seq(Bytes) /\ WellFormed(<<x, r, q, p>>)
    BY <1>9, <1>10, <1>11, <2>1, <2>3, FourBytes, SMTT(60)
  <2> QED BY <2>2, <2>4, SMTT(60)
<1> QED BY <1>2, <1>3, <1>4, <1>5, SMTT(60)

-----------------------------------------------------------------------------
(* What a turn of the loop of scan_string reads. *)

LEMMA AtIs ==
  ASSUME NEW t \in Seq(Bytes), NEW p \in Nat
  PROVE  /\ p > Len(t) => At(t, p) = -1
         /\ p <= Len(t) => At(t, p) = t[p]
         /\ p > 0 /\ p <= Len(t) => At(t, p) \in Bytes
<1>1. p > 0 /\ p <= Len(t) => t[p] \in Bytes
  OBVIOUS
<1> QED BY <1>1 DEF At, EOF

LEMMA HexIs == ASSUME NEW c PROVE HexValue(c) = -1 \/ (HexValue(c) \in Nat /\ HexValue(c) <= 15)
<1>1. CASE c \in 48 .. 57
  <2>1. HexValue(c) = c - 48
    BY <1>1, SMTT(60) DEF HexValue
  <2> QED BY <1>1, <2>1, SMTT(60)
<1>2. CASE c \in 65 .. 70
  <2>1. HexValue(c) = c - 55
    BY <1>2, SMTT(60) DEF HexValue
  <2> QED BY <1>2, <2>1, SMTT(60)
<1>3. CASE c \in 97 .. 102
  <2>1. HexValue(c) = c - 87
    BY <1>3, SMTT(60) DEF HexValue
  <2> QED BY <1>3, <2>1, SMTT(60)
<1>4. CASE c \notin 48 .. 57 /\ c \notin 65 .. 70 /\ c \notin 97 .. 102
  BY <1>4, SMTT(60) DEF HexValue
<1> QED BY <1>1, <1>2, <1>3, <1>4, SMTT(60)

IsCodepoint(cp) == cp = -1 \/ (cp \in Nat /\ cp <= 65535)

LEMMA CodepointIs == ASSUME NEW t, NEW p PROVE IsCodepoint(Codepoint(t, p))
<1> DEFINE digit == [k \in 0 .. 3 |-> HexValue(At(t, p + k))]
<1>1. PICK g : g = digit
  OBVIOUS
<1>2. Codepoint(t, p) = IF \E k \in 0 .. 3 : g[k] = -1 THEN -1
                        ELSE 4096 * g[0] + 256 * g[1] + 16 * g[2] + g[3]
  BY <1>1, SMTT(60) DEF Codepoint
<1>3. \A k \in 0 .. 3 : g[k] = -1 \/ (g[k] \in Nat /\ g[k] <= 15)
  BY <1>1, HexIs, SMTT(60)
<1>4. CASE \E k \in 0 .. 3 : g[k] = -1
  BY <1>2, <1>4, SMTT(60) DEF IsCodepoint
<1>5. CASE ~\E k \in 0 .. 3 : g[k] = -1
  <2>1. 0 \in 0 .. 3 /\ 1 \in 0 .. 3 /\ 2 \in 0 .. 3 /\ 3 \in 0 .. 3
    BY SMTT(60)
  <2>2. PICK a \in Nat : a = g[0] /\ a <= 15
    BY <1>3, <1>5, <2>1, SMTT(60)
  <2>3. PICK b \in Nat : b = g[1] /\ b <= 15
    BY <1>3, <1>5, <2>1, SMTT(60)
  <2>4. PICK c \in Nat : c = g[2] /\ c <= 15
    BY <1>3, <1>5, <2>1, SMTT(60)
  <2>5. PICK d \in Nat : d = g[3] /\ d <= 15
    BY <1>3, <1>5, <2>1, SMTT(60)
  <2>6. Codepoint(t, p) = 4096 * a + 256 * b + 16 * c + d
    BY <1>2, <1>5, <2>2, <2>3, <2>4, <2>5, SMTT(60)
  <2> HIDE DEF digit
  <2>7. 4096 * a + 256 * b + 16 * c + d \in Nat /\ 4096 * a + 256 * b + 16 * c + d <= 65535
    BY <2>2, <2>3, <2>4, <2>5, SMTT(60)
  <2> QED BY <2>6, <2>7, SMTT(60) DEF IsCodepoint
<1> QED BY <1>4, <1>5, SMTT(60)

\* What a turn of the loop of scan_string reads from p on is UTF-8.
IsUnit(u, p) ==
  \/ u = NoUnit
  \/ \E b \in Seq(Bytes) : \E n \in Nat : u = Unit(b, n) /\ n > p /\ WellFormed(b)

LEMMA UnicodeEscapeIs ==
  ASSUME NEW t, NEW p \in Nat PROVE IsUnit(UnicodeEscape(t, p), p)
<1>1. PICK one : one = Codepoint(t, p)
  BY SMTT(60)
<1>2. PICK two : two = IF At(t, p + 4) = Backslash /\ At(t, p + 5) = 117 THEN Codepoint(t, p + 6)
             ELSE -1
  BY SMTT(60)
<1>3. IsCodepoint(one) /\ IsCodepoint(two)
  <2>1. IsCodepoint(-1)
    BY SMTT(60) DEF IsCodepoint
  <2> QED BY <1>1, <1>2, <2>1, CodepointIs, SMTT(60)
<1>9. PICK both : both = one * 1024 + two - 56613888
  BY SMTT(60)
<1>4. UnicodeEscape(t, p) =
        IF one = -1 \/ LowSurrogate(one) THEN NoUnit
        ELSE IF ~HighSurrogate(one) THEN Unit(Utf8(one), p + 4)
        ELSE IF LowSurrogate(two) THEN Unit(Utf8(both), p + 10)
        ELSE NoUnit
  BY <1>1, <1>2, <1>9, SMTT(60) DEF UnicodeEscape
<1>5. p + 4 \in Nat /\ p + 4 > p /\ p + 10 \in Nat /\ p + 10 > p
  BY SMTT(60)
<1>6. CASE one # -1 /\ ~LowSurrogate(one) /\ ~HighSurrogate(one)
  <2>1. one \in Nat /\ one <= 1114111 /\ (one < 55296 \/ one > 57343)
    BY <1>3, <1>6, SMTT(60) DEF IsCodepoint, LowSurrogate, HighSurrogate
  <2>2. Utf8(one) \in Seq(Bytes) /\ WellFormed(Utf8(one))
    BY <2>1, Utf8IsWellFormed, SMTT(60)
  <2>3. UnicodeEscape(t, p) = Unit(Utf8(one), p + 4)
    BY <1>4, <1>6, Zenon
  <2> QED BY <1>5, <2>2, <2>3, SMTT(60) DEF IsUnit
<1>7. CASE one # -1 /\ ~LowSurrogate(one) /\ HighSurrogate(one) /\ LowSurrogate(two)
  <2>1. both \in Nat /\ both <= 1114111 /\ both > 57343
    <3>1. one \in Nat /\ two \in Nat
      BY <1>3, <1>7, SMTT(60) DEF IsCodepoint, LowSurrogate, HighSurrogate
    <3>2. 55296 <= one /\ one <= 56319 /\ 56320 <= two /\ two <= 57343
      BY <1>7, SMTT(60) DEF LowSurrogate, HighSurrogate
    <3>3. /\ one * 1024 + two - 56613888 <= 1114111 /\ one * 1024 + two - 56613888 > 57343
          /\ one * 1024 + two - 56613888 \in Int
      BY <3>1, <3>2, SMTT(60)
    <3> QED BY <1>9, <3>3, SMTT(60)
  <2>2. Utf8(both) \in Seq(Bytes) /\ WellFormed(Utf8(both))
    BY <2>1, Utf8IsWellFormed, SMTT(60)
  <2>3. UnicodeEscape(t, p) = Unit(Utf8(both), p + 10)
    BY <1>4, <1>7, Zenon
  <2> QED BY <1>5, <2>2, <2>3, SMTT(60) DEF IsUnit
<1>8. CASE ~ (one # -1 /\ ~LowSurrogate(one) /\ ~HighSurrogate(one))
           /\ ~ (one # -1 /\ ~LowSurrogate(one) /\ HighSurrogate(one) /\ LowSurrogate(two))
  BY <1>4, <1>8, SMTT(60) DEF IsUnit
<1> QED BY <1>6, <1>7, <1>8, SMTT(60)

LEMMA EscapeIs ==
  ASSUME NEW t, NEW p \in Nat PROVE IsUnit(Escape(t, p), p)
<1>1. CASE At(t, p) = 117
  <2>1. Escape(t, p) = UnicodeEscape(t, p + 1)
    BY <1>1 DEF Escape
  <2>2. PICK q \in Nat : q = p + 1
    OBVIOUS
  <2>3. IsUnit(UnicodeEscape(t, q), q)
    BY UnicodeEscapeIs
  <2>4. PICK u : u = UnicodeEscape(t, q)
    OBVIOUS
  <2>5. IsUnit(u, p)
    <3>1. CASE u = NoUnit
      BY <3>1 DEF IsUnit
    <3>2. CASE u # NoUnit
      <4>1. PICK b \in Seq(Bytes), n \in Nat : u = Unit(b, n) /\ n > q /\ WellFormed(b)
        BY <2>3, <2>4, <3>2 DEF IsUnit
      <4>2. n > p
        BY <2>2, <4>1
      <4> QED BY <4>1, <4>2 DEF IsUnit
    <3> QED BY <3>1, <3>2
  <2> QED BY <2>1, <2>2, <2>4, <2>5
<1>2. CASE At(t, p) # 117 /\ \E e \in Escapes : e[1] = At(t, p)
  <2>1. PICK e \in Escapes : e = (CHOOSE f \in Escapes : f[1] = At(t, p))
    BY <1>2
  <2>2. e[2] \in 0 .. 127
    BY DEF Escapes, Quote, Backslash
  <2>3. PICK b \in 0 .. 127 : b = e[2]
    BY <2>2
  <2>4. Escape(t, p) = Unit(<<b>>, p + 1)
    BY <1>2, <2>1, <2>3 DEF Escape
  <2>5. <<b>> \in Seq(Bytes)
    <3>1. b \in Bytes
      BY DEF Bytes
    <3> QED BY <3>1, ListOf
  <2>6. WellFormed(<<b>>)
    <3>1. Alone(b)
      BY OneByte
    <3> QED BY <3>1 DEF Alone
  <2>7. p + 1 \in Nat /\ p + 1 > p
    OBVIOUS
  <2> QED BY <2>4, <2>5, <2>6, <2>7 DEF IsUnit
<1>3. CASE At(t, p) # 117 /\ ~\E e \in Escapes : e[1] = At(t, p)
  BY <1>3 DEF Escape, IsUnit
<1> QED BY <1>1, <1>2, <1>3

\* next_byte_in_range expects the bytes that make a scalar value.
TailsFit(f) ==
  /\ f \in 194 .. 244
  /\ Len(Tails(f)) \in 1 .. 3 /\ Width(f) = Len(Tails(f)) + 1
  /\ \A k \in 1 .. Len(Tails(f)) : Tails(f)[k] \subseteq 128 .. 191
  /\ \A b \in Tails(f)[1] : Second(f, b)

LEMMA TailsOne ==
  ASSUME NEW f, NEW n \in 1 .. 3, NEW S, S \subseteq 128 .. 191, NEW ts,
         ts = IF n = 1 THEN <<S>> ELSE IF n = 2 THEN <<S, AnyTail>> ELSE <<S, AnyTail, AnyTail>>,
         Tails(f) = ts, f \in 194 .. 244, Width(f) = n + 1, \A b \in S : Second(f, b)
  PROVE  TailsFit(f)
<1>1. Len(ts) = n
  OBVIOUS
<1>2. ts[1] = S
  OBVIOUS
<1>3. \A k \in 1 .. Len(ts) : ts[k] \subseteq 128 .. 191
  <2>1. \A k \in 1 .. n : ts[k] = S \/ ts[k] = AnyTail
    OBVIOUS
  <2>2. AnyTail \subseteq 128 .. 191
    BY DEF AnyTail
  <2> SUFFICES ASSUME NEW k \in 1 .. Len(ts) PROVE ts[k] \subseteq 128 .. 191
    OBVIOUS
  <2>3. ts[k] = S \/ ts[k] = AnyTail
    BY <1>1, <2>1
  <2> QED BY <2>2, <2>3
<1> QED BY <1>1, <1>2, <1>3 DEF TailsFit

LEMMA TailsAre == ASSUME NEW f PROVE Tails(f) = <<>> \/ TailsFit(f)
<1>1. 1 \in 1 .. 3 /\ 2 \in 1 .. 3 /\ 3 \in 1 .. 3
  OBVIOUS
<1>2. CASE f \in 194 .. 223
  <2>1. Tails(f) = <<AnyTail>>
    <3>1. /\ f # 224 /\ f \notin (225 .. 239) \ {237} /\ f # 237
          /\ f # 240 /\ f \notin 241 .. 243 /\ f # 244
      BY <1>2
    <3> HIDE DEF AnyTail
    <3> QED BY <1>2, <3>1, SMTT(60) DEF Tails
  <2>2. Width(f) = 1 + 1 /\ f \in 194 .. 244 /\ \A b \in AnyTail : Second(f, b)
    BY <1>2 DEF Width, Second, AnyTail
  <2> QED BY <1>1, <2>1, <2>2, TailsOne DEF AnyTail
<1>3. CASE f = 224
  <2>1. Tails(f) = <<160 .. 191, AnyTail>>
    BY <1>3 DEF Tails
  <2>2. Width(f) = 2 + 1 /\ f \in 194 .. 244 /\ \A b \in 160 .. 191 : Second(f, b)
    BY <1>3 DEF Width, Second
  <2>3. 160 .. 191 \subseteq 128 .. 191
    OBVIOUS
  <2> QED BY <1>1, <2>1, <2>2, <2>3, TailsOne
<1>4. CASE f \in (225 .. 239) \ {237}
  <2>1. Tails(f) = <<AnyTail, AnyTail>>
    BY <1>4, SMTT(30) DEF Tails
  <2>2. Width(f) = 2 + 1 /\ f \in 194 .. 244 /\ \A b \in AnyTail : Second(f, b)
    BY <1>4 DEF Width, Second, AnyTail
  <2> QED BY <1>1, <2>1, <2>2, TailsOne DEF AnyTail
<1>5. CASE f = 237
  <2>1. Tails(f) = <<128 .. 159, AnyTail>>
    BY <1>5 DEF Tails
  <2>2. Width(f) = 2 + 1 /\ f \in 194 .. 244 /\ \A b \in 128 .. 159 : Second(f, b)
    BY <1>5 DEF Width, Second
  <2>3. 128 .. 159 \subseteq 128 .. 191
    OBVIOUS
  <2> QED BY <1>1, <2>1, <2>2, <2>3, TailsOne
<1>6. CASE f = 240
  <2>1. Tails(f) = <<144 .. 191, AnyTail, AnyTail>>
    BY <1>6 DEF Tails
  <2>2. Width(f) = 3 + 1 /\ f \in 194 .. 244 /\ \A b \in 144 .. 191 : Second(f, b)
    BY <1>6 DEF Width, Second
  <2>3. 144 .. 191 \subseteq 128 .. 191
    OBVIOUS
  <2> QED BY <1>1, <2>1, <2>2, <2>3, TailsOne
<1>7. CASE f \in 241 .. 243
  <2>1. Tails(f) = <<AnyTail, AnyTail, AnyTail>>
    BY <1>7 DEF Tails
  <2>2. Width(f) = 3 + 1 /\ f \in 194 .. 244 /\ \A b \in AnyTail : Second(f, b)
    BY <1>7 DEF Width, Second, AnyTail
  <2> QED BY <1>1, <2>1, <2>2, TailsOne DEF AnyTail
<1>8. CASE f = 244
  <2>1. Tails(f) = <<128 .. 143, AnyTail, AnyTail>>
    BY <1>8 DEF Tails
  <2>2. Width(f) = 3 + 1 /\ f \in 194 .. 244 /\ \A b \in 128 .. 143 : Second(f, b)
    BY <1>8 DEF Width, Second
  <2>3. 128 .. 143 \subseteq 128 .. 191
    OBVIOUS
  <2> QED BY <1>1, <2>1, <2>2, <2>3, TailsOne
<1>9. CASE ~ (f \in 194 .. 223 \/ f = 224 \/ f \in (225 .. 239) \ {237} \/ f = 237 \/ f = 240
           \/ f \in 241 .. 243 \/ f = 244)
  BY <1>9 DEF Tails
<1> QED BY <1>2, <1>3, <1>4, <1>5, <1>6, <1>7, <1>8, <1>9

LEMMA IsNatural == ASSUME NEW c, c \in 194 .. 244 \/ c \in 128 .. 191 PROVE c \in Nat
OBVIOUS

\* At(t, p) is EOF exactly behind the text.
ReadAt(t, p) == /\ p > Len(t) => At(t, p) = -1
                /\ p <= Len(t) => At(t, p) = t[p]

LEMMA ReadAtAll == ASSUME NEW t, NEW p \in Nat, Len(t) \in Nat PROVE ReadAt(t, p)
<1>1. PICK l \in Nat : l = Len(t)
  OBVIOUS
<1>2. p > l <=> ~ p <= l
  OBVIOUS
<1> QED BY <1>1, <1>2 DEF ReadAt, At, EOF

LEMMA Within ==
  ASSUME NEW t, NEW p \in Nat, Len(t) \in Nat, At(t, p) \in Nat
  PROVE  p <= Len(t) /\ At(t, p) = t[p]
<1>1. PICK l \in Nat : l = Len(t)
  OBVIOUS
<1>4. ReadAt(t, p)
  BY ReadAtAll
<1>2. ~ p > l
  BY <1>1, <1>4 DEF ReadAt
<1>3. p <= l
  BY <1>2
<1> QED BY <1>1, <1>3, <1>4 DEF ReadAt

LEMMA MultibyteIs ==
  ASSUME NEW t \in Seq(Bytes), NEW p \in Nat PROVE IsUnit(Multibyte(t, p), p)
<1>0. Len(t) \in Nat
  OBVIOUS
<1>1. PICK ts : ts = Tails(At(t, p))
  OBVIOUS
<1>2. PICK n : n = Len(ts)
  OBVIOUS
<1> DEFINE Fits == n > 0 /\ \A k \in 1 .. n : At(t, p + k) \in ts[k]
           bytes == [k \in 1 .. n + 1 |-> t[p + k - 1]]
<1>3. Multibyte(t, p) = IF Fits THEN Unit(bytes, p + n + 1) ELSE NoUnit
  BY <1>1, <1>2 DEF Multibyte
<1>4. CASE ~Fits
  BY <1>3, <1>4 DEF IsUnit
<1>5. CASE Fits
  <2>1. TailsFit(At(t, p))
    <3>1. ts # <<>>
      BY <1>2, <1>5
    <3> QED BY <1>1, <3>1, TailsAre
  <2>2. PICK f \in Bytes : f = At(t, p) /\ f \in 194 .. 244
    BY <2>1 DEF TailsFit, Bytes
  <2>3. /\ n \in 1 .. 3 /\ Width(f) = n + 1
        /\ \A k \in 1 .. n : ts[k] \subseteq 128 .. 191
        /\ \A b \in ts[1] : Second(f, b)
    BY <1>1, <1>2, <2>1, <2>2 DEF TailsFit
  <2>4. p <= Len(t) /\ t[p] = f
    <3>1. At(t, p) \in Nat
      <4>1. At(t, p) \in 194 .. 244
        BY <2>1 DEF TailsFit
      <4> QED BY <4>1, IsNatural
    <3> QED BY <2>2, <3>1, <1>0, Within
  <2>5. ASSUME NEW k \in 1 .. n
        PROVE  t[p + k] = At(t, p + k) /\ t[p + k] \in Bytes /\ t[p + k] \in 128 .. 191
               /\ t[p + k] \in ts[k]
    <3>1. PICK q \in Nat : q = p + k
      BY <2>3
    <3>2. At(t, q) \in ts[k]
      BY <1>5, <3>1
    <3>3. At(t, q) \in 128 .. 191
      BY <2>3, <3>2
    <3>4. At(t, q) \in Nat
      <4> QED BY <3>3, IsNatural
    <3>6. t[q] = At(t, q)
      BY <3>4, <1>0, Within
    <3> QED BY <3>1, <3>2, <3>3, <3>6 DEF Bytes
  <2>6. bytes[1] = f /\ \A k \in 1 .. n : bytes[k + 1] = t[p + k]
    <3>1. 1 \in 1 .. n + 1 /\ p + 1 - 1 = p
      BY <2>3
    <3>2. ASSUME NEW k \in 1 .. n PROVE bytes[k + 1] = t[p + k]
      <4>1. k + 1 \in 1 .. n + 1 /\ p + (k + 1) - 1 = p + k
        BY <2>3
      <4> QED BY <4>1
    <3> QED BY <2>4, <3>1, <3>2
  <2>7. \A k \in 1 .. n + 1 : bytes[k] \in Bytes
    <3> SUFFICES ASSUME NEW k \in 1 .. n + 1 PROVE bytes[k] \in Bytes
      OBVIOUS
    <3>1. CASE k = 1
      BY <2>6, <3>1
    <3>2. CASE k # 1
      <4>1. PICK j \in 1 .. n : k = j + 1
        <5>1. k - 1 \in 1 .. n /\ k = (k - 1) + 1
          BY <2>3, <3>2
        <5> QED BY <5>1
      <4> QED BY <2>5, <2>6, <4>1
    <3> QED BY <3>1, <3>2
  <2>8. bytes \in Seq(Bytes) /\ Len(bytes) = n + 1
    <3>1. bytes \in [1 .. n + 1 -> Bytes]
      BY <2>7
    <3>2. n + 1 \in Nat
      BY <2>3
    <3>3. \A g \in [1 .. n + 1 -> Bytes] : g \in Seq(Bytes) /\ Len(g) = n + 1
      BY <3>2
    <3> HIDE DEF bytes
    <3> QED BY <3>1, <3>3
  <2> HIDE DEF bytes
  <2>9. OneScalar(bytes)
    <3>1. Second(bytes[1], bytes[2])
      <4>1. 1 \in 1 .. n /\ 1 + 1 = 2
        BY <2>3
      <4>2. bytes[2] = t[p + 1] /\ t[p + 1] \in ts[1]
        BY <2>5, <2>6, <4>1
      <4> QED BY <2>3, <2>6, <4>2
    <3>2. \A k \in 2 .. n + 1 : bytes[k] \in 128 .. 191
      <4> SUFFICES ASSUME NEW k \in 2 .. n + 1 PROVE bytes[k] \in 128 .. 191
        OBVIOUS
      <4>1. PICK j \in 1 .. n : k = j + 1
        <5>1. k - 1 \in 1 .. n /\ k = (k - 1) + 1
          BY <2>3
        <5> QED BY <5>1
      <4> QED BY <2>5, <2>6, <4>1
    <3>3. Len(bytes) \in Nat \ {0} /\ Len(bytes) > 1 /\ Width(bytes[1]) = Len(bytes)
      BY <2>2, <2>3, <2>6, <2>8
    <3> QED BY <2>2, <2>6, <2>8, <3>1, <3>2, <3>3 DEF OneScalar
  <2>10. WellFormed(bytes)
    BY <2>8, <2>9, OneWellFormed
  <2>11. p + n + 1 \in Nat /\ p + n + 1 > p
    BY <2>3
  <2>12. Multibyte(t, p) = Unit(bytes, p + n + 1)
    BY <1>3, <1>5
  <2> QED BY <2>8, <2>10, <2>11, <2>12 DEF IsUnit
<1> QED BY <1>4, <1>5

LEMMA UnitIs ==
  ASSUME NEW t \in Seq(Bytes), NEW p \in Nat PROVE IsUnit(UnitAt(t, p), p)
<1>1. CASE At(t, p) = Backslash
  <2>1. PICK q \in Nat : q = p + 1 /\ q > p
    OBVIOUS
  <2>2. PICK u : u = Escape(t, q)
    OBVIOUS
  <2>3. IsUnit(u, q)
    BY <2>2, EscapeIs
  <2>4. IsUnit(u, p)
    <3>1. CASE u = NoUnit
      BY <3>1 DEF IsUnit
    <3>2. CASE u # NoUnit
      <4>1. PICK b \in Seq(Bytes), n \in Nat : u = Unit(b, n) /\ n > q /\ WellFormed(b)
        BY <2>3, <3>2 DEF IsUnit
      <4>2. n > p
        BY <2>1, <4>1
      <4> QED BY <4>1, <4>2 DEF IsUnit
    <3> QED BY <3>1, <3>2
  <2> QED BY <1>1, <2>1, <2>2, <2>4 DEF UnitAt
<1>2. CASE At(t, p) # Backslash /\ At(t, p) \in 32 .. 127
  <2>1. PICK b \in 0 .. 127 : b = At(t, p)
    BY <1>2
  <2>2. UnitAt(t, p) = Unit(<<b>>, p + 1)
    BY <1>2, <2>1 DEF UnitAt
  <2>3. <<b>> \in Seq(Bytes)
    <3>1. b \in Bytes
      BY DEF Bytes
    <3> QED BY <3>1, ListOf
  <2>4. WellFormed(<<b>>)
    <3>1. Alone(b)
      BY OneByte
    <3> QED BY <3>1 DEF Alone
  <2>5. p + 1 \in Nat /\ p + 1 > p
    OBVIOUS
  <2> QED BY <2>2, <2>3, <2>4, <2>5 DEF IsUnit
<1>3. CASE At(t, p) # Backslash /\ At(t, p) \notin 32 .. 127
  <2>1. UnitAt(t, p) = Multibyte(t, p)
    BY <1>3 DEF UnitAt
  <2> QED BY <2>1, MultibyteIs
<1> QED BY <1>1, <1>2, <1>3

\* Behind the text there is none.
LEMMA NoMoreUnits ==
  ASSUME NEW t \in Seq(Bytes), NEW p \in Nat, p > Len(t) PROVE UnitAt(t, p) = NoUnit
         /\ At(t, p) # Quote
<1>1. At(t, p) = -1
  BY AtIs
<1>2. Tails(-1) = <<>>
  BY DEF Tails
<1>3. Multibyte(t, p) = NoUnit
  BY <1>1, <1>2 DEF Multibyte
<1> QED BY <1>1, <1>3 DEF UnitAt, Backslash, Quote

-----------------------------------------------------------------------------
(* scan_string. *)

Reading   == [ok : BOOLEAN, bytes : Seq(Bytes), next : Nat]
\* The types of tokens that the lexer returns.
Kinds == Scalars \cup {"begin_array", "end_array", "begin_object", "end_object", "name_separator",
                       "value_separator", "end_of_input", "parse_error"}

LexTokens == [type : Kinds, text : Seq(Bytes), num : Int, next : Nat]

LEMMA TokenFields ==
  ASSUME NEW B, NEW c \in Kinds, NEW b \in B, NEW n \in Int, NEW k \in Nat
  PROVE  [type |-> c, text |-> b, num |-> n, next |-> k]
           \in [type : Kinds, text : B, num : Int, next : Nat]
OBVIOUS

LEMMA ReadingFields ==
  ASSUME NEW B, NEW a \in BOOLEAN, NEW b \in B, NEW k \in Nat
  PROVE  [ok |-> a, bytes |-> b, next |-> k] \in [ok : BOOLEAN, bytes : B, next : Nat]
OBVIOUS

LEMMA TokenNames == "parse_error" \in Kinds /\ "value_string" \in Kinds
BY DEF Kinds, Scalars

LEMMA IsLexToken ==
  ASSUME NEW k \in Nat, NEW b \in Seq(Bytes)
  PROVE  /\ [type |-> "parse_error", text |-> <<>>, num |-> 0, next |-> k] \in LexTokens
         /\ [type |-> "value_string", text |-> b, num |-> 0, next |-> k] \in LexTokens
<1>1. <<>> \in Seq(Bytes)
  OBVIOUS
<1>2. "parse_error" \in Kinds /\ "value_string" \in Kinds
  BY TokenNames
<1>3. 0 \in Int
  OBVIOUS
<1> QED BY <1>1, <1>2, <1>3, TokenFields DEF LexTokens

\* What is left for the loop to read.
Left(t, x) == IF ~x.ok THEN 0 ELSE IF x.next > Len(t) THEN 1 ELSE Len(t) + 2 - x.next

Turned(t, x) == Extended(x, UnitAt(t, x.next))

\* A turn of the loop.
TurnsOn(t, x) ==
  /\ Turned(t, x) \in Reading
  /\ Left(t, Turned(t, x)) < Left(t, x)
  /\ WellFormed(x.bytes) => WellFormed(Turned(t, x).bytes)
  /\ IF Turned(t, x).ok THEN Turned(t, x).next > x.next ELSE Turned(t, x).next = 1

LEMMA LeftIs ==
  ASSUME NEW t, Len(t) \in Nat, NEW x \in Reading
  PROVE  /\ Left(t, x) \in Nat /\ (x.ok => Left(t, x) > 0) /\ (~x.ok => Left(t, x) = 0)
         /\ \A y \in Reading : x.ok /\ x.next <= Len(t) /\ y.next > x.next
              => Left(t, y) < Left(t, x)
<1>1. PICK l \in Nat : l = Len(t)
  OBVIOUS
<1>2. \A y \in Reading : y.next \in Nat
  BY DEF Reading
<1> QED BY <1>1, <1>2 DEF Left

LEMMA ExtendedIs ==
  ASSUME NEW x \in Reading, NEW u, NEW p, IsUnit(u, p), NEW y, y = Extended(x, u)
  PROVE  /\ y \in Reading
         /\ WellFormed(x.bytes) => WellFormed(y.bytes)
         /\ IF y.ok THEN y.next > p ELSE y.next = 1
         /\ u = NoUnit => ~y.ok
<1>1. CASE u = NoUnit
  <2>1. y = [ok |-> FALSE, bytes |-> x.bytes \o <<>>, next |-> 1]
    BY <1>1 DEF Extended, NoUnit
  <2>2. x.bytes \in Seq(Bytes) /\ x.bytes \o <<>> = x.bytes
    BY DEF Reading
  <2> QED BY <2>1, <2>2 DEF Reading
<1>2. CASE u # NoUnit
  <2>1. PICK b \in Seq(Bytes), n \in Nat : u = Unit(b, n) /\ n > p /\ WellFormed(b)
    BY <1>2 DEF IsUnit
  <2>2. PICK c \in Seq(Bytes) : c = x.bytes
    BY DEF Reading
  <2>3. y = [ok |-> TRUE, bytes |-> c \o b, next |-> n]
    BY <2>1, <2>2 DEF Extended, Unit
  <2>4. c \o b \in Seq(Bytes) /\ (WellFormed(c) => WellFormed(c \o b))
    BY <2>1, WellFormedJoined, ConcatOf
  <2>5. y \in Reading
    <3>1. TRUE \in BOOLEAN
      OBVIOUS
    <3> QED BY <2>3, <2>4, <3>1, ReadingFields DEF Reading
  <2>6. y.bytes = c \o b /\ y.ok /\ y.next = n
    BY <2>3
  <2>7. WellFormed(x.bytes) => WellFormed(y.bytes)
    BY <2>2, <2>4, <2>6
  <2>8. y.next > p
    BY <2>1, <2>6
  <2> QED BY <1>2, <2>5, <2>6, <2>7, <2>8
<1> QED BY <1>1, <1>2

LEMMA ReadOn ==
  ASSUME NEW t \in Seq(Bytes), NEW x \in Reading, x.ok
  PROVE  TurnsOn(t, x)
<1>1. Len(t) \in Nat
  OBVIOUS
<1>2. PICK p \in Nat : p = x.next
  BY DEF Reading
<1>3. PICK u : u = UnitAt(t, p)
  OBVIOUS
<1>4. IsUnit(u, p)
  BY <1>3, UnitIs
<1>5. PICK y : y = Extended(x, u)
  OBVIOUS
<1>6. /\ y \in Reading
      /\ WellFormed(x.bytes) => WellFormed(y.bytes)
      /\ IF y.ok THEN y.next > p ELSE y.next = 1
      /\ u = NoUnit => ~y.ok
  BY <1>4, <1>5, ExtendedIs
<1>7. Left(t, y) < Left(t, x)
  <2>1. CASE ~y.ok
    BY <1>1, <1>6, <2>1, LeftIs
  <2>2. CASE y.ok
    <3>1. ~ p > Len(t)
      BY <1>3, <1>6, <2>2, NoMoreUnits
    <3>2. p <= Len(t)
      <4>1. PICK l \in Nat : l = Len(t)
        BY <1>1
      <4> QED BY <3>1, <4>1
    <3>3. y.next > p
      BY <1>6, <2>2
    <3> QED BY <1>1, <1>2, <1>6, <3>2, <3>3, LeftIs
  <2> QED BY <2>1, <2>2
<1> QED BY <1>2, <1>3, <1>5, <1>6, <1>7 DEF TurnsOn, Turned

Scanned(f, t) ==
  f = [x \in Reading |-> IF ~x.ok THEN Error(x.next)
                         ELSE IF At(t, x.next) = Quote THEN StringToken(x.bytes, x.next + 1)
                         ELSE f[Extended(x, UnitAt(t, x.next))]]

LEMMA StringScans ==
  ASSUME NEW t \in Seq(Bytes)
  PROVE  \E f : Scanned(f, t)
<1> DEFINE S == Reading
           T == LexTokens
           m == [x \in S |-> Left(t, x)]
           Def == [a \in [S -> T] \X S |->
                     IF ~a[2].ok THEN Error(a[2].next)
                     ELSE IF At(t, a[2].next) = Quote THEN StringToken(a[2].bytes, a[2].next + 1)
                     ELSE a[1][Turned(t, a[2])]]
<1>1. T # {}
  <2>1. <<>> \in Seq(Bytes) /\ 0 \in Nat
    OBVIOUS
  <2> QED BY <2>1, IsLexToken
<1>2. m \in [S -> Nat]
  <2>1. Len(t) \in Nat
    OBVIOUS
  <2>2. \A x \in S : Left(t, x) \in Nat
    BY <2>1, LeftIs
  <2> QED BY <2>2
<1>3. Def \in [[S -> T] \X S -> T]
  <2> SUFFICES ASSUME NEW g \in [S -> T], NEW x \in S
               PROVE  (IF ~x.ok THEN Error(x.next)
                       ELSE IF At(t, x.next) = Quote THEN StringToken(x.bytes, x.next + 1)
                       ELSE g[Turned(t, x)]) \in T
    OBVIOUS
  <2>1. CASE ~x.ok
    <3>1. Error(x.next) = [type |-> "parse_error", text |-> <<>>, num |-> 0, next |-> x.next]
      BY DEF Error, Token
    <3>2. x.next \in Nat /\ <<>> \in Seq(Bytes)
      BY DEF Reading
    <3> QED BY <2>1, <3>1, <3>2, IsLexToken
  <2>2. CASE x.ok /\ At(t, x.next) = Quote
    <3>1. StringToken(x.bytes, x.next + 1)
            = [type |-> "value_string", text |-> x.bytes, num |-> 0, next |-> x.next + 1]
      BY DEF StringToken, Token
    <3>2. x.next + 1 \in Nat /\ x.bytes \in Seq(Bytes)
      BY DEF Reading
    <3> QED BY <2>2, <3>1, <3>2, IsLexToken
  <2>3. CASE x.ok /\ At(t, x.next) # Quote
    <3>1. TurnsOn(t, x)
      BY <2>3, ReadOn
    <3>2. Turned(t, x) \in S
      BY <3>1 DEF TurnsOn
    <3> QED BY <2>3, <3>2
  <2> QED BY <2>1, <2>2, <2>3
<1>4. Founded(Def, S, T, m)
  <2> SUFFICES ASSUME NEW g \in [S -> T], NEW h \in [S -> T], NEW x \in S,
                      \A y \in S : m[y] < m[x] => g[y] = h[y]
               PROVE  Def[<<g, x>>] = Def[<<h, x>>]
    BY DEF Founded
  <2>1. CASE x.ok
    <3>1. TurnsOn(t, x)
      BY <2>1, ReadOn
    <3>2. PICK y \in S : y = Turned(t, x)
      BY <3>1 DEF TurnsOn
    <3>3. m[y] < m[x]
      BY <3>1, <3>2 DEF TurnsOn
    <3>4. g[y] = h[y]
      BY <3>3
    <3> QED BY <3>2, <3>4
  <2>2. CASE ~x.ok
    BY <2>2
  <2> QED BY <2>1, <2>2
<1>5. PICK f \in [S -> T] : f = [x \in S |-> Def[<<f, x>>]]
  <2> HIDE DEF S, T, m, Def
  <2>1. Recurses(Def, S, T, m)
    BY <1>1, <1>2, <1>3, <1>4 DEF Recurses
  <2>2. Solved(Def, S, T)
    BY <2>1, Recursive
  <2> QED BY <2>2 DEF Solved
<1>6. ASSUME NEW x \in S
      PROVE  f[x] = IF ~x.ok THEN Error(x.next)
                    ELSE IF At(t, x.next) = Quote THEN StringToken(x.bytes, x.next + 1)
                    ELSE f[Extended(x, UnitAt(t, x.next))]
  <2>1. f[x] = Def[<<f, x>>]
    <3> HIDE DEF Def
    <3> QED BY <1>5
  <2> QED BY <2>1 DEF Turned
<1>7. f = [x \in Reading |-> f[x]]
  OBVIOUS
<1>8. Scanned(f, t)
  BY <1>6, <1>7 DEF Scanned
<1> QED BY <1>8

LEMMA ScanStringIs ==
  ASSUME NEW t \in Seq(Bytes)
  PROVE  \E f : Scanned(f, t) /\ \A p : ScanString(t, p) = f[Unit(<<>>, p)]
<1> DEFINE F == CHOOSE f : Scanned(f, t)
<1>1. Scanned(F, t)
  BY StringScans
<1>2. \A p : ScanString(t, p) = F[Unit(<<>>, p)]
  BY DEF ScanString, Scanned, Reading
<1> HIDE DEF F
<1> QED BY <1>1, <1>2

\* What scan_string returns from p on.
IsStringOrError(k, p) ==
  /\ k \in LexTokens /\ WellFormed(k.text)
  /\ \/ k.type = "value_string" /\ k.next > p
     \/ k.type = "parse_error" /\ k.text = <<>> /\ k.next > 0

NothingBad == WellFormed(<<>>)

LEMMA EmptyWellFormed == WellFormed(<<>>)
<1>1. 1 .. 0 = {} /\ Len(<<>>) = 0
  OBVIOUS
<1> QED BY <1>1 DEF WellFormed

\* What is read so far is UTF-8.
FineSoFar(x, p) == IF x.ok THEN x.next >= p /\ WellFormed(x.bytes) ELSE x.next > 0

LEMMA StringIs ==
  ASSUME NEW t \in Seq(Bytes), NEW p \in Nat
  PROVE  IsStringOrError(ScanString(t, p), p)
<1>1. PICK f : Scanned(f, t) /\ ScanString(t, p) = f[Unit(<<>>, p)]
  BY ScanStringIs
<1>2. Len(t) \in Nat
  OBVIOUS
<1> DEFINE G == {n \in Nat : \A x \in Reading :
                   Left(t, x) = n /\ FineSoFar(x, p) => IsStringOrError(f[x], p)}
<1>3. ASSUME NEW n \in Nat, \A k \in 0 .. n - 1 : k \in G PROVE n \in G
  <2> SUFFICES ASSUME NEW x \in Reading, Left(t, x) = n, FineSoFar(x, p)
               PROVE  IsStringOrError(f[x], p)
    OBVIOUS
  <2>1. f[x] = IF ~x.ok THEN Error(x.next)
               ELSE IF At(t, x.next) = Quote THEN StringToken(x.bytes, x.next + 1)
               ELSE f[Extended(x, UnitAt(t, x.next))]
    BY <1>1 DEF Scanned
  <2>2. PICK q \in Nat : q = x.next
    BY DEF Reading
  <2>3. CASE ~x.ok
    <3>1. f[x] = [type |-> "parse_error", text |-> <<>>, num |-> 0, next |-> q]
      BY <2>1, <2>2, <2>3 DEF Error, Token
    <3>2. q > 0
      BY <2>2, <2>3 DEF FineSoFar
    <3>3. <<>> \in Seq(Bytes)
      OBVIOUS
    <3>4. f[x] \in LexTokens
      BY <3>1, <3>3, IsLexToken
    <3> QED BY <3>1, <3>2, <3>4, EmptyWellFormed DEF IsStringOrError
  <2>4. CASE x.ok /\ At(t, x.next) = Quote
    <3>1. PICK b \in Seq(Bytes) : b = x.bytes
      BY DEF Reading
    <3>2. f[x] = [type |-> "value_string", text |-> b, num |-> 0, next |-> q + 1]
      BY <2>1, <2>2, <2>4, <3>1 DEF StringToken, Token
    <3>3. q >= p /\ WellFormed(b)
      BY <2>2, <2>4, <3>1 DEF FineSoFar
    <3>4. q + 1 \in Nat /\ q + 1 > p
      BY <3>3
    <3>5. f[x] \in LexTokens
      BY <3>1, <3>2, <3>4, IsLexToken
    <3> QED BY <3>2, <3>3, <3>4, <3>5 DEF IsStringOrError
  <2>5. CASE x.ok /\ At(t, x.next) # Quote
    <3>1. TurnsOn(t, x)
      BY <2>5, ReadOn
    <3>2. PICK y \in Reading : y = Turned(t, x)
      BY <3>1 DEF TurnsOn
    <3>3. /\ Left(t, y) < Left(t, x)
          /\ WellFormed(x.bytes) => WellFormed(y.bytes)
          /\ IF y.ok THEN y.next > x.next ELSE y.next = 1
      BY <3>1, <3>2 DEF TurnsOn
    <3>4. Left(t, y) \in 0 .. n - 1
      BY <1>2, <3>3, LeftIs
    <3>5. FineSoFar(y, p)
      <4>1. y.next \in Nat
        BY DEF Reading
      <4> QED BY <2>2, <2>5, <3>3, <4>1 DEF FineSoFar
    <3>6. IsStringOrError(f[y], p)
      BY <1>3, <3>4, <3>5
    <3> QED BY <2>1, <2>5, <3>2, <3>6 DEF Turned
  <2> QED BY <2>3, <2>4, <2>5
<1>4. \A n \in Nat : n \in G
  <2> HIDE DEF G
  <2> QED BY <1>3, Induction
<1>5. PICK x \in Reading : x = Unit(<<>>, p)
  <2>1. <<>> \in Seq(Bytes)
    OBVIOUS
  <2>2. TRUE \in BOOLEAN
    OBVIOUS
  <2> QED BY <2>1, <2>2, ReadingFields DEF Reading, Unit
<1>6. FineSoFar(x, p)
  BY <1>5, EmptyWellFormed DEF FineSoFar, Unit
<1>7. Left(t, x) \in Nat
  BY <1>2, LeftIs
<1>8. IsStringOrError(f[x], p)
  BY <1>4, <1>6, <1>7
<1> QED BY <1>1, <1>5, <1>8

-----------------------------------------------------------------------------
(* scan_number and scan. *)

Accepting == {"zero", "any1", "decimal2", "any2"}

\* Where scan_number goes from a state.
NextIs(from, c) ==
  \/ NumberNext(from, c) \in NumberStates \ {"init"} /\ c # -1
  \/ NumberNext(from, c) = "done" /\ from \in Accepting
  \/ NumberNext(from, c) = "error"

LEMMA RowIs ==
  ASSUME NEW row \in NumberTable
  PROVE  row[3] \in NumberStates \ {"init"} /\ -1 \notin row[2]
BY DEF NumberTable, NumberStates, Digit, Minus, Dot, Exp, Sign

LEMMA NumberNextIs == ASSUME NEW from, NEW c PROVE NextIs(from, c)
<1>1. CASE \E row \in NumberTable : from \in row[1] /\ c \in row[2]
  <2>1. PICK row \in NumberTable : /\ row = (CHOOSE r \in NumberTable : from \in r[1] /\ c \in r[2])
                                   /\ from \in row[1] /\ c \in row[2]
    BY <1>1
  <2>2. NumberNext(from, c) = row[3]
    BY <1>1, <2>1 DEF NumberNext
  <2> QED BY <2>1, <2>2, RowIs DEF NextIs
<1>2. CASE ~\E row \in NumberTable : from \in row[1] /\ c \in row[2]
  BY <1>2 DEF NumberNext, NextIs, Accepting
<1> QED BY <1>1, <1>2

LEMMA Unlike == "done" \notin NumberStates /\ "error" \notin NumberStates
BY DEF NumberStates

\* The recursion of scan_number.
Ended(f, t) ==
  f = [q \in Nat |->
        [from \in NumberStates |->
           LET to == NumberNext(from, At(t, q))
           IN IF to = "done" THEN q ELSE IF to = "error" THEN 0 ELSE f[q + 1][to]]]

LEMMA NumberEnds ==
  ASSUME NEW t, Len(t) \in Nat
  PROVE  \E f \in [Nat -> [NumberStates -> Nat]] : Ended(f, t)
<1> DEFINE S == Nat
           T == [NumberStates -> Nat]
           m == [q \in S |-> IF q > Len(t) THEN 0 ELSE Len(t) + 1 - q]
           Def == [a \in [S -> T] \X S |->
                     [from \in NumberStates |->
                        IF NumberNext(from, At(t, a[2])) = "done" THEN a[2]
                        ELSE IF NumberNext(from, At(t, a[2])) = "error" THEN 0
                        ELSE a[1][a[2] + 1][NumberNext(from, At(t, a[2]))]]]
<1>1. T # {}
  <2>1. [from \in NumberStates |-> 0] \in T
    OBVIOUS
  <2> QED BY <2>1
<1>2. m \in [S -> Nat]
  OBVIOUS
<1>3. Def \in [[S -> T] \X S -> T]
  <2> SUFFICES ASSUME NEW g \in [S -> T], NEW q \in S, NEW from \in NumberStates
               PROVE  (IF NumberNext(from, At(t, q)) = "done" THEN q
                       ELSE IF NumberNext(from, At(t, q)) = "error" THEN 0
                       ELSE g[q + 1][NumberNext(from, At(t, q))]) \in Nat
    OBVIOUS
  <2>1. PICK to : to = NumberNext(from, At(t, q))
    OBVIOUS
  <2>2. to = "done" \/ to = "error" \/ to \in NumberStates
    BY <2>1, NumberNextIs DEF NextIs
  <2>3. q + 1 \in S
    OBVIOUS
  <2>4. to \in NumberStates => g[q + 1][to] \in Nat
    BY <2>3
  <2> QED BY <2>1, <2>2, <2>4
<1>4. Founded(Def, S, T, m)
  <2> SUFFICES ASSUME NEW g \in [S -> T], NEW h \in [S -> T], NEW q \in S,
                      \A y \in S : m[y] < m[q] => g[y] = h[y]
               PROVE  Def[<<g, q>>] = Def[<<h, q>>]
    BY DEF Founded
  <2>1. CASE q > Len(t)
    <3>4. ReadAt(t, q)
      BY ReadAtAll
    <3>1. At(t, q) = -1
      BY <2>1, <3>4 DEF ReadAt
    <3>2. ASSUME NEW from \in NumberStates
          PROVE  NumberNext(from, At(t, q)) = "done" \/ NumberNext(from, At(t, q)) = "error"
      BY <3>1, NumberNextIs DEF NextIs
    <3>3. /\ Def[<<g, q>>] = [from \in NumberStates |->
                        IF NumberNext(from, At(t, q)) = "done" THEN q
                        ELSE IF NumberNext(from, At(t, q)) = "error" THEN 0
                        ELSE g[q + 1][NumberNext(from, At(t, q))]]
          /\ Def[<<h, q>>] = [from \in NumberStates |->
                        IF NumberNext(from, At(t, q)) = "done" THEN q
                        ELSE IF NumberNext(from, At(t, q)) = "error" THEN 0
                        ELSE h[q + 1][NumberNext(from, At(t, q))]]
      OBVIOUS
    <3> HIDE DEF Def
    <3> QED BY <3>2, <3>3
  <2>2. CASE ~ q > Len(t)
    <3>1. q + 1 \in S /\ m[q + 1] < m[q]
      BY <2>2
    <3>2. g[q + 1] = h[q + 1]
      BY <3>1
    <3> QED BY <3>2
  <2> QED BY <2>1, <2>2
<1>5. PICK f \in [S -> T] : f = [q \in S |-> Def[<<f, q>>]]
  <2> HIDE DEF S, T, m, Def
  <2>1. Recurses(Def, S, T, m)
    BY <1>1, <1>2, <1>3, <1>4 DEF Recurses
  <2>2. Solved(Def, S, T)
    BY <2>1, Recursive
  <2> QED BY <2>2 DEF Solved
<1>6. ASSUME NEW q \in S
      PROVE  f[q] = [from \in NumberStates |->
                        IF NumberNext(from, At(t, q)) = "done" THEN q
                        ELSE IF NumberNext(from, At(t, q)) = "error" THEN 0
                        ELSE f[q + 1][NumberNext(from, At(t, q))]]
  <2>1. f[q] = Def[<<f, q>>]
    <3> HIDE DEF Def
    <3> QED BY <1>5
  <2> QED BY <2>1
<1>7. f = [q \in S |-> f[q]]
  OBVIOUS
<1>8. Ended(f, t)
  BY <1>6, <1>7 DEF Ended
<1> QED BY <1>8

\* Where the number that begins at p ends, or 0.
NumberEnd(t, p) == (CHOOSE f : Ended(f, t))[p]["init"]

LEMMA NumberEndIs ==
  ASSUME NEW t, Len(t) \in Nat, NEW p \in Nat
  PROVE  NumberEnd(t, p) = 0 \/ (NumberEnd(t, p) \in Nat /\ NumberEnd(t, p) > p)
<1> DEFINE F == CHOOSE f : Ended(f, t)
<1>1. Ended(F, t)
  BY NumberEnds
<1> HIDE DEF F
<1>2. ASSUME NEW q \in Nat, NEW from \in NumberStates
      PROVE  F[q][from] = LET to == NumberNext(from, At(t, q))
                          IN IF to = "done" THEN q ELSE IF to = "error" THEN 0 ELSE F[q + 1][to]
  <2>1. F[q] = [c \in NumberStates |->
                  LET to == NumberNext(c, At(t, q))
                  IN IF to = "done" THEN q ELSE IF to = "error" THEN 0 ELSE F[q + 1][to]]
    BY <1>1 DEF Ended
  <2> QED BY <2>1
<1> DEFINE Fine(q, from) == F[q][from] = 0 \/ (F[q][from] \in Nat /\ F[q][from] >= q)
           G == {n \in Nat : \A q \in Nat : \A from \in NumberStates :
                               n = (IF q > Len(t) THEN 0 ELSE Len(t) + 1 - q) => Fine(q, from)}
<1>3. ASSUME NEW n \in Nat, \A k \in 0 .. n - 1 : k \in G PROVE n \in G
  <2> SUFFICES ASSUME NEW q \in Nat, NEW from \in NumberStates,
                      n = (IF q > Len(t) THEN 0 ELSE Len(t) + 1 - q)
               PROVE  Fine(q, from)
    OBVIOUS
  <2>1. PICK to : to = NumberNext(from, At(t, q))
    OBVIOUS
  <2>2. F[q][from] = IF to = "done" THEN q ELSE IF to = "error" THEN 0 ELSE F[q + 1][to]
    BY <1>2, <2>1
  <2>3. CASE to = "done" \/ to = "error"
    BY <2>2, <2>3
  <2>4. CASE to # "done" /\ to # "error"
    <3>1. to \in NumberStates /\ At(t, q) # -1
      BY <2>1, <2>4, NumberNextIs DEF NextIs
    <3>9. ReadAt(t, q)
      BY ReadAtAll
    <3>2. ~ q > Len(t)
      BY <3>1, <3>9 DEF ReadAt
    <3>3. PICK r \in Nat : r = q + 1
      OBVIOUS
    <3>4. PICK k \in 0 .. n - 1 : k = IF r > Len(t) THEN 0 ELSE Len(t) + 1 - r
      BY <3>2, <3>3
    <3>5. k \in G
      BY <1>3
    <3>6. Fine(r, to)
      BY <3>1, <3>4, <3>5
    <3>7. F[q][from] = F[r][to]
      BY <2>2, <2>4, <3>3
    <3> QED BY <3>3, <3>6, <3>7
  <2> QED BY <2>3, <2>4
<1>4. \A n \in Nat : n \in G
  <2> HIDE DEF G
  <2> QED BY <1>3, Induction
<1>5. ASSUME NEW q \in Nat, NEW from \in NumberStates PROVE Fine(q, from)
  <2>1. PICK n \in Nat : n = IF q > Len(t) THEN 0 ELSE Len(t) + 1 - q
    <3>1. (IF q > Len(t) THEN 0 ELSE Len(t) + 1 - q) \in Nat
      OBVIOUS
    <3> QED BY <3>1
  <2>2. n \in G
    BY <1>4
  <2> QED BY <2>1, <2>2
<1>6. PICK to : to = NumberNext("init", At(t, p))
  OBVIOUS
<1>7. "init" \in NumberStates
  BY DEF NumberStates
<1>8. F[p]["init"] = IF to = "done" THEN p ELSE IF to = "error" THEN 0 ELSE F[p + 1][to]
  BY <1>2, <1>6, <1>7
<1>9. to = "error" \/ to \in NumberStates
  BY <1>6, NumberNextIs DEF NextIs, Accepting
<1>10. PICK r \in Nat : r = p + 1
  OBVIOUS
<1>11. to \in NumberStates => Fine(r, to)
  BY <1>5
<1>12. to \in NumberStates => F[p]["init"] = F[r][to]
  BY <1>8, <1>10, Unlike
<1> QED BY <1>8, <1>9, <1>10, <1>11, <1>12 DEF NumberEnd, F

LEMMA ScanNumberIs ==
  ASSUME NEW t, NEW p
  PROVE  LET k == ScanNumber(t, p)
         IN IF NumberEnd(t, p) = 0 THEN k = Error(p)
            ELSE /\ k.type \in {"value_float", "value_unsigned", "value_integer"}
                 /\ k.text = <<>> /\ k.next = NumberEnd(t, p)
<1> DEFINE value == CHOOSE f : f = [q \in Nat |-> IF q < p \/ t[q] \notin Digit THEN 0
                                                   ELSE 10 * f[q - 1] + t[q] - 48]
<1>1. PICK next : next = NumberEnd(t, p)
  OBVIOUS
<1>2. PICK float : float = \E q \in p .. next - 1 : t[q] \in {Dot} \cup Exp
  OBVIOUS
<1>3. ScanNumber(t, p) = IF next = 0 THEN Error(p)
                         ELSE NumberToken(t[p] = Minus, float, IF float THEN 0
                           ELSE value[next - 1], next)
  BY <1>1, <1>2, SMTT(90) DEF ScanNumber, NumberEnd, Ended
<1>4. ASSUME NEW a, NEW b, NEW c
      PROVE  LET k == NumberToken(a, b, c, next)
             IN k.type \in {"value_float", "value_unsigned", "value_integer"} /\ k.text = <<>>
                /\ k.next = next
  BY DEF NumberToken, Token
<1> QED BY <1>1, <1>3, <1>4

\* A token that begins at q, or before it if it is no token.
IsTokenFrom(k, q) ==
  /\ k.type \in Kinds /\ k.text \in Seq(Bytes) /\ WellFormed(k.text)
  /\ k.type # "value_string" => k.text = <<>>
  /\ k.next \in Nat \ {0}
  /\ k.type # "parse_error" => k.next > q

LEMMA PlainToken ==
  ASSUME NEW k, NEW q, k.type \in Kinds, k.text = <<>>, k.next \in Nat \ {0},
         k.type # "parse_error" => k.next > q
  PROVE  IsTokenFrom(k, q)
<1>1. <<>> \in Seq(Bytes)
  OBVIOUS
<1> QED BY <1>1, EmptyWellFormed DEF IsTokenFrom

LEMMA NamedToken ==
  ASSUME NEW c \in Kinds, NEW n \in Nat \ {0}, NEW q, c # "parse_error" => n > q
  PROVE  IsTokenFrom(Token(c, n), q)
<1>1. PICK k : k = Token(c, n)
  OBVIOUS
<1>2. k.type = c /\ k.text = <<>> /\ k.next = n
  BY <1>1 DEF Token
<1> QED BY <1>1, <1>2, PlainToken

LEMMA StructureIs ==
  ASSUME NEW s \in Structure PROVE s[2] \in Kinds /\ s[1] \in Nat \ {0, 32, 9, 10, 13}
BY DEF Structure, Kinds

LEMMA LiteralsAre ==
  ASSUME NEW w \in Literals PROVE w[2] \in Kinds /\ Len(w[1]) \in Nat \ {0}
<1>1. /\ Len(<<116, 114, 117, 101>>) = 4 /\ Len(<<102, 97, 108, 115, 101>>) = 5
      /\ Len(<<110, 117, 108, 108>>) = 4
  OBVIOUS
<1> QED BY <1>1 DEF Literals, Kinds, Scalars

LEMMA ErrorToken == ASSUME NEW q, NEW n \in Nat \ {0} PROVE IsTokenFrom(Error(n), q)
BY NamedToken DEF Error, Kinds

LEMMA TokenAtIs ==
  ASSUME NEW t \in Seq(Bytes), NEW q \in Nat \ {0}
  PROVE  IsTokenFrom(TokenAt(t, q), q)
<1>1. PICK c : c = At(t, q)
  OBVIOUS
<1>2. q + 1 \in Nat \ {0} /\ q + 1 > q /\ q \in Nat
  OBVIOUS
<1>3. CASE \E s \in Structure : s[1] = c
  <2>1. PICK s \in Structure : s = (CHOOSE r \in Structure : r[1] = c)
    BY <1>3
  <2>2. TokenAt(t, q) = Token(s[2], q + 1)
    BY <1>1, <1>3, <2>1 DEF TokenAt
  <2> QED BY <1>2, <2>2, StructureIs, NamedToken
<1>4. CASE ~(\E s \in Structure : s[1] = c) /\ \E w \in Literals : IsLiteral(t, q, w[1])
  <2>1. PICK w \in Literals : w = (CHOOSE r \in Literals : IsLiteral(t, q, r[1]))
    BY <1>4
  <2>2. TokenAt(t, q) = Token(w[2], q + Len(w[1]))
    BY <1>1, <1>4, <2>1 DEF TokenAt
  <2>3. PICK n \in Nat \ {0} : n = Len(w[1])
    BY LiteralsAre
  <2>4. q + n \in Nat \ {0} /\ q + n > q
    OBVIOUS
  <2> QED BY <2>2, <2>3, <2>4, LiteralsAre, NamedToken
<1>5. CASE /\ ~(\E s \in Structure : s[1] = c) /\ ~\E w \in Literals : IsLiteral(t, q, w[1])
           /\ c = Quote
  <2>1. PICK p \in Nat : p = q + 1
    OBVIOUS
  <2>2. PICK k : k = ScanString(t, p)
    OBVIOUS
  <2>3. TokenAt(t, q) = k
    BY <1>1, <1>5, <2>1, <2>2 DEF TokenAt
  <2>4. IsStringOrError(k, p)
    BY <2>2, StringIs
  <2>5. k.next \in Nat /\ k.text \in Seq(Bytes) /\ k.type \in Kinds
    BY <2>4 DEF IsStringOrError, LexTokens
  <2>6. k.next > 0 /\ (k.type # "parse_error" => k.next > q)
    BY <2>1, <2>4, <2>5 DEF IsStringOrError
  <2> QED BY <2>3, <2>4, <2>5, <2>6 DEF IsTokenFrom, IsStringOrError
<1>6. CASE /\ ~(\E s \in Structure : s[1] = c) /\ ~\E w \in Literals : IsLiteral(t, q, w[1])
           /\ c # Quote /\ c \in Digit \cup {Minus}
  <2>1. TokenAt(t, q) = ScanNumber(t, q)
    BY <1>1, <1>6 DEF TokenAt
  <2>2. Len(t) \in Nat
    OBVIOUS
  <2>3. PICK n \in Nat : n = NumberEnd(t, q) /\ (n = 0 \/ n > q)
    BY <2>2, NumberEndIs
  <2>4. PICK k : k = ScanNumber(t, q)
    OBVIOUS
  <2>5. IF n = 0 THEN k = Error(q)
        ELSE /\ k.type \in {"value_float", "value_unsigned", "value_integer"}
             /\ k.text = <<>> /\ k.next = n
    BY <2>3, <2>4, ScanNumberIs
  <2>6. CASE n = 0
    BY <2>1, <2>4, <2>5, <2>6, ErrorToken
  <2>7. CASE n # 0
    <3>1. k.type \in Kinds
      BY <2>5, <2>7 DEF Kinds, Scalars
    <3>2. k.text = <<>> /\ k.next \in Nat \ {0} /\ k.next > q
      BY <2>3, <2>5, <2>7
    <3> QED BY <2>1, <2>4, <3>1, <3>2, PlainToken
  <2> QED BY <2>6, <2>7
<1>7. CASE /\ ~(\E s \in Structure : s[1] = c) /\ ~\E w \in Literals : IsLiteral(t, q, w[1])
           /\ c # Quote /\ c \notin Digit \cup {Minus}
  <2>1. TokenAt(t, q) = Token("end_of_input", q + 1) \/ TokenAt(t, q) = Error(q)
    BY <1>1, <1>7 DEF TokenAt
  <2>2. "end_of_input" \in Kinds
    BY DEF Kinds
  <2> QED BY <1>2, <2>1, <2>2, NamedToken, ErrorToken
<1> QED BY <1>3, <1>4, <1>5, <1>6, <1>7

\* Where scan begins.
Begin(t, p) == IF p > 1 THEN p ELSE SkipBom(t)

\* The end of the white space from q on.
IsSkipped(t, q, s) ==
  /\ s \in q .. q + Len(t) /\ At(t, s) \notin Space
  /\ \A r \in q .. s - 1 : At(t, r) \in Space

LEMMA WhitespaceEnds ==
  ASSUME NEW t, Len(t) \in Nat, NEW q \in Nat \ {0}
  PROVE  IsSkipped(t, q, SkipWhitespace(t, q))
<1> DEFINE E == {s \in Nat : s >= q /\ At(t, s) \notin Space}
<1>1. PICK z \in Nat : z = q + Len(t) /\ z >= q /\ z > Len(t)
  OBVIOUS
<1>9. ReadAt(t, z)
  BY ReadAtAll
<1>2. At(t, z) = -1
  BY <1>1, <1>9 DEF ReadAt
<1>3. z \in E
  BY <1>1, <1>2 DEF Space
<1>4. PICK s \in E : \A y \in E : s <= y
  <2>1. E \subseteq Nat /\ E # {}
    BY <1>3
  <2> HIDE DEF E
  <2> QED BY <2>1, Least
<1>5. s \in q .. q + Len(t)
  BY <1>1, <1>3, <1>4
<1>6. \A r \in q .. s - 1 : At(t, r) \in Space
  <2> SUFFICES ASSUME NEW r \in q .. s - 1, At(t, r) \notin Space PROVE FALSE
    OBVIOUS
  <2>1. r \in E /\ ~ s <= r
    OBVIOUS
  <2> HIDE DEF E
  <2> QED BY <1>4, <2>1
<1>7. IsSkipped(t, q, s)
  BY <1>4, <1>5, <1>6 DEF IsSkipped
<1>8. SkipWhitespace(t, q) = CHOOSE x \in q .. q + Len(t) :
        At(t, x) \notin Space /\ \A r \in q .. x - 1 : At(t, r) \in Space
  BY DEF SkipWhitespace
<1> QED BY <1>7, <1>8 DEF IsSkipped

LEMMA SkippedTo ==
  ASSUME NEW t, Len(t) \in Nat, NEW q \in Nat \ {0}
  PROVE  SkipWhitespace(t, q) \in Nat \ {0} /\ SkipWhitespace(t, q) >= q
<1>1. PICK s : s = SkipWhitespace(t, q)
  OBVIOUS
<1>2. s \in q .. q + Len(t)
  BY <1>1, WhitespaceEnds DEF IsSkipped
<1> QED BY <1>1, <1>2

LEMMA BeginIs ==
  ASSUME NEW t, NEW p \in Nat \ {0}
  PROVE  Begin(t, p) = 0 \/ (Begin(t, p) \in Nat /\ Begin(t, p) >= p)
BY DEF Begin, SkipBom

LEMMA ScanIs ==
  ASSUME NEW t, NEW p \in Nat \ {0}, Len(t) \in Nat
  PROVE  Scan(t, p) = IF Begin(t, p) = 0 THEN Error(p) ELSE TokenAt(t,
           SkipWhitespace(t, Begin(t, p)))
<1>1. PICK b : b = Begin(t, p)
  OBVIOUS
<1>2. Scan(t, p) = IF b = 0 THEN Error(p) ELSE [q \in Nat |-> TokenAt(t, q)][SkipWhitespace(t, b)]
  BY <1>1 DEF Scan, Begin
<1>3. CASE b = 0
  BY <1>1, <1>2, <1>3
<1>4. CASE b # 0
  <2>1. b \in Nat \ {0}
    BY <1>1, <1>4, BeginIs
  <2>2. PICK s : s = SkipWhitespace(t, b)
    OBVIOUS
  <2>3. s \in Nat
    BY <2>1, <2>2, WhitespaceEnds DEF IsSkipped
  <2>4. Scan(t, p) = TokenAt(t, s)
    BY <1>2, <1>4, <2>2, <2>3
  <2> QED BY <1>1, <1>4, <2>2, <2>4
<1> QED BY <1>3, <1>4

\* What the lexer returns has a name, goes on behind p and is UTF-8.
LEMMA TokenScanned ==
  ASSUME NEW t \in Seq(Bytes), NEW p \in Nat \ {0}
  PROVE  IsTokenFrom(Scan(t, p), p)
<1>1. Len(t) \in Nat
  OBVIOUS
<1>2. PICK b : b = Begin(t, p)
  OBVIOUS
<1>3. CASE b = 0
  BY <1>1, <1>2, <1>3, ScanIs, ErrorToken
<1>4. CASE b # 0
  <2>1. b \in Nat \ {0} /\ b >= p
    BY <1>2, <1>4, BeginIs
  <2>2. PICK s : s = SkipWhitespace(t, b)
    OBVIOUS
  <2>3. s \in Nat \ {0} /\ s >= b
    BY <1>1, <2>1, <2>2, SkippedTo
  <2>4. PICK k : k = TokenAt(t, s)
    OBVIOUS
  <2>5. IsTokenFrom(k, s)
    BY <2>3, <2>4, TokenAtIs
  <2>6. Scan(t, p) = k
    BY <1>1, <1>2, <1>4, <2>2, <2>4, ScanIs
  <2>7. k.next \in Nat
    BY <2>5 DEF IsTokenFrom
  <2>8. k.next > s => k.next > p
    BY <2>1, <2>3, <2>7
  <2> QED BY <2>5, <2>6, <2>8 DEF IsTokenFrom
<1> QED BY <1>3, <1>4

-----------------------------------------------------------------------------
(* What the builder stores. *)

\* What the builder h has stored is UTF-8.
CleanNode(v) == WellFormed(v.text) /\ \A e \in ToSet(v.items) : WellFormed(e.key)
Clean(h)     == \A n \in 1 .. Len(h.nodes) : CleanNode(h.nodes[n])

LEMMA NewNodeClean ==
  ASSUME NEW v, v.items = <<>>, WellFormed(v.text) PROVE CleanNode(v)
<1>1. ToSet(<<>>) = {}
  BY DEF ToSet
<1> QED BY <1>1 DEF CleanNode

LEMMA ChildAddedCleanly ==
  ASSUME NEW h, Tree(h), Clean(h), NEW top, top = Last(h.ref_stack), top \in 1 .. Len(h.nodes),
         NEW key, WellFormed(key), NEW v, IsNode(v), v.items = <<>>, WellFormed(v.text),
         NEW g, g = AddChild(h, key, v)
  PROVE  Clean(g)
<1>1. /\ Len(g.nodes) = Len(h.nodes) + 1 /\ g.nodes[Len(h.nodes) + 1] = v
      /\ Grown(h, g, key)
  BY ChildAdded
<1>2. Len(h.nodes) \in Nat
  BY SeqLength DEF Tree
<1>5. ASSUME NEW n \in 1 .. Len(h.nodes) PROVE CleanNode(g.nodes[n])
  <2>1. CleanNode(h.nodes[n])
    BY DEF Clean
  <2>2. /\ g.nodes[n].text = h.nodes[n].text
        /\ \A e \in ToSet(g.nodes[n].items) : e \in ToSet(h.nodes[n].items) \/ e.key = key
    BY <1>1 DEF Grown
  <2> QED BY <2>1, <2>2 DEF CleanNode
<1>6. CleanNode(v)
  BY NewNodeClean
<1>7. \A n \in 1 .. Len(g.nodes) : n \in 1 .. Len(h.nodes) \/ n = Len(h.nodes) + 1
  BY <1>1, <1>2
<1> QED BY <1>1, <1>5, <1>6, <1>7 DEF Clean

LEMMA ValueHandledCleanly ==
  ASSUME NEW h, Tree(h), Path(h), NEW stack, Stacked(h, stack), Aimed(h), Clean(h),
         NEW v, IsNode(v), v.items = <<>>, WellFormed(v.text),
         NEW g, g = HandleValue(h, v)
  PROVE  Clean(g)
<1>1. PICK p : p = Place(h)
  OBVIOUS
<1>2. Len(h.nodes) \in Nat /\ Len(h.nodes) > 0
  BY SeqLength DEF Tree
<1>3. Tree(g) /\ p \in 1 .. Len(g.nodes)
  BY <1>1, ValueHandled
<1>4. CASE p > Len(h.nodes)
  <2>1. h.ref_stack # <<>>
    BY <1>1, <1>2, <1>4 DEF Place
  <2>2. PICK top : top = Last(h.ref_stack) /\ top \in 1 .. Len(h.nodes)
    BY <2>1, TopOfPath
  <2>3. g = AddChild(h, <<>>, v)
    BY <1>1, <1>4 DEF HandleValue
  <2> QED BY <2>2, <2>3, ChildAddedCleanly, EmptyWellFormed
<1>5. CASE ~ p > Len(h.nodes)
  <2>1. p \in 1 .. Len(h.nodes)
    <3>1. PICK l : l = Len(g.nodes)
      OBVIOUS
    <3>2. l \in Nat
      BY <1>3, <3>1, SeqLength DEF Tree
    <3> QED BY <1>2, <1>3, <1>5, <3>1, <3>2
  <2>2. g = [h EXCEPT !.nodes[p] = v]
    BY <1>1, <1>5 DEF HandleValue
  <2>3. /\ Len(g.nodes) = Len(h.nodes) /\ g.nodes[p] = v
        /\ \A m \in 1 .. Len(h.nodes) \ {p} : g.nodes[m] = h.nodes[m]
    BY <2>1, <2>2, NodeReplaced
  <2>4. CleanNode(v)
    BY NewNodeClean
  <2> QED BY <2>3, <2>4 DEF Clean
<1> QED BY <1>4, <1>5

LEMMA ContainerNode ==
  ASSUME NEW type PROVE /\ IsNode(Node(type, <<>>, 0)) /\ Node(type, <<>>, 0).items = <<>>
                        /\ WellFormed(Node(type, <<>>, 0).text)
<1>1. <<>> \in Seq({})
  BY EmptySeq
<1> QED BY <1>1, EmptyWellFormed DEF Node, IsNode, IsSeq

LEMMA StartedCleanly ==
  ASSUME NEW h, Tree(h), Path(h), NEW stack, Stacked(h, stack), Aimed(h), Clean(h),
         NEW type, NEW g, g = StartContainer(h, type)
  PROVE  Clean(g)
<1>1. PICK v : v = Node(type, <<>>, 0)
  OBVIOUS
<1>2. IsNode(v) /\ v.items = <<>> /\ WellFormed(v.text)
  BY <1>1, ContainerNode
<1>3. PICK f : f = HandleValue(h, v)
  OBVIOUS
<1>4. Clean(f) /\ Tree(f)
  BY <1>2, <1>3, ValueHandledCleanly, ValueHandled
<1>5. g = [f EXCEPT !.ref_stack = Append(@, Place(h))]
  BY <1>1, <1>3 DEF StartContainer
<1>6. PICK a, b, c : f = [nodes |-> a, ref_stack |-> b, object_element |-> c]
  BY <1>4 DEF Tree
<1>7. g.nodes = f.nodes
  BY <1>5, <1>6
<1> QED BY <1>4, <1>7 DEF Clean

LEMMA EndedCleanly ==
  ASSUME NEW h, Tree(h), Clean(h), NEW g, g = EndContainer(h)
  PROVE  Clean(g)
<1>1. PICK a, b, c : h = [nodes |-> a, ref_stack |-> b, object_element |-> c]
  BY DEF Tree
<1>2. g.nodes = h.nodes
  BY <1>1 DEF EndContainer
<1> QED BY <1>2 DEF Clean

LEMMA KeyTakenCleanly ==
  ASSUME NEW h, Tree(h), Path(h), Clean(h), h.ref_stack # <<>>,
         NEW key, WellFormed(key), NEW g, g = Key(h, key)
  PROVE  Clean(g)
<1>1. PICK a, b, c : h = [nodes |-> a, ref_stack |-> b, object_element |-> c]
  BY DEF Tree
<1>2. PICK f : f = AddChild(h, key, NullNode)
  OBVIOUS
<1>3. PICK top : top = Last(h.ref_stack) /\ top \in 1 .. Len(h.nodes)
  BY TopOfPath
<1>4. IsNode(NullNode) /\ NullNode.items = <<>> /\ WellFormed(NullNode.text)
  BY ContainerNode DEF NullNode
<1>5. Clean(f) /\ Tree(f)
  BY <1>2, <1>3, <1>4, ChildAddedCleanly, ChildAdded
<1>6. PICK d, e, i1 : f = [nodes |-> d, ref_stack |-> e, object_element |-> i1]
  BY <1>5 DEF Tree
<1>7. (\E n : g = [h EXCEPT !.object_element = n]) \/ (\E n : g = [f EXCEPT !.object_element = n])
  BY <1>2 DEF Key
<1>8. g.nodes = h.nodes \/ g.nodes = f.nodes
  <2>1. CASE \E n : g = [h EXCEPT !.object_element = n]
    BY <1>1, <2>1
  <2>2. CASE \E n : g = [f EXCEPT !.object_element = n]
    BY <1>6, <2>2
  <2> QED BY <1>7, <2>1, <2>2
<1> QED BY <1>5, <1>8 DEF Clean

\* What the lexer reads and has read, what the builder has stored.
ScannedInv ==
  /\ text \in Seq(Bytes)
  /\ verdict # "idle" => IsTokenFrom(last_token, 0)
  /\ Clean(dom)

LEMMA Later ==
  ASSUME NEW k, NEW p \in Nat, IsTokenFrom(k, p) PROVE IsTokenFrom(k, 0)
<1>1. k.next \in Nat \ {0}
  BY DEF IsTokenFrom
<1>2. k.next > 0
  BY <1>1
<1> QED BY <1>2 DEF IsTokenFrom

LEMMA ScannedFrom ==
  ASSUME NEW t \in Seq(Bytes), NEW k, IsTokenFrom(k, 0)
  PROVE  IsTokenFrom(Scan(t, k.next), 0)
<1>1. PICK p \in Nat \ {0} : p = k.next
  BY DEF IsTokenFrom
<1>2. p \in Nat
  BY <1>1
<1>3. IsTokenFrom(Scan(t, p), p)
  BY TokenScanned
<1> QED BY <1>1, <1>2, <1>3, Later

\* The tokens that a step reads.
TokensRead == IsTokenFrom(last_token, 0) /\ IsTokenFrom(Next1, 0) /\ IsTokenFrom(Next2, 0)

LEMMA AllRead ==
  ASSUME ScannedInv, verdict # "idle" PROVE TokensRead
BY ScannedFrom DEF ScannedInv, TokensRead, Next1, Next2

\* How a step of the parser keeps the invariant.
LEMMA ScannedNext ==
  ASSUME ScannedInv, UNCHANGED text, IsTokenFrom(last_token', 0), NEW h, dom' = h, Clean(h)
  PROVE  ScannedInv'
BY DEF ScannedInv, Clean

LEMMA Refused ==
  ASSUME ScannedInv, NEW k, IsTokenFrom(k, 0), ParseError(k) PROVE ScannedInv'
BY DEF ScannedInv, ParseError, Clean

LEMMA MemberCleanly ==
  ASSUME ScannedInv, NEW k, IsTokenFrom(k, 0), NEW h, NEW stack, MemberFollows(k, h, stack),
         Tree(h), Path(h), Clean(h), h.ref_stack # <<>>
  PROVE  ScannedInv'
<1>1. text \in Seq(Bytes)
  BY DEF ScannedInv
<1>2. PICK colon : colon = Scan(text, k.next)
  OBVIOUS
<1>3. IsTokenFrom(colon, 0) /\ IsTokenFrom(Scan(text, colon.next), 0)
  BY <1>1, <1>2, ScannedFrom
<1>4. \/ ParseError(k) \/ ParseError(colon)
      \/ last_token' = Scan(text, colon.next) /\ dom' = Key(h, k.text) /\ UNCHANGED text
  BY <1>2 DEF MemberFollows
<1>5. CASE ParseError(k) \/ ParseError(colon)
  BY <1>3, <1>5, Refused
<1>6. CASE last_token' = Scan(text, colon.next) /\ dom' = Key(h, k.text) /\ UNCHANGED text
  <2>1. PICK g : g = Key(h, k.text)
    OBVIOUS
  <2>2. WellFormed(k.text)
    BY DEF IsTokenFrom
  <2>3. Clean(g)
    BY <2>1, <2>2, KeyTakenCleanly
  <2> QED BY <1>3, <1>6, <2>1, <2>3, ScannedNext
<1> QED BY <1>4, <1>5, <1>6

LEMMA ObjectCleanly == ASSUME ParserInv, ScannedInv, BeginObject PROVE ScannedInv'
<1>1. Tree(dom) /\ Path(dom) /\ Stacked(dom, states) /\ Aimed(dom) /\ Clean(dom)
  BY DEF ParserInv, ScannedInv, BeginObject, AtValue
<1>2. TokensRead
  BY AllRead DEF BeginObject, AtValue
<1>3. PICK h : h = StartContainer(dom, "object")
  OBVIOUS
<1>4. /\ Tree(h) /\ Path(h) /\ Stacked(h, Append(states, "object"))
      /\ h.ref_stack # <<>> /\ Clean(h)
  BY <1>1, <1>3, ContainerStarted, StartedCleanly
<1>5. \/ Completed(Next1, EndContainer(h), states)
      \/ MemberFollows(Next1, h, Append(states, "object"))
  BY <1>3 DEF BeginObject
<1>6. CASE Completed(Next1, EndContainer(h), states)
  <2>1. PICK g : g = EndContainer(h)
    OBVIOUS
  <2>2. Clean(g)
    BY <1>4, <2>1, EndedCleanly
  <2> QED BY <1>2, <1>6, <2>1, <2>2, ScannedNext DEF Completed, TokensRead
<1>7. CASE MemberFollows(Next1, h, Append(states, "object"))
  BY <1>2, <1>4, <1>7, MemberCleanly DEF TokensRead
<1> QED BY <1>5, <1>6, <1>7

LEMMA ArrayCleanly == ASSUME ParserInv, ScannedInv, BeginArray PROVE ScannedInv'
<1>1. Tree(dom) /\ Path(dom) /\ Stacked(dom, states) /\ Aimed(dom) /\ Clean(dom)
  BY DEF ParserInv, ScannedInv, BeginArray, AtValue
<1>2. TokensRead
  BY AllRead DEF BeginArray, AtValue
<1>3. PICK h : h = StartContainer(dom, "array")
  OBVIOUS
<1>4. Tree(h) /\ Clean(h)
  BY <1>1, <1>3, ContainerStarted, StartedCleanly
<1>5. PICK g : g = EndContainer(h)
  OBVIOUS
<1>6. Clean(g)
  BY <1>4, <1>5, EndedCleanly
<1>7. last_token' = Next1 /\ (dom' = g \/ dom' = h) /\ UNCHANGED text
  BY <1>3, <1>5 DEF BeginArray, Completed
<1> QED BY <1>2, <1>4, <1>6, <1>7, ScannedNext DEF TokensRead

LEMMA ScalarCleanly == ASSUME ParserInv, ScannedInv, ScalarValue PROVE ScannedInv'
<1>1. Tree(dom) /\ Path(dom) /\ Stacked(dom, states) /\ Aimed(dom) /\ Clean(dom)
  BY DEF ParserInv, ScannedInv, ScalarValue, AtValue
<1>2. TokensRead
  BY AllRead DEF ScalarValue, AtValue
<1>3. PICK v : v = ScalarNode(last_token)
  OBVIOUS
<1>4. IsNode(v) /\ v.items = <<>> /\ v.text = last_token.text
  <2>1. <<>> \in Seq({})
    BY EmptySeq
  <2>2. \A type, txt, num : /\ Node(type, txt, num).items = <<>> /\ Node(type, txt, num).text = txt
                            /\ IsNode(Node(type, txt, num))
    BY <2>1 DEF Node, IsNode, IsSeq
  <2> QED BY <1>3, <2>2 DEF ScalarNode
<1>5. WellFormed(v.text)
  BY <1>2, <1>4 DEF TokensRead, IsTokenFrom
<1>6. PICK g : g = HandleValue(dom, v)
  OBVIOUS
<1>7. Clean(g)
  BY <1>1, <1>4, <1>5, <1>6, ValueHandledCleanly
<1>8. last_token' = last_token /\ dom' = g /\ UNCHANGED text
  BY <1>3, <1>6 DEF ScalarValue, Completed
<1> QED BY <1>2, <1>7, <1>8, ScannedNext DEF TokensRead

LEMMA ScannedStep == ASSUME ParserInv, ScannedInv, ParseNext PROVE ScannedInv'
<1>1. verdict # "idle"
  BY DEF ParseNext, BeginObject, BeginArray, ScalarValue, FloatOverflow, Unexpected, EndOfHierarchy,
         NextElement, NextMember, EndArray, EndObject, Close, MissingEnd, StrictEnd, AtValue,
           AtState
<1>2. TokensRead /\ Tree(dom) /\ Path(dom) /\ Clean(dom)
  BY <1>1, AllRead DEF ParserInv, ScannedInv
<1>3. CASE NextMember
  <2>1. MemberFollows(Next2, dom, states) /\ dom.ref_stack # <<>>
    BY <1>3, StateOnTop DEF NextMember, AtState
  <2> QED BY <1>2, <2>1, MemberCleanly DEF TokensRead
<1>4. CASE EndArray \/ EndObject
  <2>1. PICK g : g = EndContainer(dom)
    OBVIOUS
  <2>2. Clean(g)
    BY <1>2, <2>1, EndedCleanly
  <2>3. last_token' = Next1 /\ dom' = g /\ UNCHANGED text
    BY <1>4, <2>1 DEF EndArray, EndObject, Close, Completed
  <2> QED BY <1>2, <2>2, <2>3, ScannedNext DEF TokensRead
<1>5. CASE Unexpected \/ MissingEnd
  BY <1>2, <1>5, Refused DEF Unexpected, MissingEnd, TokensRead
<1>6. CASE FloatOverflow \/ EndOfHierarchy \/ NextElement \/ StrictEnd
  <2>1. last_token' \in {last_token, Next1, Next2} /\ dom' = dom /\ UNCHANGED text
    BY <1>6 DEF FloatOverflow, EndOfHierarchy, NextElement, StrictEnd
  <2> QED BY <1>2, <2>1, ScannedNext DEF TokensRead
<1> QED BY <1>3, <1>4, <1>5, <1>6, ObjectCleanly, ArrayCleanly, ScalarCleanly DEF ParseNext

LEMMA InitScanned == Init => ScannedInv
<1> SUFFICES ASSUME Init PROVE ScannedInv
  OBVIOUS
<1>1. Clean(dom)
  <2>1. dom.nodes = <<NullNode>>
    BY DEF Init, NewParser
  <2>2. NullNode.items = <<>> /\ WellFormed(NullNode.text)
    BY ContainerNode DEF NullNode
  <2>3. CleanNode(NullNode)
    BY <2>2, NewNodeClean
  <2>4. Len(dom.nodes) = 1 /\ dom.nodes[1] = NullNode
    BY <2>1
  <2>5. \A n \in 1 .. Len(dom.nodes) : n = 1
    BY <2>4
  <2> QED BY <2>3, <2>4, <2>5 DEF Clean
<1>2. CASE SendMessage
  <2>1. <<>> \in Seq(Bytes)
    OBVIOUS
  <2>2. text = <<>> /\ verdict = "idle"
    BY <1>2 DEF SendMessage
  <2> QED BY <1>1, <2>1, <2>2 DEF ScannedInv
<1>3. CASE StrangeText
  <2>1. text \in Seq(Bytes) /\ last_token = Scan(text, 1)
    BY <1>3, TextsAssumption DEF StrangeText
  <2>2. 1 \in Nat \ {0} /\ 1 \in Nat
    OBVIOUS
  <2>3. IsTokenFrom(last_token, 0)
    BY <2>1, <2>2, TokenScanned, Later
  <2> QED BY <1>1, <2>1, <2>3 DEF ScannedInv
<1> QED BY <1>2, <1>3 DEF Init

LEMMA ScannedInvariant == Spec => [](ParserInv /\ ScannedInv)
<1>1. BufferInv /\ ParserInv /\ ScannedInv /\ [Next]_vars => ScannedInv'
  <2> SUFFICES ASSUME BufferInv, ParserInv, ScannedInv, [Next]_vars PROVE ScannedInv'
    OBVIOUS
  <2>1. CASE ParseNext
    BY <2>1, ScannedStep
  <2>2. CASE StartParse(o)
    <3>1. o \in Seq(Bytes)
      BY DEF BufferInv, DumpTypeOK
    <3>2. 1 \in Nat \ {0} /\ 1 \in Nat
      OBVIOUS
    <3>3. IsTokenFrom(Scan(o, 1), 0)
      BY <3>1, <3>2, TokenScanned, Later
    <3>4. text' = o /\ last_token' = Scan(o, 1) /\ dom' = dom
      BY <2>2 DEF StartParse
    <3> QED BY <3>1, <3>3, <3>4 DEF ScannedInv, Clean
  <2>3. CASE UNCHANGED parseVars
    BY <2>3 DEF ScannedInv, parseVars, Clean
  <2> QED BY <2>1, <2>2, <2>3 DEF Next, Serialize, NotSent, Arrive, Parse, Dispatch, vars
<1> QED BY <1>1, InitScanned, BufferInvOnTheWay, ParserInvariant, PTL DEF Spec

\* What the builder stores of any text is UTF-8, keys included: scan_string
\* checks each sequence and translates the escapes (json.hpp:7653), so that the
\* server's dump of what it forwards cannot throw.
THEOREM ScannedCorrect == Spec => []ScannedIsDumpable
<1>1. ParserInv /\ ScannedInv => ScannedIsDumpable
  <2> SUFFICES ASSUME ParserInv, ScannedInv PROVE ScannedIsDumpable
    OBVIOUS
  <2>1. DOMAIN nodes = 1 .. Len(dom.nodes)
    BY SeqLength DEF ParserInv, Tree, nodes
  <2> QED BY <2>1 DEF ScannedInv, Clean, CleanNode, ScannedIsDumpable, nodes
<1> QED BY <1>1, ScannedInvariant, PTL

-----------------------------------------------------------------------------
(* The grammar: where a phrase can end, and what closes what is open. *)

\* The recursion of IsValue: what f says of the phrases that begin behind a
\* says where those end that begin at a.
ClosedEnds(f, ts, a, end, list) ==
  {z \in a + 1 .. Len(ts) : ts[z] = end /\ (z = a + 1 \/ z - 1 \in f[a + 1][list])}

ValueEnds(f, ts, a) ==
  IF a > Len(ts) THEN {}
  ELSE IF ts[a] \in Scalars THEN {a}
  ELSE IF ts[a] = "begin_array" THEN ClosedEnds(f, ts, a, "end_array", "values")
  ELSE IF ts[a] = "begin_object" THEN ClosedEnds(f, ts, a, "end_object", "members")
  ELSE {}

MemberEnds(f, ts, a) ==
  IF a + 2 <= Len(ts) /\ ts[a] = "value_string" /\ ts[a + 1] = "name_separator"
  THEN f[a + 2]["value"]
  ELSE {}

FirstEnds(f, ts, a, what) == IF what = "members" THEN MemberEnds(f, ts, a) ELSE ValueEnds(f, ts, a)

Commas(f, ts, a, what) ==
  {c \in a + 1 .. Len(ts) : ts[c] = "value_separator" /\ c - 1 \in FirstEnds(f, ts, a, what)}

PhraseEnds(f, ts, a, what) ==
  IF what = "value" THEN ValueEnds(f, ts, a)
  ELSE FirstEnds(f, ts, a, what) \cup UNION {f[c + 1][what] : c \in Commas(f, ts, a, what)}

Grammar(f, ts) ==
  f = [a \in Places |-> [what \in Phrases |-> PhraseEnds(f, ts, a, what)]]

Ends(ts) == CHOOSE f : Grammar(f, ts)

LEMMA IsGrammar == ASSUME NEW ts PROVE IsValue(ts) <=> Len(ts) \in Ends(ts)[1]["value"]
BY DEF IsValue, Ends, Grammar, PhraseEnds, FirstEnds, Commas, MemberEnds, ValueEnds, ClosedEnds,
       Places

LEMMA PhraseNames == "value" \in Phrases /\ "values" \in Phrases /\ "members" \in Phrases
BY DEF Phrases

LEMMA PhrasesSame ==
  ASSUME NEW ts, Len(ts) \in Nat, NEW g, NEW h, NEW a \in Places, NEW what \in Phrases,
         \A y \in Places : a <= Len(ts) /\ y > a => g[y] = h[y]
  PROVE  PhraseEnds(g, ts, a, what) = PhraseEnds(h, ts, a, what)
<1>1. PICK l \in Nat : l = Len(ts)
  OBVIOUS
<1>2. CASE a > l
  <2>1. ValueEnds(g, ts, a) = {} /\ ValueEnds(h, ts, a) = {}
    BY <1>1, <1>2 DEF ValueEnds
  <2>2. ~ a + 2 <= l
    BY <1>2 DEF Places
  <2>3. MemberEnds(g, ts, a) = {} /\ MemberEnds(h, ts, a) = {}
    BY <1>1, <2>2 DEF MemberEnds
  <2>4. FirstEnds(g, ts, a, what) = {} /\ FirstEnds(h, ts, a, what) = {}
    BY <2>1, <2>3 DEF FirstEnds
  <2>5. Commas(g, ts, a, what) = {} /\ Commas(h, ts, a, what) = {}
    BY <2>4 DEF Commas
  <2> QED BY <2>1, <2>4, <2>5 DEF PhraseEnds
<1>3. CASE a <= l
  <2>1. g[a + 1] = h[a + 1] /\ g[a + 2] = h[a + 2]
    <3>1. a + 1 \in Places /\ a + 1 > a /\ a + 2 \in Places /\ a + 2 > a
      BY DEF Places
    <3> QED BY <1>1, <1>3, <3>1
  <2>2. ValueEnds(g, ts, a) = ValueEnds(h, ts, a)
    BY <2>1 DEF ValueEnds, ClosedEnds
  <2>3. FirstEnds(g, ts, a, what) = FirstEnds(h, ts, a, what)
    BY <2>1, <2>2 DEF FirstEnds, MemberEnds
  <2>4. Commas(g, ts, a, what) = Commas(h, ts, a, what)
    BY <2>3 DEF Commas
  <2>5. ASSUME NEW c \in Commas(h, ts, a, what) PROVE g[c + 1] = h[c + 1]
    <3>1. c \in a + 1 .. l
      BY <1>1 DEF Commas
    <3>2. c + 1 \in Places /\ c + 1 > a
      BY <3>1 DEF Places
    <3> QED BY <1>1, <1>3, <3>2
  <2>6. {g[c + 1][what] : c \in Commas(h, ts, a, what)} = {h[c + 1][what] :
          c \in Commas(h, ts, a, what)}
    BY <2>5
  <2> QED BY <2>2, <2>3, <2>4, <2>6 DEF PhraseEnds
<1>4. a > l \/ a <= l
  BY DEF Places
<1> QED BY <1>2, <1>3, <1>4

LEMMA PhraseType ==
  ASSUME NEW ts, Len(ts) \in Nat, NEW f \in [Places -> [Phrases -> SUBSET Nat]],
         NEW a \in Places, NEW what \in Phrases
  PROVE  PhraseEnds(f, ts, a, what) \in SUBSET Nat
<1>1. PICK l \in Nat : l = Len(ts)
  OBVIOUS
<1>2. a \in Nat /\ a + 1 \in Places /\ a + 2 \in Places
  BY DEF Places
<1>3. ValueEnds(f, ts, a) \subseteq Nat
  BY <1>1, <1>2 DEF ValueEnds, ClosedEnds
<1>4. MemberEnds(f, ts, a) \subseteq Nat
  BY <1>2, PhraseNames DEF MemberEnds
<1>5. FirstEnds(f, ts, a, what) \subseteq Nat
  BY <1>3, <1>4 DEF FirstEnds
<1>6. ASSUME NEW c \in Commas(f, ts, a, what) PROVE f[c + 1][what] \subseteq Nat
  <2>1. c \in a + 1 .. l
    BY <1>1 DEF Commas
  <2>2. c + 1 \in Places
    BY <1>2, <2>1 DEF Places
  <2> QED BY <2>2
<1>7. UNION {f[c + 1][what] : c \in Commas(f, ts, a, what)} \subseteq Nat
  BY <1>6
<1> QED BY <1>3, <1>5, <1>7 DEF PhraseEnds

LEMMA GrammarIs ==
  ASSUME NEW ts, Len(ts) \in Nat
  PROVE  Grammar(Ends(ts), ts)
<1> DEFINE S == Places
           T == [Phrases -> SUBSET Nat]
           m == [a \in S |-> IF a > Len(ts) THEN 0 ELSE Len(ts) + 1 - a]
           Def == [p \in [S -> T] \X S |-> [what \in Phrases |-> PhraseEnds(p[1], ts, p[2], what)]]
<1>1. T # {}
  <2>1. [what \in Phrases |-> {}] \in T
    OBVIOUS
  <2> QED BY <2>1
<1>2. m \in [S -> Nat]
  BY DEF Places
<1>3. Def \in [[S -> T] \X S -> T]
  <2> SUFFICES ASSUME NEW g \in [S -> T], NEW a \in S, NEW what \in Phrases
               PROVE  PhraseEnds(g, ts, a, what) \in SUBSET Nat
    OBVIOUS
  <2> QED BY PhraseType
<1>4. Founded(Def, S, T, m)
  <2> SUFFICES ASSUME NEW g \in [S -> T], NEW h \in [S -> T], NEW a \in S,
                      \A y \in S : m[y] < m[a] => g[y] = h[y]
               PROVE  Def[<<g, a>>] = Def[<<h, a>>]
    BY DEF Founded
  <2>1. \A y \in Places : a <= Len(ts) /\ y > a => g[y] = h[y]
    <3> SUFFICES ASSUME NEW y \in Places, a <= Len(ts), y > a PROVE g[y] = h[y]
      OBVIOUS
    <3>1. m[y] < m[a]
      BY DEF Places
    <3> QED BY <3>1
  <2>2. \A what \in Phrases : PhraseEnds(g, ts, a, what) = PhraseEnds(h, ts, a, what)
    BY <2>1, PhrasesSame
  <2> QED BY <2>2
<1>5. PICK f \in [S -> T] : f = [a \in S |-> Def[<<f, a>>]]
  <2> HIDE DEF S, T, m, Def
  <2>1. Recurses(Def, S, T, m)
    BY <1>1, <1>2, <1>3, <1>4 DEF Recurses
  <2>2. Solved(Def, S, T)
    BY <2>1, Recursive
  <2> QED BY <2>2 DEF Solved
<1>6. ASSUME NEW a \in S PROVE f[a] = [what \in Phrases |-> PhraseEnds(f, ts, a, what)]
  <2>1. f[a] = Def[<<f, a>>]
    <3> HIDE DEF Def
    <3> QED BY <1>5
  <2> QED BY <2>1
<1>7. f = [a \in S |-> f[a]]
  OBVIOUS
<1>8. Grammar(f, ts)
  BY <1>6, <1>7 DEF Grammar
<1> QED BY <1>8 DEF Ends

LEMMA EndsAre ==
  ASSUME NEW ts, Len(ts) \in Nat, NEW a \in Places, NEW what \in Phrases
  PROVE  Ends(ts)[a][what] = PhraseEnds(Ends(ts), ts, a, what)
<1>1. PICK f : f = Ends(ts)
  OBVIOUS
<1>2. f = [b \in Places |-> [w \in Phrases |-> PhraseEnds(f, ts, b, w)]]
  BY <1>1, GrammarIs DEF Grammar
<1>3. f[a] = [w \in Phrases |-> PhraseEnds(f, ts, a, w)]
  BY <1>2
<1> QED BY <1>1, <1>3

\* A phrase ends among the tokens, and not before it begins.
LEMMA EndsBehind ==
  ASSUME NEW ts, Len(ts) \in Nat
  PROVE  \A a \in Places : \A what \in Phrases : Ends(ts)[a][what] \subseteq a .. Len(ts)
<1>1. PICK l \in Nat : l = Len(ts)
  OBVIOUS
<1>2. PICK f : f = Ends(ts)
  OBVIOUS
<1> DEFINE m(a) == IF a > l THEN 0 ELSE l + 1 - a
           Fine(a) == \A what \in Phrases : f[a][what] \subseteq a .. l
           G == {n \in Nat : \A a \in Places : n = m(a) => Fine(a)}
<1>3. ASSUME NEW n \in Nat, \A k \in 0 .. n - 1 : k \in G PROVE n \in G
  <2> SUFFICES ASSUME NEW a \in Places, n = m(a) PROVE Fine(a)
    OBVIOUS
  <2>1. ASSUME NEW b \in Places, a <= l, b > a PROVE Fine(b)
    <3>1. m(b) \in 0 .. n - 1
      BY <2>1 DEF Places
    <3>2. m(b) \in G
      BY <1>3, <3>1
    <3> QED BY <3>1, <3>2
  <2>2. a \in Nat /\ a + 1 \in Places /\ a + 1 > a /\ a + 2 \in Places /\ a + 2 > a
    BY DEF Places
  <2>3. a <= l => Fine(a + 1) /\ Fine(a + 2)
    BY <2>1, <2>2
  <2> HIDE DEF m, Fine, G
  <2>4. ValueEnds(f, ts, a) \subseteq a .. l
    BY <1>1, <2>2 DEF ValueEnds, ClosedEnds
  <2>5. MemberEnds(f, ts, a) \subseteq a .. l
    <3>1. CASE a + 2 <= l
      <4>1. f[a + 2]["value"] \subseteq a + 2 .. l
        BY <2>2, <2>3, <3>1, PhraseNames DEF Fine
      <4> QED BY <2>2, <4>1 DEF MemberEnds
    <3>2. CASE ~ a + 2 <= l
      BY <1>1, <3>2 DEF MemberEnds
    <3> QED BY <3>1, <3>2
  <2>6. ASSUME NEW what \in Phrases PROVE FirstEnds(f, ts, a, what) \subseteq a .. l
    BY <2>4, <2>5 DEF FirstEnds
  <2>7. ASSUME NEW what \in Phrases, NEW c \in Commas(f, ts, a, what)
        PROVE  f[c + 1][what] \subseteq a .. l
    <3>1. c \in a + 1 .. l
      BY <1>1 DEF Commas
    <3>2. c + 1 \in Places /\ c + 1 > a /\ a <= l
      BY <2>2, <3>1 DEF Places
    <3>3. f[c + 1][what] \subseteq c + 1 .. l
      BY <2>1, <3>2 DEF Fine
    <3> QED BY <2>2, <3>1, <3>3
  <2>8. ASSUME NEW what \in Phrases PROVE PhraseEnds(f, ts, a, what) \subseteq a .. l
    <3>1. UNION {f[c + 1][what] : c \in Commas(f, ts, a, what)} \subseteq a .. l
      BY <2>7
    <3> QED BY <2>4, <2>6, <3>1 DEF PhraseEnds
  <2>9. ASSUME NEW what \in Phrases PROVE f[a][what] = PhraseEnds(f, ts, a, what)
    BY <1>1, <1>2, EndsAre
  <2> QED BY <2>8, <2>9 DEF Fine
<1>4. \A n \in Nat : n \in G
  <2> HIDE DEF G
  <2> QED BY <1>3, Induction
<1>5. ASSUME NEW a \in Places PROVE Fine(a)
  <2>1. m(a) \in Nat
    BY DEF Places
  <2>2. m(a) \in G
    BY <1>4, <2>1
  <2> QED BY <2>1, <2>2
<1> QED BY <1>1, <1>2, <1>5

-----------------------------------------------------------------------------
(* What the parser's stack asks of the tokens that follow. *)

EndOf(c)  == IF c = "array" THEN "end_array" ELSE "end_object"
PhraseOf(c) == IF c = "array" THEN "values" ELSE "members"
Stack     == {"array", "object"}

\* What was opened at a ends at z, and is not empty.
Opened(ts, c, a, z) == z \in a + 1 .. Len(ts) /\ ts[z] = EndOf(c)
/\ z - 1 \in Ends(ts)[a + 1][PhraseOf(c)]

\* A value, or a member, ends at v, and what it lies in ends at z.
Closes(ts, c, v, z) ==
  /\ z \in 1 .. Len(ts) /\ ts[z] = EndOf(c)
  /\ z = v + 1 \/ (v + 1 <= Len(ts) /\ ts[v + 1] = "value_separator"
     /\ z - 1 \in Ends(ts)[v + 2][PhraseOf(c)])

\* The first of a list that begins at a.
First(ts, c, a) == FirstEnds(Ends(ts), ts, a, PhraseOf(c))

LEMMA ListUnfolds ==
  ASSUME NEW ts, Len(ts) \in Nat, NEW c \in Stack, NEW a \in Places
  PROVE  Ends(ts)[a][PhraseOf(c)] =
           First(ts, c, a) \cup UNION {Ends(ts)[k + 1][PhraseOf(c)] :
             k \in Commas(Ends(ts), ts, a, PhraseOf(c))}
<1>1. PhraseOf(c) \in Phrases /\ PhraseOf(c) # "value"
  BY DEF PhraseOf, Phrases
<1>2. PICK w \in Phrases : w = PhraseOf(c) /\ w # "value"
  BY <1>1
<1>3. Ends(ts)[a][w] = PhraseEnds(Ends(ts), ts, a, w)
  BY EndsAre
<1>4. PhraseEnds(Ends(ts), ts, a, w) = FirstEnds(Ends(ts), ts, a, w)
        \cup UNION {Ends(ts)[k + 1][w] : k \in Commas(Ends(ts), ts, a, w)}
  BY <1>2 DEF PhraseEnds
<1> QED BY <1>2, <1>3, <1>4 DEF First

LEMMA FirstBehind ==
  ASSUME NEW ts, Len(ts) \in Nat, NEW c \in Stack, NEW a \in Places
  PROVE  First(ts, c, a) \subseteq a .. Len(ts)
<1>1. PhraseOf(c) \in Phrases
  BY DEF PhraseOf, Phrases
<1>2. First(ts, c, a) \subseteq Ends(ts)[a][PhraseOf(c)]
  BY ListUnfolds
<1> QED BY <1>1, <1>2, EndsBehind

LEMMA FirstCloses ==
  ASSUME NEW ts, Len(ts) \in Nat, NEW c \in Stack, NEW a \in Nat, NEW z
  PROVE  Opened(ts, c, a, z) <=> \E v \in First(ts, c, a + 1) : Closes(ts, c, v, z)
<1>1. PICK l \in Nat : l = Len(ts)
  OBVIOUS
<1>2. PICK b \in Places : b = a + 1
  BY DEF Places
<1>3. PICK f : f = Ends(ts)
  OBVIOUS
<1>4. PICK w \in Phrases : w = PhraseOf(c)
  BY DEF PhraseOf, Phrases
<1>5. f[b][w] = First(ts, c, b) \cup UNION {f[k + 1][w] : k \in Commas(f, ts, b, w)}
  BY <1>3, <1>4, ListUnfolds
<1>6. First(ts, c, b) \subseteq b .. l
  BY <1>1, FirstBehind
<1>7. \A d \in Places : f[d][w] \subseteq d .. l
  BY <1>1, <1>3, EndsBehind
<1>8. \A k : k \in Commas(f, ts, b, w) <=>
             k \in b + 1 .. l /\ ts[k] = "value_separator" /\ k - 1 \in First(ts, c, b)
  BY <1>1, <1>3, <1>4 DEF Commas, First
<1>9. ASSUME Opened(ts, c, a, z) PROVE \E v \in First(ts, c, b) : Closes(ts, c, v, z)
  <2>1. z \in b .. l /\ ts[z] = EndOf(c) /\ z - 1 \in f[b][w]
    BY <1>1, <1>2, <1>3, <1>4, <1>9 DEF Opened
  <2>2. z \in 1 .. l
    BY <1>2, <2>1
  <2>3. CASE z - 1 \in First(ts, c, b)
    <3>1. z = (z - 1) + 1
      BY <2>2
    <3>2. Closes(ts, c, z - 1, z)
      BY <1>1, <2>1, <2>2, <3>1 DEF Closes
    <3> QED BY <2>3, <3>2
  <2>4. CASE z - 1 \notin First(ts, c, b)
    <3>1. PICK k \in Commas(f, ts, b, w) : z - 1 \in f[k + 1][w]
      BY <1>5, <2>1, <2>4
    <3>2. PICK v : v = k - 1
      OBVIOUS
    <3>3. k \in b + 1 .. l /\ ts[k] = "value_separator" /\ v \in First(ts, c, b)
      BY <1>8, <3>1, <3>2
    <3>4. v + 1 = k /\ v + 2 = k + 1
      BY <3>2, <3>3
    <3>5. v + 1 <= l /\ ts[v + 1] = "value_separator" /\ z - 1 \in f[v + 2][w]
      BY <3>1, <3>3, <3>4
    <3>6. Closes(ts, c, v, z)
      BY <1>1, <1>3, <1>4, <2>1, <2>2, <3>5 DEF Closes
    <3> QED BY <3>3, <3>6
  <2> QED BY <2>3, <2>4
<1>10. ASSUME NEW v \in First(ts, c, b), Closes(ts, c, v, z) PROVE Opened(ts, c, a, z)
  <2>1. v \in b .. l
    BY <1>6
  <2>2. z \in 1 .. l /\ ts[z] = EndOf(c)
    BY <1>1, <1>10 DEF Closes
  <2>3. CASE z = v + 1
    <3>1. z - 1 = v /\ z \in a + 1 .. l
      BY <1>2, <2>1, <2>2, <2>3
    <3>2. z - 1 \in f[b][w]
      BY <1>5, <3>1
    <3> QED BY <1>1, <1>2, <1>3, <1>4, <2>2, <3>1, <3>2 DEF Opened
  <2>4. CASE v + 1 <= l /\ ts[v + 1] = "value_separator" /\ z - 1 \in f[v + 2][w]
    <3>1. PICK k : k = v + 1
      OBVIOUS
    <3>2. k \in b + 1 .. l /\ k - 1 = v /\ k + 1 = v + 2 /\ k + 1 \in Places
      BY <2>1, <2>4, <3>1 DEF Places
    <3>3. k \in Commas(f, ts, b, w)
      BY <1>8, <2>4, <3>1, <3>2
    <3>4. z - 1 \in f[b][w]
      BY <1>5, <2>4, <3>2, <3>3
    <3>5. z - 1 \in k + 1 .. l
      BY <1>7, <2>4, <3>2
    <3>6. z \in a + 1 .. l
      BY <1>2, <2>2, <3>2, <3>5
    <3> QED BY <1>1, <1>2, <1>3, <1>4, <2>2, <3>4, <3>6 DEF Opened
  <2> QED BY <1>1, <1>3, <1>4, <1>10, <2>3, <2>4 DEF Closes
<1> QED BY <1>2, <1>9, <1>10

\* What is open now, at n, is closed in turn up to the last token.
Chain(ts, stack, n) ==
  \E e \in [0 .. Len(stack) -> Nat] :
    /\ e[0] = Len(ts) /\ e[Len(stack)] = n
    /\ \A k \in 1 .. Len(stack) : Closes(ts, stack[k], e[k], e[k - 1])

LEMMA ChainOfNone ==
  ASSUME NEW ts, Len(ts) \in Nat, NEW n
  PROVE  Chain(ts, <<>>, n) <=> n = Len(ts)
<1>1. ASSUME n = Len(ts) PROVE Chain(ts, <<>>, n)
  <2>1. PICK e \in [0 .. 0 -> Nat] : e = [k \in 0 .. 0 |-> Len(ts)]
    OBVIOUS
  <2>2. e[0] = Len(ts) /\ Len(<<>>) = 0
    BY <2>1
  <2> QED BY <1>1, <2>2 DEF Chain
<1> QED BY <1>1 DEF Chain

LEMMA ChainPushed ==
  ASSUME NEW ts, Len(ts) \in Nat, NEW stack \in Seq(Stack), NEW c \in Stack, NEW n \in Nat
  PROVE  Chain(ts, Append(stack, c), n) <=> \E z : Closes(ts, c, n, z) /\ Chain(ts, stack, z)
<1>1. PICK l \in Nat : l = Len(stack)
  OBVIOUS
<1>2. PICK s : s = Append(stack, c)
  OBVIOUS
<1>3. Len(s) = l + 1 /\ s[l + 1] = c /\ \A k \in 1 .. l : s[k] = stack[k]
  BY <1>1, <1>2
<1>4. ASSUME Chain(ts, s, n) PROVE \E z : Closes(ts, c, n, z) /\ Chain(ts, stack, z)
  <2>1. PICK e \in [0 .. l + 1 -> Nat] :
          /\ e[0] = Len(ts) /\ e[l + 1] = n
          /\ \A k \in 1 .. l + 1 : Closes(ts, s[k], e[k], e[k - 1])
    BY <1>3, <1>4 DEF Chain
  <2>2. PICK z : z = e[l]
    OBVIOUS
  <2>3. Closes(ts, c, n, z)
    <3>1. l + 1 \in 1 .. l + 1 /\ (l + 1) - 1 = l
      OBVIOUS
    <3> QED BY <1>3, <2>1, <2>2, <3>1
  <2>4. PICK d \in [0 .. l -> Nat] : d = [k \in 0 .. l |-> e[k]]
    <3>1. \A k \in 0 .. l : k \in 0 .. l + 1
      OBVIOUS
    <3> QED BY <2>1, <3>1
  <2>5. d[0] = Len(ts) /\ d[l] = z
    BY <2>1, <2>2, <2>4
  <2>6. ASSUME NEW k \in 1 .. l PROVE Closes(ts, stack[k], d[k], d[k - 1])
    <3>1. k \in 1 .. l + 1 /\ k \in 0 .. l /\ k - 1 \in 0 .. l
      OBVIOUS
    <3> QED BY <1>3, <2>1, <2>4, <3>1
  <2>7. Chain(ts, stack, z)
    BY <1>1, <2>5, <2>6 DEF Chain
  <2> QED BY <2>3, <2>7
<1>5. ASSUME NEW z, Closes(ts, c, n, z), Chain(ts, stack, z) PROVE Chain(ts, s, n)
  <2>1. PICK d \in [0 .. l -> Nat] :
          /\ d[0] = Len(ts) /\ d[l] = z
          /\ \A k \in 1 .. l : Closes(ts, stack[k], d[k], d[k - 1])
    BY <1>1, <1>5 DEF Chain
  <2>2. PICK e \in [0 .. l + 1 -> Nat] : e = [k \in 0 .. l + 1 |-> IF k = l + 1 THEN n ELSE d[k]]
    <3>1. \A k \in 0 .. l + 1 : k # l + 1 => k \in 0 .. l
      OBVIOUS
    <3> QED BY <2>1, <3>1
  <2>3. /\ e[0] = Len(ts) /\ e[l + 1] = n
        /\ \A k \in 0 .. l : e[k] = d[k]
    <3>1. \A k \in 0 .. l : k \in 0 .. l + 1 /\ k # l + 1
      OBVIOUS
    <3> QED BY <2>1, <2>2, <3>1
  <2>4. ASSUME NEW k \in 1 .. l + 1 PROVE Closes(ts, s[k], e[k], e[k - 1])
    <3>1. CASE k = l + 1
      <4>1. k - 1 = l /\ l \in 0 .. l
        BY <3>1
      <4> QED BY <1>3, <1>5, <2>1, <2>3, <3>1, <4>1
    <3>2. CASE k # l + 1
      <4>1. k \in 1 .. l /\ k \in 0 .. l /\ k - 1 \in 0 .. l
        BY <3>2
      <4> QED BY <1>3, <2>1, <2>3, <4>1
    <3> QED BY <3>1, <3>2
  <2> QED BY <1>3, <2>2, <2>3, <2>4 DEF Chain
<1> QED BY <1>2, <1>4, <1>5

-----------------------------------------------------------------------------
(* The tokens of a text. *)

LEMMA NotLiteral ==
  ASSUME NEW t, NEW s, At(t, s) = -1, s \in Nat, NEW w \in Literals
  PROVE  ~IsLiteral(t, s, w[1])
<1>1. PICK word : word = w[1]
  OBVIOUS
<1>2. 1 \in 1 .. Len(word) /\ word[1] \in Nat
  <2>1. /\ Len(<<116, 114, 117, 101>>) = 4 /\ Len(<<102, 97, 108, 115, 101>>) = 5
        /\ Len(<<110, 117, 108, 108>>) = 4
    OBVIOUS
  <2> QED BY <1>1, <2>1 DEF Literals
<1>3. At(t, s + 1 - 1) = -1
  <2>1. s + 1 - 1 = s
    OBVIOUS
  <2> QED BY <2>1
<1>4. ~IsLiteral(t, s, word)
  BY <1>2, <1>3 DEF IsLiteral
<1> QED BY <1>1, <1>4

\* Behind the text the lexer finds its end.
LEMMA ScanBehind ==
  ASSUME NEW t, Len(t) \in Nat, NEW p \in Places, p > Len(t)
  PROVE  Scan(t, p).type = "end_of_input"
<1>1. PICK q \in Places : q = p
  OBVIOUS
<1>2. Begin(t, q) = q
  <2>1. CASE q > 1
    BY <2>1 DEF Begin
  <2>2. CASE ~ q > 1
    <3>1. q = 1 /\ q \in Nat
      BY <2>2 DEF Places
    <3>2. ReadAt(t, q)
      BY <3>1, ReadAtAll
    <3>3. At(t, 1) = -1
      BY <1>1, <3>1, <3>2 DEF ReadAt
    <3> QED BY <3>1, <3>3 DEF Begin, SkipBom
  <2> QED BY <2>1, <2>2
<1>3. PICK s : s = SkipWhitespace(t, q)
  OBVIOUS
<1>4. s \in Nat /\ s >= q
  BY <1>3, SkippedTo DEF Places
<1>5. ReadAt(t, s)
  BY <1>4, ReadAtAll
<1>6. s > Len(t)
  BY <1>1, <1>4 DEF Places
<1>7. At(t, s) = -1
  BY <1>5, <1>6 DEF ReadAt
<1>8. \A x \in Structure : x[1] # -1
  BY DEF Structure
<1>9. \A w \in Literals : ~IsLiteral(t, s, w[1])
  BY <1>4, <1>7, NotLiteral
<1>10. TokenAt(t, s) = Token("end_of_input", s + 1)
  BY <1>7, <1>8, <1>9 DEF TokenAt, Quote, Digit, Minus, EOF
<1>11. Scan(t, q) = TokenAt(t, s)
  <2>1. Scan(t, q) = IF Begin(t, q) = 0 THEN Error(q) ELSE TokenAt(t,
          SkipWhitespace(t, Begin(t, q)))
    BY ScanIs DEF Places
  <2>2. q # 0
    BY DEF Places
  <2> QED BY <1>2, <1>3, <2>1, <2>2
<1> QED BY <1>1, <1>10, <1>11 DEF Token

\* The recursion of Tokens.
Lexed(f, t) ==
  f = [p \in Places |->
         LET k == Scan(t, p)
         IN IF k.type = "end_of_input" THEN <<>>
            ELSE IF k.type = "parse_error" THEN <<k>>
            ELSE <<k>> \o f[k.next]]

LEMMA TokensIs == ASSUME NEW t PROVE Tokens(t) = (CHOOSE f : Lexed(f, t))[1]
BY DEF Tokens, Lexed, Places

Scannable(t) == {Scan(t, p) : p \in Places}

LEMMA OneAhead ==
  ASSUME NEW K, NEW k \in K, NEW r \in Seq(K)
  PROVE  /\ <<k>> \o r \in Seq(K) /\ Len(<<k>> \o r) = Len(r) + 1 /\ (<<k>> \o r)[1] = k
         /\ \A n \in 1 .. Len(r) : (<<k>> \o r)[n + 1] = r[n]
         /\ Len(r) \in Nat
<1>1. <<k>> \in Seq(K) /\ Len(<<k>>) = 1 /\ <<k>>[1] = k
  BY ListOf
<1>2. PICK s \in Seq(K) : s = <<k>>
  BY <1>1
<1>3. /\ s \o r \in Seq(K) /\ Len(s \o r) = 1 + Len(r) /\ Len(r) \in Nat
      /\ (s \o r)[1] = k /\ \A n \in 1 .. Len(r) : (s \o r)[1 + n] = r[n]
  BY <1>1, <1>2, ConcatOf
<1>4. \A n \in 1 .. Len(r) : 1 + n = n + 1
  OBVIOUS
<1> QED BY <1>2, <1>3, <1>4

LEMMA ScanGoesOn ==
  ASSUME NEW t \in Seq(Bytes), NEW p \in Places, NEW k, k = Scan(t, p),
         k.type # "end_of_input", k.type # "parse_error"
  PROVE  k.next \in Places /\ k.next > p /\ p <= Len(t)
<1>1. IsTokenFrom(k, p)
  BY TokenScanned DEF Places
<1>2. PICK l \in Nat : l = Len(t)
  OBVIOUS
<1>3. ~ p > l
  BY <1>2, ScanBehind
<1>4. p <= l
  BY <1>3 DEF Places
<1> QED BY <1>1, <1>2, <1>4 DEF IsTokenFrom, Places

LEMMA TokensLexed ==
  ASSUME NEW t \in Seq(Bytes)
  PROVE  \E f \in [Places -> Seq(Scannable(t))] : Lexed(f, t)
<1> DEFINE S == Places
           K == Scannable(t)
           T == Seq(K)
           m == [p \in S |-> IF p > Len(t) THEN 0 ELSE Len(t) + 1 - p]
           Def == [a \in [S -> T] \X S |->
                     IF Scan(t, a[2]).type = "end_of_input" THEN <<>>
                     ELSE IF Scan(t, a[2]).type = "parse_error" THEN <<Scan(t, a[2])>>
                     ELSE <<Scan(t, a[2])>> \o a[1][Scan(t, a[2]).next]]
<1>0. Len(t) \in Nat
  OBVIOUS
<1>1. T # {}
  <2>1. <<>> \in T
    OBVIOUS
  <2> QED BY <2>1
<1>2. m \in [S -> Nat]
  BY <1>0 DEF Places
<1>3. Def \in [[S -> T] \X S -> T]
  <2> SUFFICES ASSUME NEW g \in [S -> T], NEW p \in S
               PROVE  (IF Scan(t, p).type = "end_of_input" THEN <<>>
                       ELSE IF Scan(t, p).type = "parse_error" THEN <<Scan(t, p)>>
                       ELSE <<Scan(t, p)>> \o g[Scan(t, p).next]) \in T
    OBVIOUS
  <2>1. PICK k \in K : k = Scan(t, p)
    BY DEF Scannable
  <2>2. <<>> \in T
    OBVIOUS
  <2>3. <<k>> \in T
    BY ListOf
  <2>4. CASE k.type # "end_of_input" /\ k.type # "parse_error"
    <3>1. k.next \in S
      BY <2>1, <2>4, ScanGoesOn
    <3>2. PICK r \in T : r = g[k.next]
      BY <3>1
    <3>3. <<k>> \o r \in T
      <4> HIDE DEF K
      <4> QED BY OneAhead
    <3> QED BY <2>1, <2>4, <3>2, <3>3
  <2> QED BY <2>1, <2>2, <2>3, <2>4
<1>4. Founded(Def, S, T, m)
  <2> SUFFICES ASSUME NEW g \in [S -> T], NEW h \in [S -> T], NEW p \in S,
                      \A y \in S : m[y] < m[p] => g[y] = h[y]
               PROVE  Def[<<g, p>>] = Def[<<h, p>>]
    BY DEF Founded
  <2>1. PICK k : k = Scan(t, p)
    OBVIOUS
  <2>2. CASE k.type # "end_of_input" /\ k.type # "parse_error"
    <3>1. PICK n \in S : n = k.next /\ n > p /\ p <= Len(t)
      BY <2>1, <2>2, ScanGoesOn
    <3>2. m[n] < m[p]
      BY <1>0, <3>1, SMTT(60) DEF Places
    <3>3. g[n] = h[n]
      BY <3>2
    <3> QED BY <2>1, <3>1, <3>3
  <2>3. CASE ~(k.type # "end_of_input" /\ k.type # "parse_error")
    BY <2>1, <2>3
  <2> QED BY <2>2, <2>3
<1>5. PICK f \in [S -> T] : f = [p \in S |-> Def[<<f, p>>]]
  <2> HIDE DEF S, T, m, Def
  <2>1. Recurses(Def, S, T, m)
    BY <1>1, <1>2, <1>3, <1>4 DEF Recurses
  <2>2. Solved(Def, S, T)
    BY <2>1, Recursive
  <2> QED BY <2>2 DEF Solved
<1>6. ASSUME NEW p \in S
      PROVE  f[p] = LET k == Scan(t, p)
                    IN IF k.type = "end_of_input" THEN <<>>
                       ELSE IF k.type = "parse_error" THEN <<k>>
                       ELSE <<k>> \o f[k.next]
  <2>1. f[p] = Def[<<f, p>>]
    <3> HIDE DEF Def
    <3> QED BY <1>5
  <2> QED BY <2>1
<1>7. f = [p \in S |-> f[p]]
  OBVIOUS
<1>8. Lexed(f, t)
  BY <1>6, <1>7 DEF Lexed
<1> QED BY <1>8

\* k is the n-th of the tokens s, or the end of the input behind them.
Nth(s, k, n) ==
  IF n = Len(s) + 1 THEN k.type = "end_of_input"
  ELSE n \in 1 .. Len(s) /\ k = s[n]

\* s is what the lexer reads from p on, up to the end or the first error.
IsLexed(t, p, s) ==
  /\ Nth(s, Scan(t, p), 1)
  /\ \A n \in 1 .. Len(s) : /\ s[n].type # "end_of_input"
                            /\ s[n].type # "parse_error" => Nth(s, Scan(t, s[n].next), n + 1)

LEMMA NthLater ==
  ASSUME NEW K, NEW k \in K, NEW r \in Seq(K), NEW x, NEW n \in Nat \ {0}, Nth(r, x, n)
  PROVE  Nth(<<k>> \o r, x, n + 1)
<1>1. PICK s : s = <<k>> \o r
  OBVIOUS
<1>2. PICK l \in Nat : l = Len(r)
  BY OneAhead
<1>3. Len(s) = l + 1 /\ \A j \in 1 .. l : s[j + 1] = r[j]
  BY <1>1, <1>2, OneAhead
<1>4. Nth(s, x, n + 1)
  <2>1. CASE n = l + 1
    BY <1>2, <1>3, <2>1 DEF Nth
  <2>2. CASE n # l + 1
    <3>1. n \in 1 .. l /\ x = r[n]
      BY <1>2, <2>2 DEF Nth
    <3>2. n + 1 \in 1 .. l + 1 /\ n + 1 # (l + 1) + 1
      BY <3>1
    <3> QED BY <1>3, <3>1, <3>2 DEF Nth
  <2> QED BY <2>1, <2>2
<1> QED BY <1>1, <1>4

LEMMA TokensRest ==
  ASSUME NEW t, NEW p, NEW K, NEW k \in K, NEW r \in Seq(K), k = Scan(t, p),
         k.type # "end_of_input", k.type # "parse_error", IsLexed(t, k.next, r)
  PROVE  IsLexed(t, p, <<k>> \o r)
<1>1. PICK s : s = <<k>> \o r
  OBVIOUS
<1>2. PICK l \in Nat : l = Len(r)
  BY OneAhead
<1>3. Len(s) = l + 1 /\ s[1] = k /\ \A n \in 1 .. l : s[n + 1] = r[n]
  BY <1>1, <1>2, OneAhead
<1>4. Nth(s, Scan(t, p), 1)
  BY <1>3 DEF Nth
<1>5. ASSUME NEW x, NEW n \in Nat \ {0}, Nth(r, x, n) PROVE Nth(s, x, n + 1)
  BY <1>1, <1>5, NthLater
<1>6. ASSUME NEW n \in 1 .. l + 1
      PROVE  s[n].type # "end_of_input" /\ (s[n].type # "parse_error"
               => Nth(s, Scan(t, s[n].next), n + 1))
  <2>1. CASE n = 1
    <3>1. Nth(r, Scan(t, k.next), 1)
      BY DEF IsLexed
    <3>2. Nth(s, Scan(t, k.next), 1 + 1)
      BY <1>5, <3>1
    <3> QED BY <1>3, <2>1, <3>2
  <2>2. CASE n # 1
    <3>1. PICK j \in 1 .. l : n = j + 1
      <4>1. n - 1 \in 1 .. l /\ n = (n - 1) + 1
        BY <2>2
      <4> QED BY <4>1
    <3>2. r[j].type # "end_of_input" /\ (r[j].type # "parse_error"
            => Nth(r, Scan(t, r[j].next), j + 1))
      BY <1>2 DEF IsLexed
    <3>3. s[n] = r[j]
      BY <1>3, <3>1
    <3>4. j + 1 \in Nat \ {0}
      OBVIOUS
    <3>5. ASSUME Nth(r, Scan(t, r[j].next), j + 1) PROVE Nth(s, Scan(t, r[j].next), n + 1)
      BY <1>5, <3>1, <3>4, <3>5
    <3> QED BY <3>2, <3>3, <3>5
  <2> QED BY <2>1, <2>2
<1>7. IsLexed(t, p, s)
  BY <1>3, <1>4, <1>6 DEF IsLexed
<1> QED BY <1>1, <1>7

LEMMA TokensAre ==
  ASSUME NEW t \in Seq(Bytes)
  PROVE  Tokens(t) \in Seq(Scannable(t)) /\ IsLexed(t, 1, Tokens(t))
<1> DEFINE F == CHOOSE f : Lexed(f, t)
           K == Scannable(t)
<1>1. Lexed(F, t)
  BY TokensLexed
<1> HIDE DEF F
<1>2. ASSUME NEW p \in Places
      PROVE  F[p] = LET k == Scan(t, p)
                    IN IF k.type = "end_of_input" THEN <<>>
                       ELSE IF k.type = "parse_error" THEN <<k>>
                       ELSE <<k>> \o F[k.next]
  BY <1>1 DEF Lexed
<1>0. PICK l \in Nat : l = Len(t)
  OBVIOUS
<1> DEFINE m(p) == IF p > l THEN 0 ELSE l + 1 - p
           Fine(p) == F[p] \in Seq(K) /\ IsLexed(t, p, F[p])
           G == {n \in Nat : \A p \in Places : n = m(p) => Fine(p)}
<1>3. ASSUME NEW n \in Nat, \A j \in 0 .. n - 1 : j \in G PROVE n \in G
  <2> SUFFICES ASSUME NEW p \in Places, n = m(p) PROVE Fine(p)
    OBVIOUS
  <2>1. PICK k \in K : k = Scan(t, p)
    BY DEF Scannable
  <2>2. F[p] = IF k.type = "end_of_input" THEN <<>>
               ELSE IF k.type = "parse_error" THEN <<k>>
               ELSE <<k>> \o F[k.next]
    BY <1>2, <2>1
  <2>3. CASE k.type = "end_of_input"
    <3>1. F[p] = <<>> /\ <<>> \in Seq(K) /\ Len(<<>>) = 0
      BY <2>2, <2>3
    <3>2. IsLexed(t, p, <<>>)
      BY <2>1, <2>3, <3>1 DEF IsLexed, Nth
    <3> QED BY <3>1, <3>2
  <2>4. CASE k.type = "parse_error"
    <3>1. PICK s : s = <<k>>
      OBVIOUS
    <3>2. s \in Seq(K) /\ Len(s) = 1 /\ s[1] = k
      BY <3>1, ListOf
    <3>3. \A j \in 1 .. Len(s) : s[j] = k
      BY <3>2
    <3>4. Nth(s, k, 1)
      BY <3>2 DEF Nth
    <3>5. IsLexed(t, p, s)
      BY <2>1, <2>4, <3>3, <3>4 DEF IsLexed
    <3>6. F[p] = s
      BY <2>2, <2>4, <3>1
    <3> QED BY <3>2, <3>5, <3>6
  <2>5. CASE k.type # "end_of_input" /\ k.type # "parse_error"
    <3>1. PICK q \in Places : q = k.next /\ q > p /\ p <= l
      BY <1>0, <2>1, <2>5, ScanGoesOn
    <3>2. m(q) \in 0 .. n - 1
      BY <3>1 DEF Places
    <3>3. m(q) \in G
      BY <1>3, <3>2
    <3>4. Fine(q)
      BY <3>3
    <3>5. PICK r \in Seq(K) : r = F[q] /\ IsLexed(t, q, r)
      BY <3>4
    <3>6. F[p] = <<k>> \o r
      BY <2>2, <2>5, <3>1, <3>5
    <3>7. <<k>> \o r \in Seq(K)
      <4> HIDE DEF K
      <4> QED BY OneAhead
    <3>8. IsLexed(t, p, <<k>> \o r)
      <4>1. IsLexed(t, k.next, r)
        BY <3>1, <3>5
      <4> HIDE DEF K
      <4> QED BY <2>1, <2>5, <4>1, TokensRest
    <3> QED BY <3>6, <3>7, <3>8
  <2> QED BY <2>3, <2>4, <2>5
<1>4. \A n \in Nat : n \in G
  <2> HIDE DEF G
  <2> QED BY <1>3, Induction
<1>5. Fine(1)
  <2>1. m(1) \in Nat /\ 1 \in Places
    BY DEF Places
  <2>2. m(1) \in G
    BY <1>4, <2>1
  <2> QED BY <2>1, <2>2
<1>6. Tokens(t) = F[1]
  BY TokensIs DEF F
<1> QED BY <1>5, <1>6

-----------------------------------------------------------------------------
(* What the next token says of what is left to read. *)

\* What remains to be read at n: a value, or the ends of what is open.
ValueAt(ts, stack, n) == \E z \in Ends(ts)[n]["value"] : Chain(ts, stack, z)
FirstAt(ts, stack, c, n) == \E v \in First(ts, c, n) : Chain(ts, stack, v)
BeginOf(c) == IF c = "array" THEN "begin_array" ELSE "begin_object"

\* The n-th token has the type c, or c is the end of the input.
TypeAt(ts, n, c) ==
  IF n <= Len(ts) THEN c = ts[n] /\ c # "end_of_input" ELSE c = "end_of_input"

LEMMA ValueIs ==
  ASSUME NEW ts, Len(ts) \in Nat, NEW n \in Places
  PROVE  Ends(ts)[n]["value"] = ValueEnds(Ends(ts), ts, n)
<1>1. PICK w \in Phrases : w = "value"
  BY PhraseNames
<1>2. Ends(ts)[n][w] = PhraseEnds(Ends(ts), ts, n, w)
  BY EndsAre
<1> QED BY <1>1, <1>2 DEF PhraseEnds

LEMMA ScalarHere ==
  ASSUME NEW ts, Len(ts) \in Nat, NEW stack, NEW n \in Places, n <= Len(ts), ts[n] \in Scalars
  PROVE  ValueAt(ts, stack, n) <=> Chain(ts, stack, n)
<1>1. ~ n > Len(ts)
  BY DEF Places
<1>2. Ends(ts)[n]["value"] = {n}
  BY <1>1, ValueIs DEF ValueEnds
<1> QED BY <1>2 DEF ValueAt

LEMMA NoValueHere ==
  ASSUME NEW ts, Len(ts) \in Nat, NEW stack, NEW n \in Places,
         n <= Len(ts) => ts[n] \notin Scalars \cup {"begin_object", "begin_array"}
  PROVE  Ends(ts)[n]["value"] = {} /\ ~ValueAt(ts, stack, n)
<1>1. n <= Len(ts) \/ n > Len(ts)
  BY DEF Places
<1>2. Ends(ts)[n]["value"] = {}
  BY <1>1, ValueIs DEF ValueEnds
<1> QED BY <1>2 DEF ValueAt

LEMMA Brackets ==
  ASSUME NEW c \in Stack
  PROVE  /\ BeginOf(c) \notin Scalars /\ EndOf(c) \notin Scalars \cup {"begin_object",
              "begin_array"}
         /\ EndOf(c) # "value_separator" /\ EndOf(c) # "value_string"
         /\ PhraseOf(c) \in Phrases /\ EndOf(c) # "parse_error" /\ EndOf(c) # "end_of_input"
BY DEF Stack, BeginOf, EndOf, PhraseOf, Phrases, Scalars

LEMMA ValueOpened ==
  ASSUME NEW ts, Len(ts) \in Nat, NEW c \in Stack, NEW n \in Places, n <= Len(ts),
         ts[n] = BeginOf(c)
  PROVE  Ends(ts)[n]["value"] = ClosedEnds(Ends(ts), ts, n, EndOf(c), PhraseOf(c))
<1>1. ~ n > Len(ts)
  BY DEF Places
<1>2. ts[n] \notin Scalars
  BY Brackets
<1>3. CASE c = "array"
  BY <1>1, <1>2, <1>3, ValueIs DEF ValueEnds, BeginOf, EndOf, PhraseOf
<1>4. CASE c = "object"
  BY <1>1, <1>2, <1>4, ValueIs DEF ValueEnds, BeginOf, EndOf, PhraseOf
<1> QED BY <1>3, <1>4 DEF Stack

LEMMA FirstOfArray ==
  ASSUME NEW ts, Len(ts) \in Nat, NEW n \in Places
  PROVE  First(ts, "array", n) = Ends(ts)[n]["value"]
BY ValueIs DEF First, FirstEnds, PhraseOf

LEMMA FirstOfObject ==
  ASSUME NEW ts, Len(ts) \in Nat, NEW n \in Places
  PROVE  First(ts, "object", n) =
           IF n + 1 <= Len(ts) /\ ts[n] = "value_string" /\ ts[n + 1] = "name_separator"
           THEN Ends(ts)[n + 2]["value"] ELSE {}
<1>1. First(ts, "object", n) = MemberEnds(Ends(ts), ts, n)
  BY DEF First, FirstEnds, PhraseOf
<1>2. PICK l \in Nat : l = Len(ts)
  OBVIOUS
<1>3. PICK b \in Places : b = n + 2
  BY DEF Places
<1>4. n + 2 <= l => n + 1 <= l
  BY DEF Places
<1>5. CASE n + 2 <= l
  BY <1>1, <1>2, <1>4, <1>5 DEF MemberEnds
<1>6. CASE ~ n + 2 <= l
  <2>1. ~ b <= l
    BY <1>3, <1>6
  <2>2. Ends(ts)[b]["value"] = {}
    BY <1>2, <2>1, NoValueHere
  <2> QED BY <1>1, <1>2, <1>3, <1>6, <2>2 DEF MemberEnds
<1> QED BY <1>5, <1>6

\* Where no first one begins, there is no list.
LEMMA NoList ==
  ASSUME NEW ts, Len(ts) \in Nat, NEW c \in Stack, NEW n \in Places, n <= Len(ts), ts[n] = EndOf(c)
  PROVE  Ends(ts)[n][PhraseOf(c)] = {}
<1>1. First(ts, c, n) = {}
  <2>1. CASE c = "array"
    <3>1. ts[n] \notin Scalars \cup {"begin_object", "begin_array"}
      BY Brackets
    <3>2. Ends(ts)[n]["value"] = {}
      BY <3>1, NoValueHere
    <3> QED BY <2>1, <3>2, FirstOfArray
  <2>2. CASE c = "object"
    BY <2>2, FirstOfObject, Brackets
  <2> QED BY <2>1, <2>2 DEF Stack
<1>2. Commas(Ends(ts), ts, n, PhraseOf(c)) = {}
  BY <1>1 DEF Commas, First
<1> QED BY <1>1, <1>2, ListUnfolds

LEMMA EmptyHere ==
  ASSUME NEW ts, Len(ts) \in Nat, NEW stack, NEW c \in Stack, NEW n \in Places, n <= Len(ts),
         ts[n] = BeginOf(c),
         n + 1 <= Len(ts), ts[n + 1] = EndOf(c)
  PROVE  ValueAt(ts, stack, n) <=> Chain(ts, stack, n + 1)
<1>1. PICK b \in Places : b = n + 1
  BY DEF Places
<1>2. Ends(ts)[b][PhraseOf(c)] = {}
  BY <1>1, NoList
<1>3. b \in n + 1 .. Len(ts)
  BY <1>1 DEF Places
<1>4. ClosedEnds(Ends(ts), ts, n, EndOf(c), PhraseOf(c)) = {b}
  BY <1>1, <1>2, <1>3 DEF ClosedEnds
<1>5. Ends(ts)[n]["value"] = {b}
  BY <1>4, ValueOpened
<1> QED BY <1>1, <1>5 DEF ValueAt

LEMMA OpenHere ==
  ASSUME NEW ts, Len(ts) \in Nat, NEW stack \in Seq(Stack), NEW c \in Stack, NEW n \in Places,
         n <= Len(ts), ts[n] = BeginOf(c), n + 1 <= Len(ts) => ts[n + 1] # EndOf(c)
  PROVE  ValueAt(ts, stack, n) <=> FirstAt(ts, Append(stack, c), c, n + 1)
<1>1. PICK b \in Places : b = n + 1
  BY DEF Places
<1>2. PICK l \in Nat : l = Len(ts)
  OBVIOUS
<1>3. ASSUME NEW z PROVE z \in ClosedEnds(Ends(ts), ts, n, EndOf(c), PhraseOf(c))
             <=> Opened(ts, c, n, z)
  <2>1. ASSUME z \in n + 1 .. l, z = n + 1, ts[z] = EndOf(c) PROVE FALSE
    <3>1. n + 1 <= l
      BY <2>1 DEF Places
    <3> QED BY <1>2, <2>1, <3>1
  <2> QED BY <1>2, <2>1 DEF ClosedEnds, Opened
<1>4. ASSUME NEW z PROVE Opened(ts, c, n, z) <=> \E v \in First(ts, c, b) : Closes(ts, c, v, z)
  <2>1. n \in Nat
    BY DEF Places
  <2> QED BY <1>1, <2>1, FirstCloses
<1>5. ASSUME NEW v \in First(ts, c, b)
      PROVE  Chain(ts, Append(stack, c), v) <=> \E z : Closes(ts, c, v, z) /\ Chain(ts, stack, z)
  <2>1. v \in b .. l
    BY <1>2, FirstBehind
  <2>2. v \in Nat
    BY <2>1 DEF Places
  <2> QED BY <2>2, ChainPushed
<1>6. ValueAt(ts, stack, n) <=> \E z : Opened(ts, c, n, z) /\ Chain(ts, stack, z)
  BY <1>3, ValueOpened DEF ValueAt
<1>7. FirstAt(ts, Append(stack, c), c, b)
        <=> \E v \in First(ts, c, b) : \E z : Closes(ts, c, v, z) /\ Chain(ts, stack, z)
  BY <1>5 DEF FirstAt
<1>8. FirstAt(ts, Append(stack, c), c, b) <=> \E z : Opened(ts, c, n, z) /\ Chain(ts, stack, z)
  BY <1>4, <1>7
<1> QED BY <1>1, <1>6, <1>8

\* The container on top.
TopOf(stack, c) == stack \in Seq(Stack) /\ stack # <<>> /\ c = Last(stack)

LEMMA ChainPopped ==
  ASSUME NEW ts, Len(ts) \in Nat, NEW stack, NEW c, TopOf(stack, c), NEW n \in Nat
  PROVE  Chain(ts, stack, n) <=> \E z : Closes(ts, c, n, z) /\ Chain(ts, Front(stack), z)
<1>1. PICK f \in Seq(Stack) : f = Front(stack) /\ stack = Append(f, c)
  <2>1. PICK l \in Nat : l = Len(stack) /\ l > 0
    BY EmptySeq, LenProperties DEF TopOf
  <2>2. PICK f \in Seq(Stack) : f = Front(stack) /\ Len(f) = l - 1
             /\ \A k \in 1 .. l - 1 : f[k] = stack[k]
    BY <2>1, FrontOfSeq DEF TopOf
  <2>3. PICK s \in Seq(Stack) : s = stack /\ c = s[l] /\ c \in Stack
    BY <2>1, ElementOfSeq DEF TopOf, Last
  <2>4. PICK g \in Seq(Stack) : g = Append(f, c)
    BY <2>3, AppendProperties
  <2>5. Len(g) = l /\ g[l] = c /\ \A k \in 1 .. l - 1 : g[k] = f[k]
    BY <2>1, <2>2, <2>3, <2>4, AppendProperties
  <2>6. \A k \in 1 .. l : g[k] = s[k]
    BY <2>1, <2>2, <2>3, <2>5
  <2>7. g = s
    BY <2>1, <2>3, <2>5, <2>6, SeqEqual
  <2> QED BY <2>2, <2>3, <2>4, <2>7
<1>2. c \in Stack
  BY EmptySeq, LenProperties DEF TopOf, Last
<1>3. Chain(ts, Append(f, c), n) <=> \E z : Closes(ts, c, n, z) /\ Chain(ts, f, z)
  BY <1>2, ChainPushed
<1> QED BY <1>1, <1>3

LEMMA SeparatorNext ==
  ASSUME NEW ts, Len(ts) \in Nat, NEW stack, NEW c \in Stack, TopOf(stack, c), NEW n \in Places,
         n + 1 <= Len(ts), ts[n + 1] = "value_separator"
  PROVE  Chain(ts, stack, n) <=> FirstAt(ts, stack, c, n + 2)
<1>1. PICK l \in Nat : l = Len(ts)
  OBVIOUS
<1>2. PICK m \in Places : m = n + 1
  BY DEF Places
<1>3. PICK b \in Places : b = m + 1 /\ b = n + 2
  BY <1>2 DEF Places
<1>4. n \in Nat /\ m \in Nat
  BY DEF Places
<1>5. ASSUME NEW z PROVE Closes(ts, c, n, z) <=> Opened(ts, c, m, z)
  <2>1. ASSUME z \in 1 .. l, ts[z] = EndOf(c) PROVE z # n + 1
    BY <1>2, <2>1, Brackets
  <2>2. ASSUME z \in 1 .. l, z - 1 \in Ends(ts)[b][PhraseOf(c)] PROVE z \in m + 1 .. l
    <3>1. z - 1 \in b .. l
      BY <1>1, <2>2, EndsBehind, Brackets
    <3> QED BY <1>3, <1>4, <2>2, <3>1
  <2>3. ASSUME z \in m + 1 .. l PROVE z \in 1 .. l
    BY <1>4, <2>3
  <2>4. Closes(ts, c, n, z) <=> z \in 1 .. l /\ ts[z] = EndOf(c)
        /\ z - 1 \in Ends(ts)[b][PhraseOf(c)]
    BY <1>1, <1>3, <2>1 DEF Closes
  <2>5. Opened(ts, c, m, z) <=> z \in m + 1 .. l /\ ts[z] = EndOf(c)
        /\ z - 1 \in Ends(ts)[b][PhraseOf(c)]
    BY <1>1, <1>3 DEF Opened
  <2> QED BY <2>2, <2>3, <2>4, <2>5
<1>6. ASSUME NEW z PROVE Opened(ts, c, m, z) <=> \E v \in First(ts, c, b) : Closes(ts, c, v, z)
  BY <1>3, <1>4, FirstCloses
<1>7. ASSUME NEW v \in First(ts, c, b)
      PROVE  Chain(ts, stack, v) <=> \E z : Closes(ts, c, v, z) /\ Chain(ts, Front(stack), z)
  <2>1. v \in b .. l
    BY <1>1, FirstBehind
  <2>2. v \in Nat
    BY <2>1 DEF Places
  <2> QED BY <2>2, ChainPopped
<1>8. Chain(ts, stack, n) <=> \E z : Closes(ts, c, n, z) /\ Chain(ts, Front(stack), z)
  BY <1>4, ChainPopped
<1>9. Chain(ts, stack, n) <=> \E z : \E v \in First(ts, c, b) : Closes(ts, c, v, z)
      /\ Chain(ts, Front(stack), z)
  BY <1>5, <1>6, <1>8
<1>10. FirstAt(ts, stack, c, b) <=> \E v \in First(ts, c, b) : \E z : Closes(ts, c, v, z)
       /\ Chain(ts, Front(stack), z)
  BY <1>7 DEF FirstAt
<1> QED BY <1>3, <1>9, <1>10

LEMMA EndNext ==
  ASSUME NEW ts, Len(ts) \in Nat, NEW stack, NEW c \in Stack, TopOf(stack, c), NEW n \in Places,
         n + 1 <= Len(ts), ts[n + 1] = EndOf(c)
  PROVE  Chain(ts, stack, n) <=> Chain(ts, Front(stack), n + 1)
<1>1. PICK m \in Places : m = n + 1 /\ m \in 1 .. Len(ts) /\ ts[m] = EndOf(c)
  BY DEF Places
<1>2. ASSUME NEW z PROVE Closes(ts, c, n, z) <=> z = m
  BY <1>1, Brackets DEF Closes
<1>3. Chain(ts, stack, n) <=> \E z : Closes(ts, c, n, z) /\ Chain(ts, Front(stack), z)
  BY ChainPopped DEF Places
<1> QED BY <1>1, <1>2, <1>3

LEMMA NothingNext ==
  ASSUME NEW ts, Len(ts) \in Nat, NEW stack, NEW c \in Stack, TopOf(stack, c), NEW n \in Places,
         n + 1 <= Len(ts) => ts[n + 1] # "value_separator" /\ ts[n + 1] # EndOf(c)
  PROVE  ~Chain(ts, stack, n)
<1>1. ASSUME NEW z PROVE ~Closes(ts, c, n, z)
  <2>1. ASSUME z \in 1 .. Len(ts), z = n + 1 PROVE n + 1 <= Len(ts)
    BY <2>1
  <2> QED BY <2>1 DEF Closes
<1>2. Chain(ts, stack, n) <=> \E z : Closes(ts, c, n, z) /\ Chain(ts, Front(stack), z)
  BY ChainPopped DEF Places
<1> QED BY <1>1, <1>2

LEMMA TypesAre ==
  ASSUME NEW t \in Seq(Bytes)
  PROVE  /\ Len(Tokens(t)) \in Nat /\ Len(TokenTypes(t)) = Len(Tokens(t))
         /\ \A n \in 1 .. Len(Tokens(t)) : TokenTypes(t)[n] = Tokens(t)[n].type
<1>1. PICK s \in Seq(Scannable(t)) : s = Tokens(t)
  BY TokensAre
<1>2. PICK l \in Nat : l = Len(s) /\ DOMAIN s = 1 .. l
  BY LenProperties
<1>3. PICK x : x = [k \in 1 .. l |-> s[k].type]
  OBVIOUS
<1>4. TokenTypes(t) = x
  BY <1>1, <1>2, <1>3 DEF TokenTypes
<1>5. Len(x) = l
  BY <1>3
<1> QED BY <1>1, <1>2, <1>3, <1>4, <1>5

LEMMA TokenHere ==
  ASSUME NEW t \in Seq(Bytes), NEW k, NEW n \in Places, Nth(Tokens(t), k, n)
  PROVE  TypeAt(TokenTypes(t), n, k.type)
<1>1. PICK s : s = Tokens(t)
  OBVIOUS
<1>2. PICK ts : ts = TokenTypes(t)
  OBVIOUS
<1>3. PICK l \in Nat : l = Len(s) /\ Len(ts) = l /\ \A j \in 1 .. l : ts[j] = s[j].type
  BY <1>1, <1>2, TypesAre
<1>4. \A j \in 1 .. l : s[j].type # "end_of_input"
  BY <1>1, <1>3, TokensAre DEF IsLexed
<1>5. CASE n = l + 1
  <2>1. k.type = "end_of_input"
    BY <1>1, <1>3, <1>5 DEF Nth
  <2>2. ~ n <= l
    BY <1>5
  <2> QED BY <1>2, <1>3, <2>1, <2>2 DEF TypeAt
<1>6. CASE n # l + 1
  <2>1. n \in 1 .. l /\ k = s[n]
    BY <1>1, <1>3, <1>6 DEF Nth
  <2> QED BY <1>2, <1>3, <1>4, <2>1 DEF TypeAt
<1> QED BY <1>5, <1>6

LEMMA NextToken ==
  ASSUME NEW t \in Seq(Bytes), NEW k, NEW n \in Places, Nth(Tokens(t), k, n),
         k.type # "end_of_input", k.type # "parse_error"
  PROVE  Nth(Tokens(t), Scan(t, k.next), n + 1)
<1>1. PICK s : s = Tokens(t)
  OBVIOUS
<1>2. n \in 1 .. Len(s) /\ k = s[n]
  BY <1>1 DEF Nth
<1>3. s[n].type # "parse_error" => Nth(s, Scan(t, s[n].next), n + 1)
  BY <1>1, <1>2, TokensAre DEF IsLexed
<1> QED BY <1>1, <1>2, <1>3

\* The parser has reached the n-th token, and what remains to be read decides
\* whether the text is a value.
Reached(t, k, stack, evaluated, n) ==
  /\ n \in Places /\ Nth(Tokens(t), k, n)
  /\ evaluated => k.type # "parse_error" /\ k.type # "end_of_input"
  /\ IsValue(TokenTypes(t))
       <=> IF evaluated THEN Chain(TokenTypes(t), stack, n) ELSE ValueAt(TokenTypes(t), stack, n)

AcceptInv ==
  /\ verdict = "idle" => states = <<>> /\ ~evaluate
  /\ verdict \in {"parsing", "parsed"} => \E n : Reached(text, last_token, states, evaluate, n)
  /\ verdict = "parsed" => states = <<>> /\ evaluate
  /\ verdict = "accepted" => IsValue(TokenTypes(text))
  /\ verdict = "parse_error" => ~IsValue(TokenTypes(text))

LEMMA GoesOn ==
  ASSUME NEW k, NEW stack, NEW evaluated, NEW n, Reached(text, k, stack, evaluated, n),
         verdict' = "parsing", text' = text, last_token' = k, states' = stack, evaluate' = evaluated
  PROVE  AcceptInv'
BY DEF AcceptInv

LEMMA FailsAt ==
  ASSUME NEW k, ParseError(k), ~IsValue(TokenTypes(text))
  PROVE  AcceptInv'
BY DEF AcceptInv, ParseError

LEMMA MemberReached ==
  ASSUME NEW k, NEW a \in Places, NEW h, NEW stack \in Seq(Stack), text \in Seq(Bytes),
         verdict = "parsing",
         Nth(Tokens(text), k, a), MemberFollows(k, h, stack),
         IsValue(TokenTypes(text)) <=> FirstAt(TokenTypes(text), stack, "object", a)
  PROVE  AcceptInv'
<1>1. PICK ts : ts = TokenTypes(text)
  OBVIOUS
<1>2. PICK l \in Nat : l = Len(ts)
  BY <1>1, TypesAre
<1>3. PICK f : f = First(ts, "object", a)
  OBVIOUS
<1>4. f = IF a + 1 <= l /\ ts[a] = "value_string" /\ ts[a + 1] = "name_separator"
          THEN Ends(ts)[a + 2]["value"] ELSE {}
  BY <1>2, <1>3, FirstOfObject
<1>5. IsValue(ts) <=> \E v \in f : Chain(ts, stack, v)
  BY <1>1, <1>3 DEF FirstAt
<1>6. PICK colon : colon = Scan(text, k.next)
  OBVIOUS
<1>7. PICK b \in Places : b = a + 1 /\ a + 2 = b + 1
  BY DEF Places
<1>8. TypeAt(ts, a, k.type)
  BY <1>1, TokenHere
<1>9. CASE k.type # "value_string"
  <2>1. ~(a + 1 <= l /\ ts[a] = "value_string")
    <3>1. a + 1 <= l => a <= l
      BY DEF Places
    <3> QED BY <1>2, <1>8, <1>9, <3>1 DEF TypeAt
  <2>2. ~IsValue(ts)
    BY <1>4, <1>5, <2>1
  <2>3. ParseError(k)
    BY <1>9 DEF MemberFollows
  <2> QED BY <1>1, <2>2, <2>3, FailsAt
<1>10. CASE k.type = "value_string"
  <2>1. Nth(Tokens(text), colon, b)
    BY <1>6, <1>7, <1>10, NextToken
  <2>2. TypeAt(ts, b, colon.type)
    BY <1>1, <2>1, TokenHere
  <2>3. CASE colon.type # "name_separator"
    <3>1. ~(b <= l /\ ts[b] = "name_separator")
      BY <1>2, <2>2, <2>3 DEF TypeAt
    <3>2. ~IsValue(ts)
      BY <1>4, <1>5, <1>7, <3>1
    <3>3. ParseError(colon)
      BY <1>6, <1>10, <2>3 DEF MemberFollows
    <3> QED BY <1>1, <3>2, <3>3, FailsAt
  <2>4. CASE colon.type = "name_separator"
    <3>1. PICK x : x = Scan(text, colon.next)
      OBVIOUS
    <3>2. PICK c \in Places : c = b + 1
      BY DEF Places
    <3>3. Nth(Tokens(text), x, c)
      BY <2>1, <2>4, <3>1, <3>2, NextToken
    <3>4. b <= l /\ ts[b] = "name_separator"
      BY <1>2, <2>2, <2>4 DEF TypeAt
    <3>5. ts[a] = "value_string"
      BY <1>2, <1>8, <1>10 DEF TypeAt
    <3>6. f = Ends(ts)[c]["value"]
      BY <1>4, <1>7, <3>2, <3>4, <3>5
    <3>7. Reached(text, x, stack, FALSE, c)
      BY <1>1, <1>5, <3>3, <3>6 DEF Reached, ValueAt
    <3>8. last_token' = x /\ states' = stack /\ evaluate' = FALSE /\ text' = text
          /\ verdict' = "parsing"
      BY <1>6, <1>10, <2>4, <3>1 DEF MemberFollows
    <3> QED BY <3>7, <3>8, GoesOn
  <2> QED BY <2>3, <2>4
<1> QED BY <1>9, <1>10

\* What the parser knows when it is asked for a value.
AtValueOf(ts, n) ==
  /\ n \in Places /\ Len(ts) \in Nat
  /\ Nth(Tokens(text), last_token, n) /\ TypeAt(ts, n, last_token.type)
  /\ last_token.type \notin {"end_of_input", "parse_error"}
       => Nth(Tokens(text), Next1, n + 1) /\ TypeAt(ts, n + 1, Next1.type)

LEMMA WhereItIs ==
  ASSUME text \in Seq(Bytes), NEW n, NEW stack, NEW evaluated,
         Reached(text, last_token, stack, evaluated, n)
  PROVE  AtValueOf(TokenTypes(text), n)
<1>1. n \in Places /\ Nth(Tokens(text), last_token, n)
  BY DEF Reached
<1>2. PICK m \in Places : m = n + 1
  BY <1>1 DEF Places
<1>3. ASSUME last_token.type # "end_of_input", last_token.type # "parse_error"
      PROVE  Nth(Tokens(text), Next1, m)
  BY <1>1, <1>2, <1>3, NextToken DEF Next1
<1>4. ASSUME Nth(Tokens(text), Next1, m) PROVE TypeAt(TokenTypes(text), m, Next1.type)
  BY <1>4, TokenHere
<1>5. TypeAt(TokenTypes(text), n, last_token.type) /\ Len(TokenTypes(text)) \in Nat
  BY <1>1, TokenHere, TypesAre
<1> QED BY <1>1, <1>2, <1>3, <1>4, <1>5 DEF AtValueOf

-----------------------------------------------------------------------------
(* The parser accepts the tokens that the grammar derives. *)

LEMMA StatesStack == ASSUME ParserInv PROVE states \in Seq(Stack)
BY DEF ParserInv, Stacked, Stack

LEMMA PushedStack ==
  ASSUME NEW stack \in Seq(Stack), NEW c \in Stack PROVE Append(stack, c) \in Seq(Stack)
BY AppendProperties

\* The next token says that what was opened is empty, or it does not.
LEMMA OpenedAt ==
  ASSUME ParserInv, text \in Seq(Bytes), NEW c \in Stack, NEW n,
         Reached(text, last_token, states, FALSE, n), last_token.type = BeginOf(c)
  PROVE  LET ts == TokenTypes(text)
         IN /\ n + 1 \in Places /\ Nth(Tokens(text), Next1, n + 1)
            /\ IF Next1.type = EndOf(c) THEN IsValue(ts) <=> Chain(ts, states, n + 1)
               ELSE IsValue(ts) <=> FirstAt(ts, Append(states, c), c, n + 1)
<1>1. PICK ts : ts = TokenTypes(text)
  OBVIOUS
<1>2. PICK l \in Nat : l = Len(ts)
  BY <1>1, TypesAre
<1>3. AtValueOf(ts, n)
  BY <1>1, WhereItIs
<1>4. last_token.type # "end_of_input" /\ last_token.type # "parse_error"
  BY DEF BeginOf, Stack
<1>5. /\ n \in Places /\ Nth(Tokens(text), Next1, n + 1)
      /\ TypeAt(ts, n, last_token.type) /\ TypeAt(ts, n + 1, Next1.type)
  BY <1>3, <1>4 DEF AtValueOf
<1>6. n + 1 \in Places
  BY <1>5 DEF Places
<1>7. n <= l /\ ts[n] = BeginOf(c)
  BY <1>2, <1>4, <1>5 DEF TypeAt
<1>8. IsValue(ts) <=> ValueAt(ts, states, n)
  BY <1>1 DEF Reached
<1>9. CASE Next1.type = EndOf(c)
  <2>1. n + 1 <= l /\ ts[n + 1] = EndOf(c)
    BY <1>2, <1>5, <1>9, Brackets DEF TypeAt
  <2>2. ValueAt(ts, states, n) <=> Chain(ts, states, n + 1)
    BY <1>2, <1>5, <1>7, <2>1, EmptyHere
  <2> QED BY <1>1, <1>5, <1>6, <1>8, <1>9, <2>2
<1>10. CASE Next1.type # EndOf(c)
  <2>1. n + 1 <= l => ts[n + 1] # EndOf(c)
    BY <1>2, <1>5, <1>10 DEF TypeAt
  <2>2. ValueAt(ts, states, n) <=> FirstAt(ts, Append(states, c), c, n + 1)
    BY <1>2, <1>5, <1>7, <2>1, OpenHere, StatesStack
  <2> QED BY <1>1, <1>5, <1>6, <1>8, <1>10, <2>2
<1> QED BY <1>9, <1>10

LEMMA ClosedReached ==
  ASSUME NEW k, NEW c \in Stack, k.type = EndOf(c), NEW n \in Places, Nth(Tokens(text), k, n),
         NEW stack,
         IsValue(TokenTypes(text)) <=> Chain(TokenTypes(text), stack, n), NEW h,
           Completed(k, h, stack),
         verdict = "parsing"
  PROVE  AcceptInv'
<1>1. Reached(text, k, stack, TRUE, n)
  BY Brackets DEF Reached
<1>2. last_token' = k /\ states' = stack /\ evaluate' = TRUE /\ text' = text /\ verdict' = "parsing"
  BY DEF Completed
<1> QED BY <1>1, <1>2, GoesOn

LEMMA ObjectAccepted == ASSUME ParserInv, AcceptInv, text \in Seq(Bytes), BeginObject
                        PROVE AcceptInv'
<1>0. verdict = "parsing" /\ evaluate = FALSE /\ last_token.type = BeginOf("object")
      /\ "object" \in Stack
  BY DEF BeginObject, AtValue, BeginOf, Stack, ParserInv
<1>1. PICK n : Reached(text, last_token, states, FALSE, n)
  BY <1>0 DEF AcceptInv
<1>2. PICK m \in Places : m = n + 1 /\ Nth(Tokens(text), Next1, m)
  BY <1>0, <1>1, OpenedAt
<1>3. CASE Next1.type = "end_object"
  <2>1. IsValue(TokenTypes(text)) <=> Chain(TokenTypes(text), states, m)
    BY <1>0, <1>1, <1>2, <1>3, OpenedAt DEF EndOf
  <2>2. PICK h : Completed(Next1, h, states)
    BY <1>3 DEF BeginObject
  <2>3. Next1.type = EndOf("object")
    BY <1>3 DEF EndOf
  <2> QED BY <1>0, <1>2, <2>1, <2>2, <2>3, ClosedReached
<1>4. CASE Next1.type # "end_object"
  <2>1. IsValue(TokenTypes(text)) <=> FirstAt(TokenTypes(text), Append(states, "object"), "object",
          m)
    BY <1>0, <1>1, <1>2, <1>4, OpenedAt DEF EndOf
  <2>2. PICK h : MemberFollows(Next1, h, Append(states, "object"))
    BY <1>4 DEF BeginObject
  <2>3. PICK stack \in Seq(Stack) : stack = Append(states, "object")
    BY <1>0, StatesStack, PushedStack
  <2> QED BY <1>0, <1>2, <2>1, <2>2, <2>3, MemberReached
<1> QED BY <1>3, <1>4

LEMMA ArrayAccepted == ASSUME ParserInv, AcceptInv, text \in Seq(Bytes), BeginArray PROVE AcceptInv'
<1>0. verdict = "parsing" /\ evaluate = FALSE /\ last_token.type = BeginOf("array")
      /\ "array" \in Stack
  BY DEF BeginArray, AtValue, BeginOf, Stack, ParserInv
<1>1. PICK n : Reached(text, last_token, states, FALSE, n)
  BY <1>0 DEF AcceptInv
<1>2. PICK m \in Places : m = n + 1 /\ Nth(Tokens(text), Next1, m)
  BY <1>0, <1>1, OpenedAt
<1>3. CASE Next1.type = "end_array"
  <2>1. IsValue(TokenTypes(text)) <=> Chain(TokenTypes(text), states, m)
    BY <1>0, <1>1, <1>2, <1>3, OpenedAt DEF EndOf
  <2>2. PICK h : Completed(Next1, h, states)
    BY <1>3 DEF BeginArray
  <2>3. Next1.type = EndOf("array")
    BY <1>3 DEF EndOf
  <2> QED BY <1>0, <1>2, <2>1, <2>2, <2>3, ClosedReached
<1>4. CASE Next1.type # "end_array"
  <2>1. IsValue(TokenTypes(text)) <=> FirstAt(TokenTypes(text), Append(states, "array"), "array", m)
    BY <1>0, <1>1, <1>2, <1>4, OpenedAt DEF EndOf
  <2>2. First(TokenTypes(text), "array", m) = Ends(TokenTypes(text))[m]["value"]
    BY FirstOfArray, TypesAre
  <2>3. Reached(text, Next1, Append(states, "array"), FALSE, m)
    BY <1>2, <2>1, <2>2 DEF Reached, ValueAt, FirstAt
  <2>4. last_token' = Next1 /\ states' = Append(states, "array") /\ evaluate' = FALSE
        /\ text' = text /\ verdict' = "parsing"
    BY <1>0, <1>4 DEF BeginArray
  <2> QED BY <2>3, <2>4, GoesOn
<1> QED BY <1>3, <1>4

LEMMA ScalarAccepted == ASSUME ParserInv, AcceptInv, text \in Seq(Bytes), ScalarValue
                        PROVE AcceptInv'
<1>0. verdict = "parsing" /\ evaluate = FALSE /\ last_token.type \in Scalars
  BY DEF ScalarValue, AtValue, ParserInv
<1>1. PICK n : Reached(text, last_token, states, FALSE, n)
  BY <1>0 DEF AcceptInv
<1>2. PICK ts : ts = TokenTypes(text)
  OBVIOUS
<1>3. AtValueOf(ts, n)
  BY <1>1, <1>2, WhereItIs
<1>4. last_token.type # "end_of_input" /\ last_token.type # "parse_error"
  BY <1>0 DEF Scalars
<1>5. n \in Places /\ Len(ts) \in Nat /\ n <= Len(ts) /\ ts[n] \in Scalars
  BY <1>0, <1>3, <1>4 DEF AtValueOf, TypeAt
<1>6. ValueAt(ts, states, n) <=> Chain(ts, states, n)
  BY <1>5, ScalarHere
<1>7. Reached(text, last_token, states, TRUE, n)
  BY <1>1, <1>2, <1>4, <1>6 DEF Reached
<1>8. last_token' = last_token /\ states' = states /\ evaluate' = TRUE /\ text' = text
      /\ verdict' = "parsing"
  BY <1>0 DEF ScalarValue, Completed
<1> QED BY <1>7, <1>8, GoesOn

LEMMA UnexpectedRefused == ASSUME ParserInv, AcceptInv, text \in Seq(Bytes), Unexpected
                           PROVE AcceptInv'
<1>0. /\ verdict = "parsing" /\ evaluate = FALSE
      /\ last_token.type \notin Scalars \cup {"begin_object", "begin_array"}
  BY DEF Unexpected, ParserInv
<1>1. PICK n : Reached(text, last_token, states, FALSE, n)
  BY <1>0 DEF AcceptInv
<1>2. PICK ts : ts = TokenTypes(text)
  OBVIOUS
<1>3. AtValueOf(ts, n)
  BY <1>1, <1>2, WhereItIs
<1>4. /\ n \in Places /\ Len(ts) \in Nat
      /\ n <= Len(ts) => ts[n] \notin Scalars \cup {"begin_object", "begin_array"}
  BY <1>0, <1>3 DEF AtValueOf, TypeAt
<1>5. ~ValueAt(ts, states, n)
  BY <1>4, NoValueHere
<1>6. ~IsValue(ts)
  BY <1>1, <1>2, <1>5 DEF Reached
<1> QED BY <1>2, <1>6, FailsAt DEF Unexpected

\* A value is complete, and what it lies in is on top.
LEMMA StateAt ==
  ASSUME ParserInv, AcceptInv, text \in Seq(Bytes), NEW c \in Stack, AtState(c)
  PROVE  \E n : /\ Reached(text, last_token, states, TRUE, n) /\ TopOf(states, c)
                /\ n \in Places /\ Len(TokenTypes(text)) \in Nat
                /\ Nth(Tokens(text), Next1, n + 1) /\ TypeAt(TokenTypes(text), n + 1, Next1.type)
                /\ last_token.type # "parse_error" /\ last_token.type # "end_of_input"
<1>0. verdict = "parsing" /\ evaluate = TRUE /\ states # <<>> /\ Last(states) = c
  BY DEF AtState, ParserInv
<1>1. PICK n : Reached(text, last_token, states, TRUE, n)
  BY <1>0 DEF AcceptInv
<1>2. AtValueOf(TokenTypes(text), n)
  BY <1>1, WhereItIs
<1>3. last_token.type # "parse_error" /\ last_token.type # "end_of_input"
  BY <1>1 DEF Reached
<1> QED BY <1>0, <1>1, <1>2, <1>3, StatesStack DEF AtValueOf, TopOf

LEMMA ElementAccepted == ASSUME ParserInv, AcceptInv, text \in Seq(Bytes), NextElement
                         PROVE AcceptInv'
<1>0. AtState("array") /\ "array" \in Stack /\ Next1.type = "value_separator" /\ verdict = "parsing"
  BY DEF NextElement, Stack, AtState
<1>1. PICK ts : ts = TokenTypes(text)
  OBVIOUS
<1>2. PICK n : /\ Reached(text, last_token, states, TRUE, n) /\ TopOf(states, "array")
               /\ n \in Places /\ Len(ts) \in Nat
               /\ Nth(Tokens(text), Next1, n + 1) /\ TypeAt(ts, n + 1, Next1.type)
  BY <1>0, <1>1, StateAt
<1>3. PICK b \in Places : b = n + 1
  BY <1>2 DEF Places
<1>4. PICK d \in Places : d = n + 2 /\ d = b + 1
  BY <1>2, <1>3 DEF Places
<1>5. n + 1 <= Len(ts) /\ ts[n + 1] = "value_separator"
  BY <1>0, <1>2 DEF TypeAt
<1>6. Chain(ts, states, n) <=> FirstAt(ts, states, "array", d)
  BY <1>0, <1>2, <1>4, <1>5, SeparatorNext
<1>7. First(ts, "array", d) = Ends(ts)[d]["value"]
  BY <1>2, FirstOfArray
<1>8. Nth(Tokens(text), Next2, d)
  BY <1>0, <1>2, <1>3, <1>4, NextToken DEF Next2
<1>9. Reached(text, Next2, states, FALSE, d)
  BY <1>1, <1>2, <1>6, <1>7, <1>8 DEF Reached, ValueAt, FirstAt
<1>10. last_token' = Next2 /\ states' = states /\ evaluate' = FALSE /\ text' = text
       /\ verdict' = "parsing"
  BY <1>0 DEF NextElement
<1> QED BY <1>9, <1>10, GoesOn

LEMMA MemberAccepted == ASSUME ParserInv, AcceptInv, text \in Seq(Bytes), NextMember
                        PROVE AcceptInv'
<1>0. AtState("object") /\ "object" \in Stack /\ Next1.type = "value_separator"
      /\ verdict = "parsing"
  BY DEF NextMember, Stack, AtState
<1>1. PICK ts : ts = TokenTypes(text)
  OBVIOUS
<1>2. PICK n : /\ Reached(text, last_token, states, TRUE, n) /\ TopOf(states, "object")
               /\ n \in Places /\ Len(ts) \in Nat
               /\ Nth(Tokens(text), Next1, n + 1) /\ TypeAt(ts, n + 1, Next1.type)
  BY <1>0, <1>1, StateAt
<1>3. PICK b \in Places : b = n + 1
  BY <1>2 DEF Places
<1>4. PICK d \in Places : d = n + 2 /\ d = b + 1
  BY <1>2, <1>3 DEF Places
<1>5. n + 1 <= Len(ts) /\ ts[n + 1] = "value_separator"
  BY <1>0, <1>2 DEF TypeAt
<1>6. Chain(ts, states, n) <=> FirstAt(ts, states, "object", d)
  BY <1>0, <1>2, <1>4, <1>5, SeparatorNext
<1>7. IsValue(ts) <=> FirstAt(ts, states, "object", d)
  BY <1>1, <1>2, <1>6 DEF Reached
<1>8. Nth(Tokens(text), Next2, d)
  BY <1>0, <1>2, <1>3, <1>4, NextToken DEF Next2
<1>9. MemberFollows(Next2, dom, states)
  BY DEF NextMember
<1> QED BY <1>0, <1>1, <1>7, <1>8, <1>9, StatesStack, MemberReached

LEMMA EndAccepted ==
  ASSUME ParserInv, AcceptInv, text \in Seq(Bytes), NEW c \in Stack, Close(c, EndOf(c))
  PROVE AcceptInv'
<1>0. /\ AtState(c) /\ Next1.type = EndOf(c) /\ verdict = "parsing"
      /\ Completed(Next1, EndContainer(dom), Front(states))
  BY DEF Close, AtState, Popped
<1>1. PICK ts : ts = TokenTypes(text)
  OBVIOUS
<1>2. PICK n : /\ Reached(text, last_token, states, TRUE, n) /\ TopOf(states, c)
               /\ n \in Places /\ Len(ts) \in Nat
               /\ Nth(Tokens(text), Next1, n + 1) /\ TypeAt(ts, n + 1, Next1.type)
  BY <1>0, <1>1, StateAt
<1>3. PICK b \in Places : b = n + 1
  BY <1>2 DEF Places
<1>4. n + 1 <= Len(ts) /\ ts[n + 1] = EndOf(c)
  BY <1>0, <1>2, Brackets DEF TypeAt
<1>5. Chain(ts, states, n) <=> Chain(ts, Front(states), b)
  BY <1>2, <1>3, <1>4, EndNext
<1>6. IsValue(ts) <=> Chain(ts, Front(states), b)
  BY <1>1, <1>2, <1>5 DEF Reached
<1> QED BY <1>0, <1>1, <1>2, <1>3, <1>6, ClosedReached

LEMMA MissingRefused == ASSUME ParserInv, AcceptInv, text \in Seq(Bytes), MissingEnd
                        PROVE AcceptInv'
<1>0. PICK c \in Stack : AtState(c) /\ Next1.type # "value_separator" /\ Next1.type # EndOf(c)
  BY DEF MissingEnd, Stack, EndOf
<1>1. PICK ts : ts = TokenTypes(text)
  OBVIOUS
<1>2. PICK n : /\ Reached(text, last_token, states, TRUE, n) /\ TopOf(states, c)
               /\ n \in Places /\ Len(ts) \in Nat
               /\ Nth(Tokens(text), Next1, n + 1) /\ TypeAt(ts, n + 1, Next1.type)
  BY <1>0, <1>1, StateAt
<1>3. n + 1 <= Len(ts) => ts[n + 1] # "value_separator" /\ ts[n + 1] # EndOf(c)
  BY <1>0, <1>2 DEF TypeAt
<1>4. ~Chain(ts, states, n)
  BY <1>2, <1>3, NothingNext
<1>5. ~IsValue(ts)
  BY <1>1, <1>2, <1>4 DEF Reached
<1> QED BY <1>1, <1>5, FailsAt DEF MissingEnd

LEMMA StrictAccepted == ASSUME ParserInv, AcceptInv, text \in Seq(Bytes), StrictEnd PROVE AcceptInv'
<1>0. verdict = "parsed" /\ states = <<>> /\ evaluate = TRUE
  BY DEF StrictEnd, AcceptInv, ParserInv
<1>1. PICK n : Reached(text, last_token, states, TRUE, n)
  BY <1>0 DEF AcceptInv
<1>2. PICK ts : ts = TokenTypes(text)
  OBVIOUS
<1>3. AtValueOf(ts, n)
  BY <1>1, <1>2, WhereItIs
<1>4. last_token.type # "parse_error" /\ last_token.type # "end_of_input"
  BY <1>1 DEF Reached
<1>5. /\ n \in Places /\ Len(ts) \in Nat
      /\ TypeAt(ts, n, last_token.type) /\ TypeAt(ts, n + 1, Next1.type)
  BY <1>3, <1>4 DEF AtValueOf
<1>6. n <= Len(ts)
  BY <1>4, <1>5 DEF TypeAt
<1>7. Next1.type = "end_of_input" <=> n = Len(ts)
  <2>1. n + 1 <= Len(ts) <=> n # Len(ts)
    BY <1>5, <1>6 DEF Places
  <2> QED BY <1>5, <2>1 DEF TypeAt
<1>8. IsValue(ts) <=> n = Len(ts)
  BY <1>0, <1>1, <1>2, <1>5, ChainOfNone DEF Reached
<1>9. text' = text /\ verdict' = IF Next1.type = "end_of_input" THEN "accepted" ELSE "parse_error"
  BY DEF StrictEnd, Exhausted
<1> QED BY <1>2, <1>7, <1>8, <1>9 DEF AcceptInv

LEMMA AcceptStep == ASSUME ParserInv, AcceptInv, text \in Seq(Bytes), ParseNext PROVE AcceptInv'
<1>1. CASE FloatOverflow
  BY <1>1 DEF FloatOverflow, AcceptInv
<1>2. CASE EndOfHierarchy
  BY <1>2 DEF EndOfHierarchy, AcceptInv
<1>3. CASE EndArray
  <2>1. "array" \in Stack /\ Close("array", EndOf("array"))
    BY <1>3 DEF EndArray, EndOf, Stack
  <2> QED BY <2>1, EndAccepted
<1>4. CASE EndObject
  <2>1. "object" \in Stack /\ Close("object", EndOf("object"))
    BY <1>4 DEF EndObject, EndOf, Stack
  <2> QED BY <2>1, EndAccepted
<1> QED BY <1>1, <1>2, <1>3, <1>4, ObjectAccepted, ArrayAccepted, ScalarAccepted, UnexpectedRefused,
           ElementAccepted, MemberAccepted, MissingRefused, StrictAccepted DEF ParseNext

\* The first token is read.
LEMMA FirstReached ==
  ASSUME NEW t \in Seq(Bytes) PROVE Reached(t, Scan(t, 1), <<>>, FALSE, 1)
<1>1. PICK ts : ts = TokenTypes(t)
  OBVIOUS
<1>2. Len(ts) \in Nat /\ 1 \in Places
  BY <1>1, TypesAre DEF Places
<1>3. Nth(Tokens(t), Scan(t, 1), 1)
  BY TokensAre DEF IsLexed
<1>4. IsValue(ts) <=> ValueAt(ts, <<>>, 1)
  BY <1>2, IsGrammar, ChainOfNone DEF ValueAt
<1> QED BY <1>1, <1>2, <1>3, <1>4 DEF Reached

LEMMA InitAccepts == Init => AcceptInv
<1> SUFFICES ASSUME Init PROVE AcceptInv
  OBVIOUS
<1>1. states = <<>> /\ evaluate = FALSE
  BY DEF Init, NewParser
<1>2. CASE SendMessage
  BY <1>1, <1>2 DEF SendMessage, AcceptInv
<1>3. CASE StrangeText
  <2>1. text \in Seq(Bytes) /\ last_token = Scan(text, 1) /\ verdict = "parsing"
    BY <1>3, TextsAssumption DEF StrangeText
  <2>2. Reached(text, last_token, states, evaluate, 1)
    BY <1>1, <2>1, FirstReached
  <2> QED BY <2>1, <2>2 DEF AcceptInv
<1> QED BY <1>2, <1>3 DEF Init

\* The parser accepts the sequences of tokens that the grammar derives.
LEMMA AcceptInvariant == Spec => [](ScannedInv /\ AcceptInv)
<1>1. BufferInv /\ ParserInv /\ ScannedInv /\ AcceptInv /\ [Next]_vars => AcceptInv'
  <2> SUFFICES ASSUME BufferInv, ParserInv, ScannedInv, AcceptInv, [Next]_vars PROVE AcceptInv'
    OBVIOUS
  <2>1. CASE ParseNext
    BY <2>1, AcceptStep DEF ScannedInv
  <2>2. CASE StartParse(o) /\ verdict = "idle"
    <3>1. o \in Seq(Bytes)
      BY DEF BufferInv, DumpTypeOK
    <3>2. states = <<>> /\ evaluate = FALSE
      BY <2>2 DEF AcceptInv, ParserInv
    <3>3. Reached(o, Scan(o, 1), <<>>, FALSE, 1)
      BY <3>1, FirstReached
    <3>4. /\ text' = o /\ last_token' = Scan(o, 1) /\ states' = <<>> /\ evaluate' = FALSE
          /\ verdict' = "parsing"
      BY <2>2, <3>2 DEF StartParse
    <3> QED BY <3>3, <3>4 DEF AcceptInv
  <2>3. CASE UNCHANGED parseVars
    BY <2>3 DEF AcceptInv, parseVars
  <2> QED BY <2>1, <2>2, <2>3 DEF Next, Serialize, NotSent, Arrive, Parse, Dispatch, vars
<1> QED BY <1>1, InitAccepts, BufferInvOnTheWay, ScannedInvariant, PTL DEF Spec

-----------------------------------------------------------------------------
(* The table of scan_number and the rule of the grammar. *)

\* Where scan_number goes, state by state.
NumberGoes(from, c, to) ==
  /\ \E row \in NumberTable : from \in row[1] /\ c \in row[2] /\ row[3] = to
  /\ \A row \in NumberTable : from \in row[1] /\ c \in row[2] => row[3] = to

NumberEndsBefore(from, c) == ~\E row \in NumberTable : from \in row[1] /\ c \in row[2]

LEMMA NumberGoesTo ==
  ASSUME NEW from, NEW c, NEW to
  PROVE  /\ NumberGoes(from, c, to) => NumberNext(from, c) = to
         /\ NumberEndsBefore(from, c) => NumberNext(from, c) = IF from \in Accepting THEN "done"
              ELSE "error"
<1>1. ASSUME NumberGoes(from, c, to) PROVE NumberNext(from, c) = to
  <2>1. \E row \in NumberTable : from \in row[1] /\ c \in row[2]
    BY <1>1 DEF NumberGoes
  <2>2. PICK row : row = (CHOOSE r \in NumberTable : from \in r[1] /\ c \in r[2])
    OBVIOUS
  <2>3. row \in NumberTable /\ from \in row[1] /\ c \in row[2]
    BY <2>1, <2>2
  <2>4. NumberNext(from, c) = row[3]
    BY <2>1, <2>2 DEF NumberNext
  <2> QED BY <1>1, <2>3, <2>4 DEF NumberGoes
<1>2. ASSUME NumberEndsBefore(from, c)
      PROVE  NumberNext(from, c) = IF from \in Accepting THEN "done" ELSE "error"
  BY <1>2 DEF NumberEndsBefore, NumberNext, Accepting
<1> QED BY <1>1, <1>2

\* The states that a byte leads to, and from where.
NumberStep(from, c, to) ==
  \/ from = "init" /\ to = "minus" /\ c = 45
  \/ from \in {"init", "minus"} /\ to = "zero" /\ c = 48
  \/ from \in {"init", "minus", "any1"} /\ to = "any1" /\ c \in 49 .. 57
  \/ from = "any1" /\ to = "any1" /\ c = 48
  \/ from \in {"zero", "any1"} /\ to = "decimal1" /\ c = 46
  \/ from \in {"decimal1", "decimal2"} /\ to = "decimal2" /\ c \in 48 .. 57
  \/ from \in {"zero", "any1", "decimal2"} /\ to = "exponent" /\ c \in {69, 101}
  \/ from = "exponent" /\ to = "sign" /\ c \in {43, 45}
  \/ from \in {"exponent", "sign", "any2"} /\ to = "any2" /\ c \in 48 .. 57

LEMMA RowSteps ==
  ASSUME NEW from, NEW c, NEW to
  PROVE  (\E row \in NumberTable : from \in row[1] /\ c \in row[2] /\ row[3] = to)
         <=> NumberStep(from, c, to)
BY SMTT(60) DEF NumberTable, NumberStep, Digit, Minus, Dot, Exp, Sign

LEMMA StepOnce ==
  ASSUME NEW from, NEW c, NEW to, NEW other, NumberStep(from, c, to), NumberStep(from, c, other)
  PROVE  to = other
BY SMTT(60) DEF NumberStep

LEMMA NumberSteps ==
  ASSUME NEW from, NEW c, NEW to
  PROVE  /\ NumberStep(from, c, to) => NumberNext(from, c) = to
         /\ (\A x : ~NumberStep(from, c, x))
              => NumberNext(from, c) = IF from \in Accepting THEN "done" ELSE "error"
<1>1. ASSUME NumberStep(from, c, to) PROVE NumberGoes(from, c, to)
  <2>1. \E row \in NumberTable : from \in row[1] /\ c \in row[2] /\ row[3] = to
    BY <1>1, RowSteps
  <2>2. ASSUME NEW row \in NumberTable, from \in row[1], c \in row[2] PROVE row[3] = to
    <3>1. PICK other : other = row[3]
      OBVIOUS
    <3>2. NumberStep(from, c, other)
      BY <2>2, <3>1, RowSteps
    <3> QED BY <1>1, <3>1, <3>2, StepOnce
  <2> QED BY <2>1, <2>2 DEF NumberGoes
<1>2. ASSUME \A x : ~NumberStep(from, c, x) PROVE NumberEndsBefore(from, c)
  <2> SUFFICES ASSUME NEW row \in NumberTable, from \in row[1], c \in row[2] PROVE FALSE
    BY DEF NumberEndsBefore
  <2>1. PICK other : other = row[3]
    OBVIOUS
  <2>2. NumberStep(from, c, other)
    BY <2>1, RowSteps
  <2> QED BY <1>2, <2>2
<1> QED BY <1>1, <1>2, NumberGoesTo

\* What is left of a number in each state, in the words of the grammar.
DigitsIn(t, a, z)   == \A k \in a .. z : t[k] \in 48 .. 57
SomeDigits(t, a, z) == a <= z /\ DigitsIn(t, a, z)

LeftInExponent(t, l, q) ==
  SomeDigits(t, q, l) \/ (q <= l /\ t[q] \in {43, 45} /\ SomeDigits(t, q + 1, l))

PowerFrom(t, l, q) == q > l \/ (t[q] \in {69, 101} /\ LeftInExponent(t, l, q + 1))

LeftInDecimal(t, l, q) == \E z \in q - 1 .. l : DigitsIn(t, q, z) /\ PowerFrom(t, l, z + 1)

LeftBehindDot(t, l, q) == q <= l /\ t[q] \in 48 .. 57 /\ LeftInDecimal(t, l, q + 1)

PartFrom(t, l, q) == PowerFrom(t, l, q) \/ (q <= l /\ t[q] = 46 /\ LeftBehindDot(t, l, q + 1))

LeftInWhole(t, l, q) == \E z \in q - 1 .. l : DigitsIn(t, q, z) /\ PartFrom(t, l, z + 1)

LeftUnsigned(t, l, q) ==
  q <= l /\ (\/ t[q] = 48 /\ PartFrom(t, l, q + 1)
             \/ t[q] \in 49 .. 57 /\ LeftInWhole(t, l, q + 1))

LeftOf(t, l, q, from) ==
  \/ from = "init" /\ (LeftUnsigned(t, l, q) \/ (q <= l /\ t[q] = 45 /\ LeftUnsigned(t, l, q + 1)))
  \/ from = "minus" /\ LeftUnsigned(t, l, q)
  \/ from = "zero" /\ PartFrom(t, l, q)
  \/ from = "any1" /\ LeftInWhole(t, l, q)
  \/ from = "decimal1" /\ LeftBehindDot(t, l, q)
  \/ from = "decimal2" /\ LeftInDecimal(t, l, q)
  \/ from = "exponent" /\ LeftInExponent(t, l, q)
  \/ from = "sign" /\ SomeDigits(t, q, l)
  \/ from = "any2" /\ DigitsIn(t, q, l)

LEMMA DigitsOn ==
  ASSUME NEW t, NEW l \in Nat, NEW q \in Places
  PROVE  /\ q <= l => (DigitsIn(t, q, l) <=> t[q] \in 48 .. 57 /\ DigitsIn(t, q + 1, l))
         /\ SomeDigits(t, q, l) <=> q <= l /\ t[q] \in 48 .. 57 /\ DigitsIn(t, q + 1, l)
         /\ DigitsIn(t, q, q - 1)
         /\ \A z \in q .. l : DigitsIn(t, q, z) <=> t[q] \in 48 .. 57 /\ DigitsIn(t, q + 1, z)
<1>0. q \in Nat /\ q > 0
  BY DEF Places
<1>1. \A z \in q .. l : DigitsIn(t, q, z) <=> t[q] \in 48 .. 57 /\ DigitsIn(t, q + 1, z)
  BY <1>0 DEF DigitsIn
<1>2. q <= l => l \in q .. l
  BY <1>0
<1>3. DigitsIn(t, q, q - 1)
  BY <1>0 DEF DigitsIn
<1> QED BY <1>1, <1>2, <1>3 DEF SomeDigits

\* A run of digits, and something behind it.
LEMMA RunOn ==
  ASSUME NEW t, NEW l \in Nat, NEW q \in Places, NEW P, q <= l
  PROVE  (\E z \in q - 1 .. l : DigitsIn(t, q, z) /\ z + 1 \in P)
         <=> q \in P \/ (t[q] \in 48 .. 57 /\ \E z \in q .. l : DigitsIn(t, q + 1, z)
         /\ z + 1 \in P)
<1>0. q \in Nat /\ q > 0 /\ q - 1 \in q - 1 .. l /\ (q - 1) + 1 = q
  BY DEF Places
<1>1. ASSUME NEW z \in q - 1 .. l PROVE z = q - 1 \/ z \in q .. l
  BY <1>0
<1>2. \A z \in q .. l : z \in q - 1 .. l
  BY <1>0
<1> QED BY <1>0, <1>1, <1>2, DigitsOn

LEMMA DecimalOn ==
  ASSUME NEW t, NEW l \in Nat, NEW q \in Places
  PROVE  /\ q <= l => (LeftInDecimal(t, l, q) <=>
                         PowerFrom(t, l, q) \/ (t[q] \in 48 .. 57 /\ LeftInDecimal(t, l, q + 1)))
         /\ q = l + 1 => LeftInDecimal(t, l, q)
<1>0. q \in Nat /\ q > 0 /\ (q + 1) - 1 = q
  BY DEF Places
<1> DEFINE P == {x \in Nat : PowerFrom(t, l, x)}
<1>1. \A z \in q - 1 .. l : PowerFrom(t, l, z + 1) <=> z + 1 \in P
  BY <1>0
<1>2. \A z \in q .. l : PowerFrom(t, l, z + 1) <=> z + 1 \in P
  BY <1>0
<1>3. LeftInDecimal(t, l, q) <=> \E z \in q - 1 .. l : DigitsIn(t, q, z) /\ z + 1 \in P
  BY <1>1 DEF LeftInDecimal
<1>4. LeftInDecimal(t, l, q + 1) <=> \E z \in q .. l : DigitsIn(t, q + 1, z) /\ z + 1 \in P
  BY <1>0, <1>2 DEF LeftInDecimal
<1>5. q \in P <=> PowerFrom(t, l, q)
  BY <1>0
<1>6. ASSUME q <= l
      PROVE  (\E z \in q - 1 .. l : DigitsIn(t, q, z) /\ z + 1 \in P)
             <=> q \in P \/ (t[q] \in 48 .. 57 /\ \E z \in q .. l : DigitsIn(t, q + 1, z)
             /\ z + 1 \in P)
  <2> HIDE DEF P
  <2> QED BY <1>6, RunOn
<1>7. ASSUME q = l + 1 PROVE LeftInDecimal(t, l, q)
  <2>1. l \in q - 1 .. l /\ PowerFrom(t, l, l + 1) /\ DigitsIn(t, q, l)
    BY <1>7 DEF PowerFrom, DigitsIn
  <2> QED BY <2>1 DEF LeftInDecimal
<1> HIDE DEF P
<1> QED BY <1>3, <1>4, <1>5, <1>6, <1>7

LEMMA WholeOn ==
  ASSUME NEW t, NEW l \in Nat, NEW q \in Places
  PROVE  /\ q <= l => (LeftInWhole(t, l, q) <=>
                         PartFrom(t, l, q) \/ (t[q] \in 48 .. 57 /\ LeftInWhole(t, l, q + 1)))
         /\ q = l + 1 => LeftInWhole(t, l, q)
<1>0. q \in Nat /\ q > 0 /\ (q + 1) - 1 = q
  BY DEF Places
<1> DEFINE P == {x \in Nat : PartFrom(t, l, x)}
<1>1. \A z \in q - 1 .. l : PartFrom(t, l, z + 1) <=> z + 1 \in P
  BY <1>0
<1>2. \A z \in q .. l : PartFrom(t, l, z + 1) <=> z + 1 \in P
  BY <1>0
<1>3. LeftInWhole(t, l, q) <=> \E z \in q - 1 .. l : DigitsIn(t, q, z) /\ z + 1 \in P
  BY <1>1 DEF LeftInWhole
<1>4. LeftInWhole(t, l, q + 1) <=> \E z \in q .. l : DigitsIn(t, q + 1, z) /\ z + 1 \in P
  BY <1>0, <1>2 DEF LeftInWhole
<1>5. q \in P <=> PartFrom(t, l, q)
  BY <1>0
<1>6. ASSUME q <= l
      PROVE  (\E z \in q - 1 .. l : DigitsIn(t, q, z) /\ z + 1 \in P)
             <=> q \in P \/ (t[q] \in 48 .. 57 /\ \E z \in q .. l : DigitsIn(t, q + 1, z)
             /\ z + 1 \in P)
  <2> HIDE DEF P
  <2> QED BY <1>6, RunOn
<1>7. ASSUME q = l + 1 PROVE LeftInWhole(t, l, q)
  <2>1. l \in q - 1 .. l /\ PartFrom(t, l, l + 1) /\ DigitsIn(t, q, l)
    BY <1>7 DEF PartFrom, PowerFrom, DigitsIn
  <2> QED BY <2>1 DEF LeftInWhole
<1> HIDE DEF P
<1> QED BY <1>3, <1>4, <1>5, <1>6, <1>7

\* Behind the text only the accepting states are done ...
LEMMA LeftAtEnd ==
  ASSUME NEW t, NEW l \in Nat, NEW from \in NumberStates
  PROVE  LeftOf(t, l, l + 1, from) <=> from \in Accepting
<1>0. PICK q \in Places : q = l + 1 /\ ~ q <= l
  BY DEF Places
<1>1. LeftInDecimal(t, l, q) /\ LeftInWhole(t, l, q)
  BY <1>0, DecimalOn, WholeOn
<1>2. PowerFrom(t, l, q) /\ PartFrom(t, l, q)
  BY <1>0 DEF PowerFrom, PartFrom
<1>3. DigitsIn(t, q, l) /\ ~SomeDigits(t, q, l)
  BY <1>0 DEF DigitsIn, SomeDigits
<1>4. ~LeftInExponent(t, l, q) /\ ~LeftUnsigned(t, l, q) /\ ~LeftBehindDot(t, l, q)
  BY <1>0, <1>3 DEF LeftInExponent, LeftUnsigned, LeftBehindDot
<1> QED BY <1>0, <1>1, <1>2, <1>3, <1>4 DEF LeftOf, NumberStates, Accepting

\* ... and before it what is left depends on the next state.
LEMMA LeftBefore ==
  ASSUME NEW t, NEW l \in Nat, NEW q \in Places, q <= l, NEW from \in NumberStates
  PROVE  LeftOf(t, l, q, from) <=> \E to \in NumberStates : NumberStep(from, t[q], to)
         /\ LeftOf(t, l, q + 1, to)
<1>0. PICK c : c = t[q]
  OBVIOUS
<1>1. PowerFrom(t, l, q) <=> c \in {69, 101} /\ LeftInExponent(t, l, q + 1)
  BY <1>0 DEF PowerFrom, Places
<1>2. LeftInExponent(t, l, q) <=> (c \in 48 .. 57 /\ DigitsIn(t, q + 1, l))
      \/ (c \in {43, 45} /\ SomeDigits(t, q + 1, l))
  BY <1>0, DigitsOn DEF LeftInExponent
<1>3. SomeDigits(t, q, l) <=> c \in 48 .. 57 /\ DigitsIn(t, q + 1, l)
  BY <1>0, DigitsOn
<1>4. DigitsIn(t, q, l) <=> c \in 48 .. 57 /\ DigitsIn(t, q + 1, l)
  BY <1>0, DigitsOn
<1>5. LeftInDecimal(t, l, q) <=> PowerFrom(t, l, q) \/ (c \in 48 .. 57
      /\ LeftInDecimal(t, l, q + 1))
  BY <1>0, DecimalOn
<1>6. LeftInWhole(t, l, q) <=> PartFrom(t, l, q) \/ (c \in 48 .. 57 /\ LeftInWhole(t, l, q + 1))
  BY <1>0, WholeOn
<1>7. LeftBehindDot(t, l, q) <=> c \in 48 .. 57 /\ LeftInDecimal(t, l, q + 1)
  BY <1>0 DEF LeftBehindDot
<1>8. PartFrom(t, l, q) <=> PowerFrom(t, l, q) \/ (c = 46 /\ LeftBehindDot(t, l, q + 1))
  BY <1>0 DEF PartFrom
<1>9. LeftUnsigned(t, l, q) <=> (c = 48 /\ PartFrom(t, l, q + 1))
      \/ (c \in 49 .. 57 /\ LeftInWhole(t, l, q + 1))
  BY <1>0 DEF LeftUnsigned
<1> DEFINE Goes == \E to \in NumberStates : NumberStep(from, c, to) /\ LeftOf(t, l, q + 1, to)
<1>10. CASE from = "any2"
  BY <1>0, <1>4, <1>10 DEF LeftOf, NumberStep, NumberStates
<1>11. CASE from = "sign"
  BY <1>0, <1>3, <1>11 DEF LeftOf, NumberStep, NumberStates
<1>12. CASE from = "exponent"
  BY <1>0, <1>2, <1>12 DEF LeftOf, NumberStep, NumberStates
<1>13. CASE from = "decimal2"
  BY <1>0, <1>1, <1>5, <1>13 DEF LeftOf, NumberStep, NumberStates
<1>14. CASE from = "decimal1"
  BY <1>0, <1>7, <1>14 DEF LeftOf, NumberStep, NumberStates
<1>15. CASE from = "any1"
  <2>1. c \in 48 .. 57 <=> c = 48 \/ c \in 49 .. 57
    OBVIOUS
  <2> QED BY <1>0, <1>1, <1>6, <1>8, <1>15, <2>1 DEF LeftOf, NumberStep, NumberStates
<1>16. CASE from = "zero"
  BY <1>0, <1>1, <1>8, <1>16 DEF LeftOf, NumberStep, NumberStates
<1>17. CASE from = "minus"
  BY <1>0, <1>9, <1>17 DEF LeftOf, NumberStep, NumberStates
<1>18. CASE from = "init"
  BY <1>0, <1>9, <1>18 DEF LeftOf, NumberStep, NumberStates
<1> QED BY <1>10, <1>11, <1>12, <1>13, <1>14, <1>15, <1>16, <1>17, <1>18 DEF NumberStates

\* scan_number reads to the end of the text if what is left in its state is
\* the rest of a number.
LEMMA NumberReadsAll ==
  ASSUME NEW t \in Seq(Bytes)
  PROVE  /\ NumberEnd(t, 1) \in 0 .. Len(t) + 1
         /\ NumberEnd(t, 1) = Len(t) + 1 <=> LeftOf(t, Len(t), 1, "init")
<1> DEFINE F == CHOOSE f : Ended(f, t)
<1>0. PICK l \in Nat : l = Len(t)
  OBVIOUS
<1>1. Ended(F, t)
  BY NumberEnds
<1>9. NumberEnd(t, 1) = F[1]["init"]
  BY DEF NumberEnd
<1> HIDE DEF F
<1>2. ASSUME NEW q \in Nat, NEW from \in NumberStates
      PROVE  F[q][from] = LET to == NumberNext(from, At(t, q))
                          IN IF to = "done" THEN q ELSE IF to = "error" THEN 0 ELSE F[q + 1][to]
  <2>1. F[q] = [c \in NumberStates |->
                  LET to == NumberNext(c, At(t, q))
                  IN IF to = "done" THEN q ELSE IF to = "error" THEN 0 ELSE F[q + 1][to]]
    BY <1>1 DEF Ended
  <2> QED BY <2>1
<1> DEFINE Good(q, from) == F[q][from] \in 0 .. l + 1 /\ (F[q][from] = l + 1
             <=> LeftOf(t, l, q, from))
           Fine(q) == \A from \in NumberStates : Good(q, from)
           G == {n \in Nat : \A q \in 1 .. l + 1 : n = l + 1 - q => Fine(q)}
<1>3. ASSUME NEW n \in Nat, \A k \in 0 .. n - 1 : k \in G PROVE n \in G
  <2> SUFFICES ASSUME NEW q \in 1 .. l + 1, n = l + 1 - q, NEW from \in NumberStates
               PROVE  F[q][from] \in 0 .. l + 1 /\ (F[q][from] = l + 1 <=> LeftOf(t, l, q, from))
    OBVIOUS
  <2>1. PICK c : c = At(t, q)
    OBVIOUS
  <2>2. PICK to : to = NumberNext(from, c)
    OBVIOUS
  <2>3. F[q][from] = IF to = "done" THEN q ELSE IF to = "error" THEN 0 ELSE F[q + 1][to]
    BY <1>2, <2>1, <2>2
  <2>4. (q > l => c = -1) /\ (q <= l => c = t[q])
    BY <1>0, <2>1, AtIs
  <2>5. CASE q = l + 1
    <3>1. c = -1
      BY <2>4, <2>5
    <3>2. \A x : ~NumberStep(from, c, x)
      BY <3>1 DEF NumberStep
    <3>3. to = IF from \in Accepting THEN "done" ELSE "error"
      BY <2>2, <3>2, NumberSteps
    <3>4. F[q][from] \in 0 .. l + 1 /\ (F[q][from] = l + 1 <=> from \in Accepting)
      BY <2>3, <2>5, <3>3
    <3>5. LeftOf(t, l, l + 1, from) <=> from \in Accepting
      BY LeftAtEnd
    <3> QED BY <2>5, <3>4, <3>5
  <2>6. CASE q <= l
    <3>1. q \in Places /\ c = t[q]
      BY <2>4, <2>6 DEF Places
    <3>2. PICK r \in 1 .. l + 1 : r = q + 1
      BY <2>6
    <3>3. PICK k \in 0 .. n - 1 : k = l + 1 - r
      BY <3>2
    <3>4. k \in G
      BY <1>3
    <3>5. Fine(r)
      BY <3>3, <3>4
    <3>6. LeftOf(t, l, q, from) <=> \E x \in NumberStates : NumberStep(from, c, x)
          /\ LeftOf(t, l, r, x)
      BY <2>6, <3>1, <3>2, LeftBefore
    <3>7. CASE \E x \in NumberStates : NumberStep(from, c, x)
      <4>1. PICK x \in NumberStates : NumberStep(from, c, x)
        BY <3>7
      <4>2. to = x
        BY <2>2, <4>1, NumberSteps
      <4>3. F[q][from] = F[r][x]
        BY <2>3, <3>2, <4>2, Unlike
      <4>4. LeftOf(t, l, q, from) <=> LeftOf(t, l, r, x)
        BY <3>6, <4>1, StepOnce
      <4>9. Good(r, x)
        <5> HIDE DEF Good
        <5> QED BY <3>5
      <4>5. F[r][x] \in 0 .. l + 1 /\ (F[r][x] = l + 1 <=> LeftOf(t, l, r, x))
        BY <4>9
      <4> QED BY <4>3, <4>4, <4>5
    <3>8. CASE ~\E x \in NumberStates : NumberStep(from, c, x)
      <4>1. \A x : NumberStep(from, c, x) => x \in NumberStates
        BY DEF NumberStep, NumberStates
      <4>2. \A x : ~NumberStep(from, c, x)
        BY <3>8, <4>1
      <4>3. to = "done" \/ to = "error"
        BY <2>2, <4>2, NumberSteps
      <4>4. F[q][from] \in 0 .. l + 1 /\ F[q][from] # l + 1
        BY <2>3, <2>6, <4>3
      <4> QED BY <3>6, <3>8, <4>4
    <3> QED BY <3>7, <3>8
  <2> QED BY <2>5, <2>6
<1>4. \A n \in Nat : n \in G
  <2> HIDE DEF G
  <2> QED BY <1>3, Induction
<1>5. Fine(1)
  <2>1. l \in G
    BY <1>4
  <2>2. 1 \in 1 .. l + 1 /\ l = l + 1 - 1
    OBVIOUS
  <2> HIDE DEF Fine
  <2> QED BY <2>1, <2>2
<1>6. "init" \in NumberStates
  BY DEF NumberStates
<1>7. Good(1, "init")
  <2> HIDE DEF Good
  <2> QED BY <1>5, <1>6
<1> QED BY <1>0, <1>7, <1>9

\* The parts of the grammar's rule.
Signed(t)        == IF t[1] = 45 THEN 2 ELSE 1
WholeIs(t, a, z) == SomeDigits(t, a, z) /\ (t[a] = 48 => a = z)
PartIs(t, a, z)  == a > z \/ (t[a] = 46 /\ SomeDigits(t, a + 1, z))
PowerIs(t, a, z) == \/ a > z
                    \/ /\ t[a] \in {69, 101}
                       /\ \/ SomeDigits(t, a + 1, z)
                          \/ a < z /\ t[a + 1] \in {43, 45} /\ SomeDigits(t, a + 2, z)

LEMMA NumberRule ==
  ASSUME NEW t
  PROVE  IsNumber(t) <=> \E a \in 1 .. Len(t) : \E z \in a .. Len(t) :
           WholeIs(t, Signed(t), a) /\ PartIs(t, a + 1, z) /\ PowerIs(t, z + 1, Len(t))
<1>1. Digit = 48 .. 57 /\ Minus = 45 /\ Dot = 46 /\ Exp = {69, 101} /\ Sign = {43, 45}
  BY DEF Digit, Minus, Dot, Exp, Sign
<1> DEFINE Some(a, z)  == a <= z /\ \A k \in a .. z : t[k] \in Digit
           Whole(a, z) == Some(a, z) /\ (t[a] = 48 => a = z)
           Power(a, z) == \/ a > z
                          \/ t[a] \in Exp /\ (Some(a + 1, z)
                             \/ (a < z /\ t[a + 1] \in Sign /\ Some(a + 2, z)))
           Part(a, z)  == a > z \/ (t[a] = Dot /\ Some(a + 1, z))
           first       == IF t[1] = Minus THEN 2 ELSE 1
<1>2. IsNumber(t) <=> \E a \in 1 .. Len(t) : \E z \in a .. Len(t) :
                        Whole(first, a) /\ Part(a + 1, z) /\ Power(z + 1, Len(t))
  BY Zenon DEF IsNumber
<1>3. first = Signed(t)
  BY <1>1 DEF Signed
<1>4. ASSUME NEW a, NEW z PROVE Some(a, z) <=> SomeDigits(t, a, z)
  BY <1>1 DEF SomeDigits, DigitsIn
<1> HIDE DEF Some
<1>5. ASSUME NEW a, NEW z PROVE (Whole(a, z) <=> WholeIs(t, a, z))
             /\ (Part(a, z) <=> PartIs(t, a, z))
  BY <1>1, <1>4 DEF WholeIs, PartIs
<1>6. ASSUME NEW a, NEW z PROVE Power(a, z) <=> PowerIs(t, a, z)
  BY <1>1, <1>4 DEF PowerIs
<1> HIDE DEF Whole, Part, Power, first
<1> QED BY <1>2, <1>3, <1>5, <1>6

LEMMA PowerRule ==
  ASSUME NEW t, NEW l \in Nat, NEW a \in Nat
  PROVE  PowerIs(t, a, l) <=> PowerFrom(t, l, a)
<1>1. PICK b \in Nat : b = a + 1 /\ b + 1 = a + 2 /\ (a < l <=> b <= l)
  OBVIOUS
<1>2. LeftInExponent(t, l, b) <=> SomeDigits(t, b, l) \/ (a < l /\ t[b] \in {43, 45}
      /\ SomeDigits(t, a + 2, l))
  BY <1>1 DEF LeftInExponent
<1>3. PowerFrom(t, l, a) <=> a > l \/ (t[a] \in {69, 101} /\ LeftInExponent(t, l, b))
  BY <1>1 DEF PowerFrom
<1>4. PowerIs(t, a, l) <=>
        a > l \/ (t[a] \in {69, 101} /\ (SomeDigits(t, b, l)
        \/ (a < l /\ t[b] \in {43, 45} /\ SomeDigits(t, a + 2, l))))
  BY <1>1 DEF PowerIs
<1> QED BY <1>2, <1>3, <1>4

LEMMA PartRule ==
  ASSUME NEW t, NEW l \in Nat, NEW a \in 1 .. l
  PROVE  (\E z \in a .. l : PartIs(t, a + 1, z) /\ PowerIs(t, z + 1, l)) <=> PartFrom(t, l, a + 1)
<1>1. (a + 1) + 1 = a + 2 /\ (a + 2) + 1 = a + 3 /\ (a + 3) - 1 = a + 2
  OBVIOUS
<1>2. \A z \in a .. l : PowerIs(t, z + 1, l) <=> PowerFrom(t, l, z + 1)
  BY PowerRule
<1>3. LeftBehindDot(t, l, a + 2) <=> \E z \in a + 2 .. l : SomeDigits(t, a + 2, z)
      /\ PowerFrom(t, l, z + 1)
  <2>1. a + 2 \in Places
    BY DEF Places
  <2>2. \A z \in a + 2 .. l : DigitsIn(t, a + 2, z) <=> t[a + 2] \in 48 .. 57
        /\ DigitsIn(t, a + 3, z)
    BY <1>1, <2>1, DigitsOn
  <2>3. LeftInDecimal(t, l, a + 3) <=> \E z \in a + 2 .. l : DigitsIn(t, a + 3, z)
        /\ PowerFrom(t, l, z + 1)
    BY <1>1 DEF LeftInDecimal
  <2>4. \A z \in a + 2 .. l : SomeDigits(t, a + 2, z) <=> t[a + 2] \in 48 .. 57
        /\ DigitsIn(t, a + 3, z)
    BY <2>2 DEF SomeDigits
  <2>5. LeftBehindDot(t, l, a + 2) <=> a + 2 <= l /\ t[a + 2] \in 48 .. 57
        /\ LeftInDecimal(t, l, a + 3)
    BY <1>1 DEF LeftBehindDot
  <2>6. (\E z \in a + 2 .. l : TRUE) => a + 2 <= l
    OBVIOUS
  <2> QED BY <2>3, <2>4, <2>5, <2>6
<1>4. \A z \in a .. l : PartIs(t, a + 1, z) <=> z = a \/ (t[a + 1] = 46 /\ SomeDigits(t, a + 2, z))
  BY <1>1 DEF PartIs
<1>5. \A z \in a .. l : SomeDigits(t, a + 2, z) => z \in a + 2 .. l
  BY DEF SomeDigits
<1>6. PartFrom(t, l, a + 1) <=> PowerFrom(t, l, a + 1) \/ (a + 1 <= l /\ t[a + 1] = 46
      /\ LeftBehindDot(t, l, a + 2))
  BY <1>1 DEF PartFrom
<1>7. a \in a .. l /\ (\A z \in a + 2 .. l : z \in a .. l /\ a + 1 <= l)
  OBVIOUS
<1> QED BY <1>2, <1>3, <1>4, <1>5, <1>6, <1>7

LEMMA WholeRule ==
  ASSUME NEW t, NEW l \in Nat, NEW f \in Places
  PROVE  (\E a \in 1 .. l : WholeIs(t, f, a) /\ PartFrom(t, l, a + 1)) <=> LeftUnsigned(t, l, f)
<1>0. f \in Nat /\ f > 0 /\ (f + 1) - 1 = f
  BY DEF Places
<1>1. \A a \in f .. l : DigitsIn(t, f, a) <=> t[f] \in 48 .. 57 /\ DigitsIn(t, f + 1, a)
  BY DigitsOn
<1>2. \A a \in 1 .. l : WholeIs(t, f, a) <=> a \in f .. l /\ t[f] \in 48 .. 57
      /\ DigitsIn(t, f + 1, a) /\ (t[f] = 48 => a = f)
  BY <1>0, <1>1 DEF WholeIs, SomeDigits
<1>3. DigitsIn(t, f + 1, f)
  BY <1>0 DEF DigitsIn
<1>4. \A a \in f .. l : a \in 1 .. l /\ f <= l
  BY <1>0
<1>5. LeftInWhole(t, l, f + 1) <=> \E a \in f .. l : DigitsIn(t, f + 1, a) /\ PartFrom(t, l, a + 1)
  BY <1>0 DEF LeftInWhole
<1>6. t[f] \in 48 .. 57 <=> t[f] = 48 \/ t[f] \in 49 .. 57
  OBVIOUS
<1>7. f <= l => f \in f .. l
  BY <1>0
<1>8. t[f] \in 49 .. 57 => t[f] # 48
  OBVIOUS
<1> QED BY <1>2, <1>3, <1>4, <1>5, <1>6, <1>7, <1>8 DEF LeftUnsigned

LEMMA NumberIsLeft ==
  ASSUME NEW t \in Seq(Bytes), t # <<>>
  PROVE  IsNumber(t) <=> LeftOf(t, Len(t), 1, "init")
<1>1. PICK l \in Nat : l = Len(t) /\ 1 <= l
  OBVIOUS
<1>2. PICK f \in Places : f = Signed(t)
  BY DEF Signed, Places
<1>3. \A a \in 1 .. l : (\E z \in a .. l : PartIs(t, a + 1, z) /\ PowerIs(t, z + 1, l))
        <=> PartFrom(t, l, a + 1)
  BY PartRule
<1>4. IsNumber(t) <=> \E a \in 1 .. l : WholeIs(t, f, a) /\ PartFrom(t, l, a + 1)
  <2>1. IsNumber(t) <=> \E a \in 1 .. l : \E z \in a .. l :
           WholeIs(t, f, a) /\ PartIs(t, a + 1, z) /\ PowerIs(t, z + 1, l)
    BY <1>1, <1>2, NumberRule
  <2> QED BY <1>3, <2>1
<1>5. IsNumber(t) <=> LeftUnsigned(t, l, f)
  BY <1>4, WholeRule
<1>6. t[1] = 45 => ~LeftUnsigned(t, l, 1)
  BY DEF LeftUnsigned
<1> QED BY <1>1, <1>2, <1>5, <1>6 DEF LeftOf, Signed

-----------------------------------------------------------------------------
(* Texts that are one number, or not. *)

NumberText(t) == t \in Seq(Bytes) /\ t # <<>> /\ ToSet(t) \subseteq NumberBytes

LEMMA NumberBytesIs ==
  ASSUME NEW c \in NumberBytes
  PROVE  /\ c \in Bytes /\ c \notin Space /\ c \notin {0, EOF} /\ c # 239 /\ c # Quote
         /\ \A s \in Structure : s[1] # c
         /\ c # 116 /\ c # 102 /\ c # 110
BY SMTT(60) DEF NumberBytes, Digit, Sign, Exp, Dot, Bytes, Space, EOF, Quote, Structure

LEMMA NumberByteAt ==
  ASSUME NEW t, NumberText(t), NEW q \in 1 .. Len(t)
  PROVE  At(t, q) = t[q] /\ t[q] \in NumberBytes
<1>1. t \in Seq(Bytes) /\ ToSet(t) \subseteq NumberBytes
  BY DEF NumberText
<1>2. t[q] \in ToSet(t)
  BY <1>1 DEF ToSet
<1>3. q \in Nat /\ q <= Len(t)
  BY <1>1
<1>4. At(t, q) = t[q]
  BY <1>1, <1>3, AtIs
<1> QED BY <1>1, <1>2, <1>4

\* The token that begins with a byte of a number.
LEMMA NumberTokenAt ==
  ASSUME NEW t, NumberText(t), NEW q \in 1 .. Len(t)
  PROVE  Scan(t, q) = IF t[q] \in Digit \cup {Minus} THEN ScanNumber(t, q) ELSE Error(q)
<1>0. PICK l \in Nat : l = Len(t)
  BY DEF NumberText
<1>1. PICK c \in NumberBytes : c = t[q] /\ c = At(t, q)
  BY NumberByteAt
<1>2. q \in Nat \ {0} /\ q <= l
  BY <1>0
<1>3. Begin(t, q) = q
  <2>1. CASE q > 1
    BY <2>1 DEF Begin
  <2>2. CASE ~ q > 1
    <3>1. q = 1
      BY <1>2, <2>2
    <3>2. At(t, 1) # 239
      BY <1>1, <3>1, NumberBytesIs
    <3> QED BY <3>1, <3>2 DEF Begin, SkipBom
  <2> QED BY <2>1, <2>2
<1>4. PICK s : s = SkipWhitespace(t, q)
  OBVIOUS
<1>5. s = q
  <2>1. s \in q .. q + l /\ \A r \in q .. s - 1 : At(t, r) \in Space
    BY <1>0, <1>2, <1>4, WhitespaceEnds DEF IsSkipped
  <2>2. At(t, q) \notin Space
    BY <1>1, NumberBytesIs
  <2>3. q \notin q .. s - 1
    BY <2>1, <2>2
  <2> QED BY <1>2, <2>1, <2>3
<1>6. Scan(t, q) = TokenAt(t, q)
  BY <1>0, <1>2, <1>3, <1>4, <1>5, ScanIs
<1>7. ASSUME NEW w \in Literals PROVE ~IsLiteral(t, q, w[1])
  <2>1. PICK word : word = w[1]
    OBVIOUS
  <2>2. 1 \in 1 .. Len(word) /\ word[1] \in {116, 102, 110}
    <3>1. /\ Len(<<116, 114, 117, 101>>) = 4 /\ Len(<<102, 97, 108, 115, 101>>) = 5
          /\ Len(<<110, 117, 108, 108>>) = 4
      OBVIOUS
    <3> QED BY <2>1, <3>1 DEF Literals
  <2>3. q + 1 - 1 = q
    BY <1>2
  <2>4. At(t, q + 1 - 1) # word[1]
    BY <1>1, <2>2, <2>3, NumberBytesIs
  <2>5. ~IsLiteral(t, q, word)
    BY <2>2, <2>4 DEF IsLiteral
  <2> QED BY <2>1, <2>5
<1>8. c \notin {0, EOF} /\ c # Quote /\ \A x \in Structure : x[1] # c
  BY NumberBytesIs
<1>9. TokenAt(t, q) = IF c \in Digit \cup {Minus} THEN ScanNumber(t, q) ELSE Error(q)
  BY <1>1, <1>7, <1>8 DEF TokenAt
<1> QED BY <1>1, <1>6, <1>9

\* A text that the lexer refuses at once is no value ...
LEMMA RefusedAtOnce ==
  ASSUME NEW t \in Seq(Bytes), Scan(t, 1).type = "parse_error"
  PROVE  ~IsValue(TokenTypes(t))
<1>1. PICK k : k = Scan(t, 1)
  OBVIOUS
<1>2. PICK ts : ts = TokenTypes(t)
  OBVIOUS
<1>3. Nth(Tokens(t), k, 1) /\ 1 \in Places
  BY <1>1, TokensAre DEF IsLexed, Places
<1>4. TypeAt(ts, 1, "parse_error")
  BY <1>1, <1>2, <1>3, TokenHere
<1>5. Len(ts) \in Nat
  BY <1>2, TypesAre
<1>6. ts[1] = "parse_error"
  BY <1>4 DEF TypeAt
<1>7. ts[1] \notin Scalars \cup {"begin_object", "begin_array"}
  BY <1>6 DEF Scalars
<1>8. Ends(ts)[1]["value"] = {}
  BY <1>3, <1>5, <1>7, NoValueHere
<1> QED BY <1>2, <1>8, IsGrammar

\* ... and one that begins with a scalar is a value if nothing follows.
LEMMA ScalarFirst ==
  ASSUME NEW t \in Seq(Bytes), Scan(t, 1).type \in Scalars
  PROVE  IsValue(TokenTypes(t)) <=> Scan(t, Scan(t, 1).next).type = "end_of_input"
<1>1. PICK k : k = Scan(t, 1)
  OBVIOUS
<1>2. PICK ts : ts = TokenTypes(t)
  OBVIOUS
<1>3. Nth(Tokens(t), k, 1) /\ 1 \in Places /\ 2 \in Places
  BY <1>1, TokensAre DEF IsLexed, Places
<1>4. k.type # "parse_error" /\ k.type # "end_of_input"
  BY <1>1 DEF Scalars
<1>5. TypeAt(ts, 1, k.type)
  BY <1>2, <1>3, TokenHere
<1>6. PICK l \in Nat : l = Len(ts)
  BY <1>2, TypesAre
<1>7. 1 <= l /\ ts[1] \in Scalars
  BY <1>1, <1>4, <1>5, <1>6 DEF TypeAt
<1>8. Ends(ts)[1]["value"] = {1}
  <2>1. ~ 1 > l
    BY <1>7
  <2> QED BY <1>3, <1>6, <1>7, <2>1, ValueIs DEF ValueEnds
<1>9. IsValue(ts) <=> l = 1
  BY <1>6, <1>8, IsGrammar
<1>10. PICK x : x = Scan(t, k.next)
  OBVIOUS
<1>11. Nth(Tokens(t), x, 2)
  <2>1. Nth(Tokens(t), Scan(t, k.next), 1 + 1)
    BY <1>3, <1>4, NextToken
  <2> QED BY <1>10, <2>1
<1>12. TypeAt(ts, 2, x.type)
  BY <1>2, <1>3, <1>11, TokenHere
<1>13. x.type = "end_of_input" <=> l = 1
  BY <1>6, <1>7, <1>12 DEF TypeAt
<1> QED BY <1>1, <1>2, <1>9, <1>10, <1>13

\* A text of the bytes of numbers is a value if it is a number.
LEMMA NumbersAreValues ==
  ASSUME NEW t, NumberText(t)
  PROVE  IsNumber(t) <=> IsValue(TokenTypes(t))
<1>0. t \in Seq(Bytes) /\ t # <<>>
  BY DEF NumberText
<1>1. PICK l \in Nat : l = Len(t) /\ 1 \in 1 .. l
  BY <1>0
<1>2. PICK n \in 0 .. l + 1 : n = NumberEnd(t, 1)
  BY <1>0, <1>1, NumberReadsAll
<1>3. IsNumber(t) <=> n = l + 1
  BY <1>0, <1>1, <1>2, NumberReadsAll, NumberIsLeft
<1>4. n = 0 \/ n > 1
  BY <1>0, <1>1, <1>2, NumberEndIs
<1>5. PICK k : k = Scan(t, 1)
  OBVIOUS
<1>6. k = IF t[1] \in Digit \cup {Minus} THEN ScanNumber(t, 1) ELSE Error(1)
  BY <1>1, <1>5, NumberTokenAt
<1>7. Error(1).type = "parse_error"
  BY DEF Error, Token
<1>8. CASE t[1] \notin Digit \cup {Minus}
  <2>1. ~LeftOf(t, l, 1, "init")
    BY <1>8 DEF LeftOf, LeftUnsigned, Digit, Minus
  <2>2. ~IsNumber(t)
    BY <1>0, <1>1, <2>1, NumberIsLeft
  <2>3. ~IsValue(TokenTypes(t))
    BY <1>0, <1>5, <1>6, <1>7, <1>8, RefusedAtOnce
  <2> QED BY <2>2, <2>3
<1>9. CASE t[1] \in Digit \cup {Minus} /\ n = 0
  <2>1. k = Error(1)
    BY <1>2, <1>6, <1>9, ScanNumberIs
  <2>2. ~IsValue(TokenTypes(t))
    BY <1>0, <1>5, <1>7, <2>1, RefusedAtOnce
  <2> QED BY <1>3, <1>9, <2>2
<1>10. CASE t[1] \in Digit \cup {Minus} /\ n # 0
  <2>1. k.type \in {"value_float", "value_unsigned", "value_integer"} /\ k.next = n
    <3>1. k = ScanNumber(t, 1)
      BY <1>6, <1>10
    <3> QED BY <1>2, <1>10, <3>1, ScanNumberIs
  <2>2. k.type \in Scalars
    BY <2>1 DEF Scalars
  <2>3. IsValue(TokenTypes(t)) <=> Scan(t, n).type = "end_of_input"
    BY <1>0, <1>5, <2>1, <2>2, ScalarFirst
  <2>4. CASE n = l + 1
    <3>1. n \in Places /\ n > l
      BY <2>4 DEF Places
    <3>2. Scan(t, n).type = "end_of_input"
      BY <1>1, <3>1, ScanBehind
    <3> QED BY <1>3, <2>3, <2>4, <3>2
  <2>5. CASE n # l + 1
    <3>1. n \in 1 .. l
      BY <1>4, <1>10, <2>5
    <3>2. PICK x : x = Scan(t, n)
      OBVIOUS
    <3>3. x = IF t[n] \in Digit \cup {Minus} THEN ScanNumber(t, n) ELSE Error(n)
      BY <1>1, <3>1, <3>2, NumberTokenAt
    <3>4. Error(n).type = "parse_error"
      BY DEF Error, Token
    <3>5. PICK y : y = ScanNumber(t, n)
      OBVIOUS
    <3>6. y = Error(n) \/ y.type \in {"value_float", "value_unsigned", "value_integer"}
      BY <3>5, ScanNumberIs
    <3>7. x.type # "end_of_input"
      BY <3>3, <3>4, <3>5, <3>6
    <3> QED BY <1>3, <2>3, <2>5, <3>2, <3>7
  <2> QED BY <2>4, <2>5
<1> QED BY <1>8, <1>9, <1>10

\* json::parse accepts the texts that the grammar of JSON derives, and those
\* only (sax_parse_internal, json.hpp:12348; the table of scan_number,
\* json.hpp:8341), of any length and nested to any depth.
THEOREM AcceptsCorrect == Spec => []AcceptsJson
<1>1. ScannedInv /\ AcceptInv => AcceptsJson
  <2> SUFFICES ASSUME ScannedInv, AcceptInv PROVE AcceptsJson
    OBVIOUS
  <2>1. text \in Seq(Bytes)
    BY DEF ScannedInv
  <2>2. IsJson <=> IsValue(TokenTypes(text))
    BY <2>1, NumbersAreValues DEF IsJson, NumberText
  <2>3. /\ verdict = "accepted" => IsValue(TokenTypes(text))
        /\ verdict = "parse_error" => ~IsValue(TokenTypes(text))
    BY DEF AcceptInv
  <2> QED BY <2>2, <2>3 DEF AcceptsJson
<1> QED BY <1>1, AcceptInvariant, PTL

-----------------------------------------------------------------------------
(* What dump writes of a string: it is read back, piece by piece. *)

\* The bytes e lie in the text t from p on.
LiesAt(e, t, p) == \A j \in 1 .. Len(e) : At(t, p + j - 1) = e[j]

\* In the text t the loop of scan_string goes from p to q, and appends r.
ReadTo(t, p, q, r) ==
  \A f : Scanned(f, t) => \A acc \in Seq(Bytes) : f[Unit(acc, p)] = f[Unit(acc \o r, q)]

\* Wherever the bytes e lie in a string, the string r is read from them.
Encodes(e, r) ==
  /\ e \in Seq(Bytes) /\ r \in Seq(Bytes)
  /\ \A t \in Seq(Bytes) : \A p \in Places : LiesAt(e, t, p) => ReadTo(t, p, p + Len(e), r)

LEMMA EncodesNothing == Encodes(<<>>, <<>>)
<1>1. <<>> \in Seq(Bytes) /\ Len(<<>>) = 0
  OBVIOUS
<1>2. ASSUME NEW t \in Seq(Bytes), NEW p \in Places
      PROVE  ReadTo(t, p, p + Len(<<>>), <<>>)
  <2>1. p + Len(<<>>) = p
    BY DEF Places
  <2>2. \A acc \in Seq(Bytes) : acc \o <<>> = acc
    OBVIOUS
  <2> QED BY <2>1, <2>2 DEF ReadTo
<1> QED BY <1>1, <1>2 DEF Encodes

\* Where e and f lie, e lies, and f behind it.
LEMMA LiesBoth ==
  ASSUME NEW e \in Seq(Bytes), NEW f \in Seq(Bytes), NEW t, NEW p \in Places, LiesAt(e \o f, t, p)
  PROVE  LiesAt(e, t, p) /\ LiesAt(f, t, p + Len(e)) /\ p + Len(e) \in Places
<1>1. /\ Len(e) \in Nat /\ Len(f) \in Nat /\ Len(e \o f) = Len(e) + Len(f)
      /\ \A k \in 1 .. Len(e) : (e \o f)[k] = e[k]
      /\ \A k \in 1 .. Len(f) : (e \o f)[Len(e) + k] = f[k]
  BY ConcatOf
<1>2. LiesAt(e, t, p)
  BY <1>1 DEF LiesAt
<1>3. ASSUME NEW k \in 1 .. Len(f) PROVE At(t, p + Len(e) + k - 1) = f[k]
  <2>1. Len(e) + k \in 1 .. Len(e \o f)
    BY <1>1
  <2>2. At(t, p + (Len(e) + k) - 1) = (e \o f)[Len(e) + k]
    BY <2>1 DEF LiesAt
  <2>3. p + (Len(e) + k) - 1 = p + Len(e) + k - 1
    BY <1>1 DEF Places
  <2> QED BY <1>1, <2>2, <2>3
<1>4. LiesAt(f, t, p + Len(e))
  BY <1>3 DEF LiesAt
<1> QED BY <1>1, <1>2, <1>4 DEF Places

\* What is written of two strings is read as both.
LEMMA EncodesBoth ==
  ASSUME NEW e, NEW r, NEW f, NEW s, Encodes(e, r), Encodes(f, s)
  PROVE  Encodes(e \o f, r \o s)
<1>1. e \in Seq(Bytes) /\ r \in Seq(Bytes) /\ f \in Seq(Bytes) /\ s \in Seq(Bytes)
  BY DEF Encodes
<1>2. /\ e \o f \in Seq(Bytes) /\ r \o s \in Seq(Bytes) /\ Len(e \o f) = Len(e) + Len(f)
      /\ Len(e) \in Nat /\ Len(f) \in Nat
  BY <1>1, ConcatOf
<1>3. ASSUME NEW t \in Seq(Bytes), NEW p \in Places, LiesAt(e \o f, t, p)
      PROVE  ReadTo(t, p, p + Len(e \o f), r \o s)
  <2>1. LiesAt(e, t, p) /\ LiesAt(f, t, p + Len(e)) /\ p + Len(e) \in Places
    BY <1>1, <1>3, LiesBoth
  <2>2. ReadTo(t, p, p + Len(e), r)
    BY <2>1 DEF Encodes
  <2>3. ReadTo(t, p + Len(e), (p + Len(e)) + Len(f), s)
    BY <2>1 DEF Encodes
  <2>4. (p + Len(e)) + Len(f) = p + Len(e \o f)
    BY <1>2 DEF Places
  <2>5. ASSUME NEW g, Scanned(g, t), NEW acc \in Seq(Bytes)
        PROVE  g[Unit(acc, p)] = g[Unit(acc \o (r \o s), p + Len(e \o f))]
    <3>1. acc \o r \in Seq(Bytes) /\ (acc \o r) \o s = acc \o (r \o s)
      BY <1>1, SMTT(30)
    <3>2. g[Unit(acc, p)] = g[Unit(acc \o r, p + Len(e))]
      BY <2>2, <2>5 DEF ReadTo
    <3>3. g[Unit(acc \o r, p + Len(e))] = g[Unit((acc \o r) \o s, (p + Len(e)) + Len(f))]
      BY <2>3, <2>5, <3>1 DEF ReadTo
    <3> QED BY <2>4, <3>1, <3>2, <3>3
  <2> QED BY <2>5 DEF ReadTo
<1> QED BY <1>2, <1>3 DEF Encodes

\* Wherever the bytes e lie, a turn of the loop reads them and appends b.
IsUnitOf(e, b) ==
  \A t \in Seq(Bytes) : \A p \in Places :
    LiesAt(e, t, p) => UnitAt(t, p) = Unit(b, p + Len(e)) /\ At(t, p) # Quote

\* Units joined.
LEMMA ExtendedUnit ==
  ASSUME NEW a, NEW p, NEW b, NEW q
  PROVE  Extended(Unit(a, p), Unit(b, q)) = Unit(a \o b, q)
<1>1. PICK x, u : x = Unit(a, p) /\ u = Unit(b, q)
  OBVIOUS
<1>2. PICK y : y = Extended(x, u)
  OBVIOUS
<1>3. x.bytes = a
  BY <1>1 DEF Unit
<1>4. y = [ok |-> TRUE, bytes |-> a \o b, next |-> q]
  BY <1>1, <1>2, <1>3 DEF Extended, Unit
<1> QED BY <1>1, <1>2, <1>4 DEF Unit

\* A unit alone is read as it should be.
LEMMA UnitEncodes ==
  ASSUME NEW e \in Seq(Bytes), NEW b \in Seq(Bytes), IsUnitOf(e, b)
  PROVE  Encodes(e, b)
<1>1. ASSUME NEW t \in Seq(Bytes), NEW p \in Places, LiesAt(e, t, p)
      PROVE  ReadTo(t, p, p + Len(e), b)
  <2>1. UnitAt(t, p) = Unit(b, p + Len(e)) /\ At(t, p) # Quote
    BY <1>1 DEF IsUnitOf
  <2>2. ASSUME NEW g, Scanned(g, t), NEW acc \in Seq(Bytes)
        PROVE  g[Unit(acc, p)] = g[Unit(acc \o b, p + Len(e))]
    <3>1. PICK x : x = Unit(acc, p)
      OBVIOUS
    <3>2. x.ok /\ x.next = p /\ x.bytes = acc
      BY <3>1 DEF Unit
    <3>3. x \in Reading
      BY <3>1, ReadingFields DEF Unit, Reading, Places
    <3>4. g[x] = IF ~x.ok THEN Error(x.next)
                 ELSE IF At(t, x.next) = Quote THEN StringToken(x.bytes, x.next + 1)
                 ELSE g[Extended(x, UnitAt(t, x.next))]
      BY <2>2, <3>3 DEF Scanned
    <3>5. g[x] = g[Extended(x, UnitAt(t, p))]
      BY <2>1, <3>2, <3>4
    <3>6. Extended(x, UnitAt(t, p)) = Unit(acc \o b, p + Len(e))
      BY <2>1, <3>1, ExtendedUnit
    <3> QED BY <3>1, <3>5, <3>6
  <2> QED BY <2>2 DEF ReadTo
<1> QED BY <1>1 DEF Encodes

\* A printable ASCII character stands for itself.
LEMMA AsciiUnit ==
  ASSUME NEW b \in Bytes, b \in 32 .. 127, b # Quote, b # Backslash
  PROVE  <<b>> \in Seq(Bytes) /\ IsUnitOf(<<b>>, <<b>>)
<1>1. <<b>> \in Seq(Bytes) /\ Len(<<b>>) = 1 /\ <<b>>[1] = b
  BY ListOf
<1>2. ASSUME NEW t \in Seq(Bytes), NEW p \in Places, LiesAt(<<b>>, t, p)
      PROVE  UnitAt(t, p) = Unit(<<b>>, p + Len(<<b>>)) /\ At(t, p) # Quote
  <2>1. p + 1 - 1 = p
    BY DEF Places
  <2>2. At(t, p) = b
    BY <1>1, <1>2, <2>1 DEF LiesAt
  <2> QED BY <1>1, <2>2 DEF UnitAt
<1> QED BY <1>1, <1>2 DEF IsUnitOf

\* What the two tables of escapes say.
LEMMA EscapesBack ==
  ASSUME NEW e \in ShortEscapes
  PROVE  /\ <<e[2], e[1]>> \in Escapes
         /\ \A x \in Escapes : x[1] = e[2] => x[2] = e[1]
         /\ e[2] # 117 /\ e[1] \in Bytes /\ e[2] \in Bytes
BY DEF ShortEscapes, Escapes, Quote, Backslash, Bytes

\* A short escape is read as the character that it escapes.
LEMMA ShortUnit ==
  ASSUME NEW cp, HasShortEscape(cp)
  PROVE  /\ ShortEscape(cp) \in Seq(Bytes) /\ <<cp>> \in Seq(Bytes)
         /\ IsUnitOf(ShortEscape(cp), <<cp>>)
<1>1. PICK e \in ShortEscapes : e[1] = cp /\ ShortEscape(cp) = <<Backslash, e[2]>>
  BY DEF HasShortEscape, ShortEscape
<1>2. /\ <<e[2], e[1]>> \in Escapes
      /\ \A x \in Escapes : x[1] = e[2] => x[2] = e[1]
      /\ e[2] # 117 /\ e[1] \in Bytes /\ e[2] \in Bytes
  BY EscapesBack
<1>3. PICK c \in Bytes, b \in Bytes : c = e[2] /\ b = e[1]
  BY <1>2
<1>4. Backslash \in Bytes
  BY DEF Backslash, Bytes
<1>5. /\ <<Backslash, c>> \in Seq(Bytes) /\ Len(<<Backslash, c>>) = 2 /\ <<b>> \in Seq(Bytes)
      /\ <<Backslash, c>>[1] = Backslash /\ <<Backslash, c>>[2] = c
  BY <1>4, ListOf
<1>6. ASSUME NEW t \in Seq(Bytes), NEW p \in Places, LiesAt(<<Backslash, c>>, t, p)
      PROVE  UnitAt(t, p) = Unit(<<b>>, p + 2) /\ At(t, p) # Quote
  <2>1. p + 1 - 1 = p /\ p + 2 - 1 = p + 1 /\ (p + 1) + 1 = p + 2
    BY DEF Places
  <2>2. At(t, p) = Backslash /\ At(t, p + 1) = c
    BY <1>5, <1>6, <2>1 DEF LiesAt
  <2>3. Escape(t, p + 1) = Unit(<<b>>, (p + 1) + 1)
    <3>1. c # 117 /\ \E x \in Escapes : x[1] = c
      BY <1>2, <1>3
    <3>2. (CHOOSE x \in Escapes : x[1] = c)[2] = b
      BY <1>2, <1>3, <3>1
    <3> QED BY <2>2, <3>1, <3>2 DEF Escape
  <2>4. UnitAt(t, p) = Unit(<<b>>, p + 2)
    BY <2>1, <2>2, <2>3 DEF UnitAt
  <2> QED BY <2>2, <2>4 DEF Quote, Backslash
<1>7. IsUnitOf(<<Backslash, c>>, <<b>>)
  BY <1>5, <1>6 DEF IsUnitOf
<1> QED BY <1>1, <1>3, <1>5, <1>7

\* next_byte_in_range lets the bytes of a scalar value pass.
TailsWide(f) ==
  /\ Len(Tails(f)) = Width(f) - 1 /\ Len(Tails(f)) \in 1 .. 3
  /\ \A b : Second(f, b) => b \in Tails(f)[1]
  /\ \A k \in 2 .. Len(Tails(f)) : Tails(f)[k] = 128 .. 191

\* The ranges in scan_string are those of the standard.
LEMMA TailsOneWide ==
  ASSUME NEW f, NEW n \in 1 .. 3, NEW S, NEW ts,
         ts = IF n = 1 THEN <<S>> ELSE IF n = 2 THEN <<S, AnyTail>> ELSE <<S, AnyTail, AnyTail>>,
         Tails(f) = ts, Width(f) = n + 1, \A b : Second(f, b) => b \in S
  PROVE  TailsWide(f)
<1>1. Len(ts) = n
  OBVIOUS
<1>2. ts[1] = S
  OBVIOUS
<1>3. \A k \in 2 .. n : ts[k] = AnyTail
  OBVIOUS
<1> QED BY <1>1, <1>2, <1>3 DEF TailsWide, AnyTail

\* So they are for every first byte of more than one.
LEMMA TailsAllow == ASSUME NEW f, f \in 194 .. 244 PROVE TailsWide(f)
<1>1. 1 \in 1 .. 3 /\ 2 \in 1 .. 3 /\ 3 \in 1 .. 3
  OBVIOUS
<1>2. CASE f \in 194 .. 223
  <2>1. Tails(f) = <<AnyTail>>
    <3>1. /\ f # 224 /\ f \notin (225 .. 239) \ {237} /\ f # 237
          /\ f # 240 /\ f \notin 241 .. 243 /\ f # 244
      BY <1>2
    <3> HIDE DEF AnyTail
    <3> QED BY <1>2, <3>1, SMTT(60) DEF Tails
  <2>2. Width(f) = 1 + 1
    BY <1>2 DEF Width
  <2>3. \A b : Second(f, b) => b \in AnyTail
    BY <1>2 DEF Second, AnyTail
  <2> QED BY <1>1, <2>1, <2>2, <2>3, TailsOneWide
<1>3. CASE f = 224
  <2>1. Tails(f) = <<160 .. 191, AnyTail>>
    BY <1>3 DEF Tails
  <2>2. Width(f) = 2 + 1
    BY <1>3 DEF Width
  <2>3. \A b : Second(f, b) => b \in 160 .. 191
    BY <1>3 DEF Second
  <2> QED BY <1>1, <2>1, <2>2, <2>3, TailsOneWide
<1>4. CASE f \in (225 .. 239) \ {237}
  <2>1. Tails(f) = <<AnyTail, AnyTail>>
    BY <1>4, SMTT(30) DEF Tails
  <2>2. Width(f) = 2 + 1
    BY <1>4 DEF Width
  <2>3. \A b : Second(f, b) => b \in AnyTail
    BY <1>4 DEF Second, AnyTail
  <2> QED BY <1>1, <2>1, <2>2, <2>3, TailsOneWide
<1>5. CASE f = 237
  <2>1. Tails(f) = <<128 .. 159, AnyTail>>
    BY <1>5 DEF Tails
  <2>2. Width(f) = 2 + 1
    BY <1>5 DEF Width
  <2>3. \A b : Second(f, b) => b \in 128 .. 159
    BY <1>5 DEF Second
  <2> QED BY <1>1, <2>1, <2>2, <2>3, TailsOneWide
<1>6. CASE f = 240
  <2>1. Tails(f) = <<144 .. 191, AnyTail, AnyTail>>
    BY <1>6 DEF Tails
  <2>2. Width(f) = 3 + 1
    BY <1>6 DEF Width
  <2>3. \A b : Second(f, b) => b \in 144 .. 191
    BY <1>6 DEF Second
  <2> QED BY <1>1, <2>1, <2>2, <2>3, TailsOneWide
<1>7. CASE f \in 241 .. 243
  <2>1. Tails(f) = <<AnyTail, AnyTail, AnyTail>>
    BY <1>7 DEF Tails
  <2>2. Width(f) = 3 + 1
    BY <1>7 DEF Width
  <2>3. \A b : Second(f, b) => b \in AnyTail
    BY <1>7 DEF Second, AnyTail
  <2> QED BY <1>1, <2>1, <2>2, <2>3, TailsOneWide
<1>8. CASE f = 244
  <2>1. Tails(f) = <<128 .. 143, AnyTail, AnyTail>>
    BY <1>8 DEF Tails
  <2>2. Width(f) = 3 + 1
    BY <1>8 DEF Width
  <2>3. \A b : Second(f, b) => b \in 128 .. 143
    BY <1>8 DEF Second
  <2> QED BY <1>1, <2>1, <2>2, <2>3, TailsOneWide
<1> QED BY <1>2, <1>3, <1>4, <1>5, <1>6, <1>7, <1>8

\* The bytes of a scalar value but an ASCII character are read as they are.
LEMMA MultibyteUnit ==
  ASSUME NEW s \in Seq(Bytes), OneScalar(s), Len(s) > 1
  PROVE  IsUnitOf(s, s)
<1>0. /\ Len(s) \in Nat /\ Width(s[1]) = Len(s) /\ s[1] \in 0 .. 127 \cup 194 .. 244
      /\ Second(s[1], s[2])
      /\ \A k \in 2 .. Len(s) : s[k] \in 128 .. 191
  BY DEF OneScalar
<1>1. PICK f : f = s[1]
  OBVIOUS
<1>2. f \in 194 .. 244
  <2>1. f \in 0 .. 127 => Width(f) = 1
    BY DEF Width
  <2>2. Width(f) # 1
    BY <1>0, <1>1
  <2> QED BY <1>0, <1>1, <2>1, <2>2
<1>3. PICK ts, n : ts = Tails(f) /\ n = Len(ts)
  OBVIOUS
<1>4. /\ n = Len(s) - 1 /\ n \in 1 .. 3
      /\ \A b : Second(f, b) => b \in ts[1]
      /\ \A k \in 2 .. n : ts[k] = 128 .. 191
  <2>1. TailsWide(f)
    BY <1>2, TailsAllow
  <2> QED BY <1>0, <1>1, <1>3, <2>1 DEF TailsWide
<1>5. ASSUME NEW k \in 1 .. n PROVE s[k + 1] \in ts[k]
  <2>1. CASE k = 1
    <3>1. k + 1 = 2
      BY <2>1
    <3> QED BY <1>0, <1>1, <1>4, <2>1, <3>1
  <2>2. CASE k # 1
    <3>1. k \in 2 .. n /\ k + 1 \in 2 .. Len(s)
      BY <1>4, <2>2
    <3> QED BY <1>0, <1>4, <3>1
  <2> QED BY <2>1, <2>2
<1>6. ASSUME NEW t \in Seq(Bytes), NEW p \in Places, LiesAt(s, t, p)
      PROVE  UnitAt(t, p) = Unit(s, p + Len(s)) /\ At(t, p) # Quote
  <2>1. \A j \in 1 .. Len(s) : At(t, p + j - 1) = s[j]
    BY <1>6 DEF LiesAt
  <2>2. At(t, p) = f
    <3>1. 1 \in 1 .. Len(s) /\ p + 1 - 1 = p
      BY <1>0 DEF Places
    <3> QED BY <1>1, <2>1, <3>1
  <2>3. ASSUME NEW k \in 1 .. n PROVE At(t, p + k) \in ts[k]
    <3>1. k + 1 \in 1 .. Len(s) /\ p + (k + 1) - 1 = p + k
      BY <1>4 DEF Places
    <3> QED BY <1>5, <2>1, <3>1
  <2>4. ASSUME NEW k \in 1 .. n + 1 PROVE t[p + k - 1] = s[k]
    <3>1. k \in 1 .. Len(s)
      BY <1>0, <1>4
    <3>2. At(t, p + k - 1) = s[k] /\ s[k] \in Bytes
      BY <2>1, <3>1
    <3>3. p + k - 1 \in Nat /\ Len(t) \in Nat
      BY DEF Places
    <3>4. At(t, p + k - 1) \in Nat
      <4>1. Bytes \subseteq Nat
        BY DEF Bytes
      <4> QED BY <3>2, <4>1
    <3> QED BY <3>2, <3>3, <3>4, Within
  <2>5. [k \in 1 .. n + 1 |-> t[p + k - 1]] = s
    <3>1. n + 1 = Len(s)
      BY <1>0, <1>4
    <3>2. s = [k \in 1 .. Len(s) |-> s[k]]
      OBVIOUS
    <3> QED BY <2>4, <3>1, <3>2
  <2>6. p + n + 1 = p + Len(s) /\ n > 0
    BY <1>0, <1>4 DEF Places
  <2>7. Multibyte(t, p) = Unit(s, p + Len(s))
    BY <1>3, <2>2, <2>3, <2>5, <2>6 DEF Multibyte
  <2>8. f # Backslash /\ f \notin 32 .. 127 /\ f # Quote
    BY <1>2 DEF Backslash, Quote
  <2> QED BY <2>2, <2>7, <2>8 DEF UnitAt
<1> QED BY <1>6 DEF IsUnitOf

\* get_codepoint reads the digit that snprintf writes.
LEMMA HexBack ==
  ASSUME NEW n \in 0 .. 15
  PROVE  HexDigit(n) \in Bytes /\ HexValue(HexDigit(n)) = n
<1>1. CASE n < 10
  <2>1. HexDigit(n) = 48 + n /\ 48 + n \in 48 .. 57
    BY <1>1 DEF HexDigit
  <2>2. HexValue(48 + n) = n
    BY <2>1 DEF HexValue
  <2> QED BY <2>1, <2>2 DEF Bytes
<1>2. CASE n >= 10
  <2>1. HexDigit(n) = 87 + n /\ 87 + n \in 97 .. 102
    BY <1>2 DEF HexDigit
  <2>2. HexValue(87 + n) = n
    BY <2>1 DEF HexValue
  <2> QED BY <2>1, <2>2 DEF Bytes
<1> QED BY <1>1, <1>2

Nibble == 0 .. 15

\* A number of 16 bits is its four nibbles.
LEMMA FourBits ==
  ASSUME NEW n \in Nat
  PROVE  \E q \in Nat : \E r \in Nibble : n = 16 * q + r /\ n \div 16 = q /\ n % 16 = r
<1>1. n \div 16 \in Nat /\ n % 16 \in 0 .. 15 /\ n = 16 * (n \div 16) + (n % 16)
  OBVIOUS
<1> QED BY <1>1 DEF Nibble

LEMMA DivByte ==
  ASSUME NEW n \in Nat, NEW q \in Nat, NEW r \in Nat, r <= 255, n = 256 * q + r
  PROVE  n \div 256 = q
OBVIOUS

\* The hexadecimal digits of a number of 16 bits.
HexParts(n, a, b, c, d) ==
  /\ n = 4096 * a + 256 * b + 16 * c + d
  /\ (n \div 4096) % 16 = a /\ (n \div 256) % 16 = b /\ (n \div 16) % 16 = c /\ n % 16 = d

HasHexParts(n) ==
  \E a \in Nibble : \E b \in Nibble : \E c \in Nibble : \E d \in Nibble : HexParts(n, a, b, c, d)

\* Which nibbles Hex4 writes.
LEMMA HexPartsOf ==
  ASSUME NEW n \in Nat, n <= 65535
  PROVE  HasHexParts(n)
<1>1. PICK q1 \in Nat, d \in Nibble : n = 16 * q1 + d /\ n \div 16 = q1 /\ n % 16 = d
  BY FourBits, SMTT(60)
<1>2. PICK q2 \in Nat, c \in Nibble : q1 = 16 * q2 + c /\ q1 \div 16 = q2 /\ q1 % 16 = c
  BY FourBits, SMTT(60)
<1>3. PICK q3 \in Nat, b \in Nibble : q2 = 16 * q3 + b /\ q2 \div 16 = q3 /\ q2 % 16 = b
  BY FourBits, SMTT(60)
<1>4. b \in Nat /\ b <= 15 /\ c \in Nat /\ c <= 15 /\ d \in Nat /\ d <= 15
  BY SMTT(60) DEF Nibble
<1>5. PICK r2 \in Nat : r2 = 16 * c + d /\ r2 <= 255
  BY <1>4, SMTT(60)
<1>6. PICK r3 \in Nat : r3 = 256 * b + r2 /\ r3 <= 4095
  BY <1>4, <1>5, SMTT(60)
<1>7. n = 256 * q2 + r2
  BY <1>1, <1>2, <1>5, <1>4, SMTT(60)
<1>8. n = 4096 * q3 + r3
  BY <1>3, <1>6, <1>7, <1>4, SMTT(60)
<1>9. n \div 256 = q2 /\ n \div 4096 = q3
  BY <1>5, <1>6, <1>7, <1>8, DivByte, DivSmall, SMTT(60)
<1>10. q3 <= 15
  BY <1>6, <1>8, SMTT(60)
<1>11. q3 \in Nibble /\ q3 % 16 = q3
  BY <1>10, SMTT(60) DEF Nibble
<1>12. n = 4096 * q3 + 256 * b + 16 * c + d
  BY <1>4, <1>5, <1>6, <1>8, SMTT(60)
<1>13. HexParts(n, q3, b, c, d)
  BY <1>1, <1>2, <1>3, <1>9, <1>11, <1>12, SMTT(60) DEF HexParts
<1> QED BY <1>11, <1>13, SMTT(60) DEF HasHexParts

\* get_codepoint puts the nibbles together again.
LEMMA FourDigits ==
  ASSUME NEW t, NEW p \in Nat,
         NEW a \in Nibble, NEW b \in Nibble, NEW c \in Nibble, NEW d \in Nibble,
         At(t, p) = HexDigit(a), At(t, p + 1) = HexDigit(b), At(t, p + 2) = HexDigit(c),
         At(t, p + 3) = HexDigit(d)
  PROVE  Codepoint(t, p) = 4096 * a + 256 * b + 16 * c + d
<1> DEFINE digit == [k \in 0 .. 3 |-> HexValue(At(t, p + k))]
<1>1. p + 0 = p
  OBVIOUS
<1>2. /\ HexValue(HexDigit(a)) = a /\ HexValue(HexDigit(b)) = b
      /\ HexValue(HexDigit(c)) = c /\ HexValue(HexDigit(d)) = d
  BY HexBack DEF Nibble
<1>3. digit[0] = a /\ digit[1] = b /\ digit[2] = c /\ digit[3] = d
  BY <1>1, <1>2
<1>4. ~\E k \in 0 .. 3 : digit[k] = -1
  <2>1. \A k \in 0 .. 3 : k = 0 \/ k = 1 \/ k = 2 \/ k = 3
    OBVIOUS
  <2>2. a # -1 /\ b # -1 /\ c # -1 /\ d # -1
    BY DEF Nibble
  <2> HIDE DEF digit
  <2> QED BY <1>3, <2>1, <2>2
<1>5. Codepoint(t, p) = IF \E k \in 0 .. 3 : digit[k] = -1 THEN -1
                        ELSE 4096 * digit[0] + 256 * digit[1] + 16 * digit[2] + digit[3]
  BY DEF Codepoint
<1> HIDE DEF digit
<1> QED BY <1>3, <1>4, <1>5

\* What the loop finds where a "\uxxxx" lies.
LEMMA HexRead ==
  ASSUME NEW n \in Nat, n <= 65535, NEW t, NEW p \in Places, LiesAt(Hex4(n), t, p)
  PROVE  At(t, p) = Backslash /\ At(t, p + 1) = 117 /\ Codepoint(t, p + 2) = n
<1>1. PICK a \in Nibble, b \in Nibble, c \in Nibble, d \in Nibble : HexParts(n, a, b, c, d)
  <2>1. HasHexParts(n)
    BY HexPartsOf
  <2> QED BY <2>1 DEF HasHexParts
<1>2. n = 4096 * a + 256 * b + 16 * c + d
  BY <1>1, SMTT(60) DEF HexParts
<1>3. PICK wa, wb, wc, wd : wa = HexDigit(a) /\ wb = HexDigit(b) /\ wc = HexDigit(c)
           /\ wd = HexDigit(d)
  OBVIOUS
<1>4. Hex4(n) = <<Backslash, 117, wa, wb, wc, wd>>
  BY <1>1, <1>3, SMTT(60) DEF HexParts, Hex4
<1>5. PICK h : h = Hex4(n)
  OBVIOUS
<1> HIDE <1>1, <1>2, <1>3
<1>6. /\ Len(h) = 6 /\ h[1] = Backslash /\ h[2] = 117
      /\ h[3] = wa /\ h[4] = wb /\ h[5] = wc /\ h[6] = wd
  BY <1>4, <1>5
<1>7. \A j \in 1 .. 6 : At(t, p + j - 1) = h[j]
  BY <1>5, <1>6 DEF LiesAt
<1>8. /\ p + 1 - 1 = p /\ p + 2 - 1 = p + 1 /\ p + 3 - 1 = p + 2
      /\ p + 4 - 1 = (p + 2) + 1 /\ p + 5 - 1 = (p + 2) + 2 /\ p + 6 - 1 = (p + 2) + 3
      /\ p + 2 \in Nat
  BY DEF Places
<1>9. At(t, p + 1 - 1) = h[1] /\ At(t, p + 2 - 1) = h[2] /\ At(t, p + 3 - 1) = h[3]
      /\ At(t, p + 4 - 1) = h[4] /\ At(t, p + 5 - 1) = h[5] /\ At(t, p + 6 - 1) = h[6]
  BY <1>7
<1>10. /\ At(t, p) = Backslash /\ At(t, p + 1) = 117 /\ At(t, p + 2) = wa /\ At(t, (p + 2) + 1) = wb
       /\ At(t, (p + 2) + 2) = wc /\ At(t, (p + 2) + 3) = wd
  BY <1>6, <1>8, <1>9
<1>11. Codepoint(t, p + 2) = 4096 * a + 256 * b + 16 * c + d
  BY <1>3, <1>8, <1>10, FourDigits
<1> QED BY <1>2, <1>10, <1>11

\* An escape is read as its code point.
LEMMA HexUnit ==
  ASSUME NEW n \in Nat, n <= 65535, n < 55296 \/ n > 57343
  PROVE  IsUnitOf(Hex4(n), Utf8(n))
<1>1. ASSUME NEW t \in Seq(Bytes), NEW p \in Places, LiesAt(Hex4(n), t, p)
      PROVE  UnitAt(t, p) = Unit(Utf8(n), p + Len(Hex4(n))) /\ At(t, p) # Quote
  <2>1. At(t, p) = Backslash /\ At(t, p + 1) = 117 /\ Codepoint(t, p + 2) = n
    BY <1>1, HexRead
  <2>2. p + 1 + 1 = p + 2 /\ (p + 2) + 4 = p + 6 /\ Len(Hex4(n)) = 6
    BY Hex4Type DEF Places
  <2>3. n # -1 /\ ~LowSurrogate(n) /\ ~HighSurrogate(n)
    BY DEF LowSurrogate, HighSurrogate
  <2>4. UnicodeEscape(t, p + 2) = Unit(Utf8(n), (p + 2) + 4)
    BY <2>1, <2>3 DEF UnicodeEscape
  <2>5. Escape(t, p + 1) = Unit(Utf8(n), p + 6)
    BY <2>1, <2>2, <2>4 DEF Escape
  <2> QED BY <2>1, <2>2, <2>5 DEF UnitAt, Quote, Backslash
<1> QED BY <1>1 DEF IsUnitOf

\* The halves of a code point that has no "\uxxxx" of its own.
Pair(cp) == Hex4(55232 + (cp \div 1024)) \o Hex4(56320 + (cp % 1024))

LEMMA DivThousand ==
  ASSUME NEW n \in Nat
  PROVE  \E q \in Nat : \E r \in Nat : q = n \div 1024 /\ r = n % 1024 /\ n = 1024 * q + r
         /\ r <= 1023
<1>1. n \div 1024 \in Nat /\ n % 1024 \in 0 .. 1023 /\ n = 1024 * (n \div 1024) + (n % 1024)
  OBVIOUS
<1>2. PICK q, r : q = n \div 1024 /\ r = n % 1024
  OBVIOUS
<1>3. q \in Nat /\ r \in Nat /\ n = 1024 * q + r /\ r <= 1023
  BY <1>1, <1>2
<1> QED BY <1>2, <1>3, SMTT(60)

\* So is a pair of surrogates.
LEMMA PairUnit ==
  ASSUME NEW cp \in Nat, cp >= 65536, cp <= 1114111
  PROVE  Pair(cp) \in Seq(Bytes) /\ Len(Pair(cp)) = 12 /\ IsUnitOf(Pair(cp), Utf8(cp))
<1>1. PICK q \in Nat, r \in Nat : q = cp \div 1024 /\ r = cp % 1024 /\ cp = 1024 * q + r
           /\ r <= 1023
  BY DivThousand, SMTT(60)
<1>2. q >= 64 /\ q <= 1087
  <2> HIDE <1>1
  <2>1. cp = 1024 * q + r /\ r <= 1023
    BY <1>1, SMTT(60)
  <2> QED BY <2>1, SMTT(60)
<1>3. PICK hi \in Nat, lo \in Nat : /\ hi = 55232 + q /\ lo = 56320 + r
                                  /\ hi >= 55296 /\ hi <= 56319 /\ lo >= 56320 /\ lo <= 57343
  <2>1. r <= 1023
    BY <1>1, SMTT(60)
  <2> QED BY <1>2, <2>1, SMTT(60)
<1>4. Pair(cp) = Hex4(hi) \o Hex4(lo)
  BY <1>1, <1>3, SMTT(60) DEF Pair
<1>5. hi * 1024 + lo - 56613888 = cp
  <2>1. cp = 1024 * q + r
    BY <1>1, SMTT(60)
  <2>2. hi = 55232 + q /\ lo = 56320 + r
    BY <1>3, SMTT(60)
  <2> QED BY <2>1, <2>2, SMTT(60)
<1>6. hi <= 65535 /\ lo <= 65535
  BY <1>3, SMTT(60)
<1>7. /\ Hex4(hi) \in Seq(Bytes) /\ Len(Hex4(hi)) = 6
      /\ Hex4(lo) \in Seq(Bytes) /\ Len(Hex4(lo)) = 6
  BY <1>6, Hex4Type, SMTT(60)
<1>8. Pair(cp) \in Seq(Bytes) /\ Len(Pair(cp)) = 12
  <2>1. PICK x \in Seq(Bytes), y \in Seq(Bytes) :
          x = Hex4(hi) /\ y = Hex4(lo) /\ Len(x) = 6 /\ Len(y) = 6
    BY <1>7
  <2>2. x \o y \in Seq(Bytes) /\ Len(x \o y) = Len(x) + Len(y)
    BY ConcatOf
  <2>3. Pair(cp) = x \o y /\ Len(x \o y) = 12
    BY <1>4, <2>1, <2>2
  <2> QED BY <2>2, <2>3
<1>9. ASSUME NEW t \in Seq(Bytes), NEW p \in Places, LiesAt(Pair(cp), t, p)
      PROVE  UnitAt(t, p) = Unit(Utf8(cp), p + 12) /\ At(t, p) # Quote
  <2>1. LiesAt(Hex4(hi), t, p) /\ LiesAt(Hex4(lo), t, p + 6) /\ p + 6 \in Places
    <3>1. PICK x \in Seq(Bytes), y \in Seq(Bytes) : x = Hex4(hi) /\ y = Hex4(lo) /\ Len(x) = 6
      BY <1>7
    <3>2. LiesAt(x \o y, t, p)
      BY <1>4, <1>9, <3>1
    <3>3. LiesAt(x, t, p) /\ LiesAt(y, t, p + Len(x)) /\ p + Len(x) \in Places
      BY <3>2, LiesBoth
    <3> QED BY <3>1, <3>3
  <2>2. At(t, p) = Backslash /\ At(t, p + 1) = 117 /\ Codepoint(t, p + 2) = hi
    BY <1>6, <2>1, HexRead, SMTT(60)
  <2>3. At(t, p + 6) = Backslash /\ At(t, (p + 6) + 1) = 117 /\ Codepoint(t, (p + 6) + 2) = lo
    BY <1>6, <2>1, HexRead, SMTT(60)
  <2>4. /\ p + 1 + 1 = p + 2 /\ (p + 2) + 4 = p + 6 /\ (p + 2) + 5 = (p + 6) + 1
        /\ (p + 2) + 6 = (p + 6) + 2 /\ (p + 2) + 10 = p + 12
    BY SMTT(60) DEF Places
  <2>5. hi # -1 /\ ~LowSurrogate(hi) /\ HighSurrogate(hi) /\ LowSurrogate(lo)
    BY <1>3, SMTT(60) DEF LowSurrogate, HighSurrogate
  <2>6. UnicodeEscape(t, p + 2) = Unit(Utf8(cp), (p + 2) + 10)
    BY <1>5, <2>2, <2>3, <2>4, <2>5, SMTT(60) DEF UnicodeEscape
  <2>7. Escape(t, p + 1) = Unit(Utf8(cp), p + 12)
    BY <2>2, <2>4, <2>6, SMTT(60) DEF Escape
  <2> QED BY <2>2, <2>7, SMTT(60) DEF UnitAt, Quote, Backslash
<1> QED BY <1>8, <1>9, SMTT(60) DEF IsUnitOf

-----------------------------------------------------------------------------
(* A code point has the bytes it was put together of. *)

\* The code point whose bytes are s.
CodeOf(s) ==
  IF Len(s) = 1 THEN s[1]
  ELSE IF Len(s) = 2 THEN 64 * (s[1] - 192) + (s[2] - 128)
  ELSE IF Len(s) = 3 THEN 64 * (64 * (s[1] - 224) + (s[2] - 128)) + (s[3] - 128)
  ELSE 64 * (64 * (64 * (s[1] - 240) + (s[2] - 128)) + (s[3] - 128)) + (s[4] - 128)

\* It is translated into these bytes, and is no surrogate.
CodeBack(s) ==
  /\ CodeOf(s) \in Nat /\ CodeOf(s) <= 1114111
  /\ CodeOf(s) < 55296 \/ CodeOf(s) > 57343
  /\ Utf8(CodeOf(s)) = s
  /\ Len(s) = 1 => CodeOf(s) = s[1]
  /\ Len(s) > 1 => CodeOf(s) >= 128
  /\ Len(s) < 4 => CodeOf(s) <= 65535
  /\ Len(s) = 4 => CodeOf(s) >= 65536

SixLow(n, q, r) == q \in Nat /\ r \in Nat /\ r <= 63 /\ n \in Nat /\ n = 64 * q + r

\* The last six bits of a code point are its last byte.
LEMMA SixOff ==
  ASSUME NEW n, NEW q, NEW r, SixLow(n, q, r)
  PROVE  n \div 64 = q /\ Continuation(n) = 128 + r
BY SMTT(60) DEF Continuation, SixLow

\* The bytes of a code point are those it was put together of: of two,
LEMMA TwoBack ==
  ASSUME NEW x \in Nat, NEW y \in Nat, x >= 194, x <= 223, y >= 128, y <= 191,
         NEW n, n = 64 * (x - 192) + (y - 128)
  PROVE  n \in Nat /\ n >= 128 /\ n <= 2047 /\ Utf8(n) = <<x, y>>
<1>1. PICK q \in Nat, r \in Nat : q = x - 192 /\ r = y - 128 /\ r <= 63 /\ q >= 2 /\ q <= 31
  BY SMTT(60)
<1>2. n = 64 * q + r /\ n \in Nat /\ n >= 128 /\ n <= 2047
  BY <1>1, SMTT(60)
<1>3. n \div 64 = q /\ Continuation(n) = 128 + r
  <2>1. SixLow(n, q, r)
    BY <1>1, <1>2 DEF SixLow
  <2> QED BY <2>1, SixOff
<1>4. 192 + (n \div 64) = x /\ Continuation(n) = y
  BY <1>1, <1>3, SMTT(60)
<1>5. Utf8(n) = <<192 + (n \div 64), Continuation(n)>>
  BY <1>2, SMTT(60) DEF Utf8
<1> QED BY <1>2, <1>4, <1>5, SMTT(60)

Three(x, y, z) ==
  /\ x >= 224 /\ x <= 239 /\ y >= 128 /\ y <= 191 /\ z >= 128 /\ z <= 191
  /\ x = 224 => y >= 160
  /\ x = 237 => y <= 159

ThreeCoded(n, x, y, z) ==
  /\ n \in Nat /\ n >= 2048 /\ n <= 65535 /\ (n < 55296 \/ n > 57343)
  /\ Utf8(n) = <<x, y, z>>

\* of three,
LEMMA ThreeBack ==
  ASSUME NEW x \in Nat, NEW y \in Nat, NEW z \in Nat, Three(x, y, z),
         NEW n, n = 64 * (64 * (x - 224) + (y - 128)) + (z - 128)
  PROVE  ThreeCoded(n, x, y, z)
<1>1. PICK h \in Nat, d \in Nat, e \in Nat :
        /\ h = x - 224 /\ d = y - 128 /\ e = z - 128 /\ d <= 63 /\ e <= 63 /\ h <= 15
        /\ (h = 0 => d >= 32) /\ (h = 13 => d <= 31)
  BY SMTT(60) DEF Three
<1>2. PICK w \in Nat : w = 64 * h + d
  BY SMTT(60)
<1>3. n = 64 * w + e /\ n \in Nat
  BY <1>1, <1>2, SMTT(60)
<1>4. n \div 64 = w /\ Continuation(n) = 128 + e
  <2>1. SixLow(n, w, e)
    BY <1>1, <1>2, <1>3 DEF SixLow
  <2> QED BY <2>1, SixOff
<1>5. Continuation(w) = 128 + d
  <2>1. SixLow(w, h, d)
    BY <1>1, <1>2 DEF SixLow
  <2> QED BY <2>1, SixOff
<1>6. PICK r \in Nat : r = 64 * d + e /\ r <= 4095
  BY <1>1, SMTT(60)
<1>7. n = 4096 * h + r
  BY <1>1, <1>2, <1>3, <1>6, SMTT(60)
<1>8. n \div 4096 = h
  BY <1>3, <1>6, <1>7, DivSmall, SMTT(60)
<1>9. n >= 2048 /\ n <= 65535 /\ (n < 55296 \/ n > 57343)
  BY <1>1, <1>6, <1>7, SMTT(60)
<1>10. Utf8(n) = <<224 + (n \div 4096), Continuation(n \div 64), Continuation(n)>>
  BY <1>3, <1>9, SMTT(60) DEF Utf8
<1>11. 224 + (n \div 4096) = x /\ Continuation(n \div 64) = y /\ Continuation(n) = z
  BY <1>1, <1>4, <1>5, <1>8, SMTT(60)
<1> QED BY <1>3, <1>9, <1>10, <1>11, SMTT(60) DEF ThreeCoded

Four(x, y, z, v) ==
  /\ x >= 240 /\ x <= 244 /\ y >= 128 /\ y <= 191 /\ z >= 128 /\ z <= 191 /\ v >= 128 /\ v <= 191
  /\ x = 240 => y >= 144
  /\ x = 244 => y <= 143

\* and of four.
LEMMA FourBack ==
  ASSUME NEW x \in Nat, NEW y \in Nat, NEW z \in Nat, NEW v \in Nat, Four(x, y, z, v),
         NEW n, n = 64 * (64 * (64 * (x - 240) + (y - 128)) + (z - 128)) + (v - 128)
  PROVE  n \in Nat /\ n >= 65536 /\ n <= 1114111 /\ Utf8(n) = <<x, y, z, v>>
<1>1. PICK h \in Nat, c \in Nat, d \in Nat, e \in Nat :
        /\ h = x - 240 /\ c = y - 128 /\ d = z - 128 /\ e = v - 128
        /\ c <= 63 /\ d <= 63 /\ e <= 63 /\ h <= 4
        /\ (h = 0 => c >= 16) /\ (h = 4 => c <= 15)
  BY SMTT(60) DEF Four
<1>2. PICK w \in Nat : w = 64 * h + c
  BY SMTT(60)
<1>3. PICK u \in Nat : u = 64 * w + d
  BY SMTT(60)
<1>4. n = 64 * u + e /\ n \in Nat
  BY <1>1, <1>2, <1>3, SMTT(60)
<1>5. n \div 64 = u /\ Continuation(n) = 128 + e
  <2>1. SixLow(n, u, e)
    BY <1>1, <1>3, <1>4 DEF SixLow
  <2> QED BY <2>1, SixOff
<1>6. Continuation(u) = 128 + d
  <2>1. SixLow(u, w, d)
    BY <1>1, <1>2, <1>3 DEF SixLow
  <2> QED BY <2>1, SixOff
<1>7. Continuation(w) = 128 + c
  <2>1. SixLow(w, h, c)
    BY <1>1, <1>2 DEF SixLow
  <2> QED BY <2>1, SixOff
<1>8. PICK r \in Nat : r = 64 * d + e /\ r <= 4095
  BY <1>1, SMTT(60)
<1>9. n = 4096 * w + r
  BY <1>1, <1>3, <1>4, <1>8, SMTT(60)
<1>10. n \div 4096 = w
  BY <1>4, <1>8, <1>9, DivSmall, SMTT(60)
<1>11. PICK b \in Nat : b = 4096 * c + r /\ b <= 262143
  BY <1>1, <1>8, SMTT(60)
<1>12. n = 262144 * h + b
  BY <1>1, <1>2, <1>9, <1>11, SMTT(60)
<1>13. n \div 262144 = h
  BY <1>4, <1>11, <1>12, DivBig, SMTT(60)
<1>14. n >= 65536 /\ n <= 1114111
  BY <1>1, <1>8, <1>11, <1>12, SMTT(60)
<1>15. Utf8(n) = <<240 + (n \div 262144), Continuation(n \div 4096), Continuation(n \div 64),
         Continuation(n)>>
  BY <1>4, <1>14, SMTT(60) DEF Utf8
<1>16. /\ 240 + (n \div 262144) = x /\ Continuation(n \div 4096) = y
       /\ Continuation(n \div 64) = z /\ Continuation(n) = v
  BY <1>1, <1>5, <1>6, <1>7, <1>10, <1>13, SMTT(60)
<1> QED BY <1>4, <1>14, <1>15, <1>16, SMTT(60)

\* A sequence of up to four bytes, spelled out.
LEMMA SeqSpelled ==
  ASSUME NEW s \in Seq(Bytes)
  PROVE  /\ Len(s) = 1 => s = <<s[1]>>
         /\ Len(s) = 2 => s = <<s[1], s[2]>>
         /\ Len(s) = 3 => s = <<s[1], s[2], s[3]>>
         /\ Len(s) = 4 => s = <<s[1], s[2], s[3], s[4]>>
OBVIOUS

\* The bytes of one scalar value, by their number.
Shaped(s) ==
  /\ Len(s) \in 1 .. 4
  /\ Len(s) = 1 => s[1] \in 0 .. 127 /\ s = <<s[1]>>
  /\ Len(s) = 2 => s[1] \in 194 .. 223 /\ s = <<s[1], s[2]>>
  /\ Len(s) = 3 => s[1] \in 224 .. 239 /\ s = <<s[1], s[2], s[3]>>
  /\ Len(s) = 4 => s[1] \in 240 .. 244 /\ s = <<s[1], s[2], s[3], s[4]>>
  /\ Len(s) > 1 => s[2] \in 128 .. 191 /\ Second(s[1], s[2])
  /\ Len(s) > 2 => s[3] \in 128 .. 191
  /\ Len(s) > 3 => s[4] \in 128 .. 191

Wide(b, n) ==
  /\ n \in 1 .. 4
  /\ n = 1 => b \in 0 .. 127
  /\ n = 2 => b \in 194 .. 223
  /\ n = 3 => b \in 224 .. 239
  /\ n = 4 => b \in 240 .. 244

LEMMA WidthShapes ==
  ASSUME NEW b \in 0 .. 127 \cup 194 .. 244 PROVE Wide(b, Width(b))
BY SMTT(60) DEF Width, Wide

\* A scalar value has one of the four shapes.
LEMMA ScalarShaped == ASSUME NEW s \in Seq(Bytes), OneScalar(s) PROVE Shaped(s)
<1>1. /\ Len(s) \in Nat \ {0} /\ Width(s[1]) = Len(s)
      /\ s[1] \in 0 .. 127 \cup 194 .. 244
      /\ \A k \in 2 .. Len(s) : s[k] \in 128 .. 191
      /\ Len(s) > 1 => Second(s[1], s[2])
  BY DEF OneScalar
<1>2. /\ Len(s) \in 1 .. 4
      /\ Len(s) = 1 => s[1] \in 0 .. 127
      /\ Len(s) = 2 => s[1] \in 194 .. 223
      /\ Len(s) = 3 => s[1] \in 224 .. 239
      /\ Len(s) = 4 => s[1] \in 240 .. 244
  <2>1. Wide(s[1], Width(s[1]))
    BY <1>1, WidthShapes
  <2>2. Wide(s[1], Len(s))
    BY <1>1, <2>1
  <2> QED BY <2>2 DEF Wide
<1>3. /\ Len(s) = 1 => s = <<s[1]>>
      /\ Len(s) = 2 => s = <<s[1], s[2]>>
      /\ Len(s) = 3 => s = <<s[1], s[2], s[3]>>
      /\ Len(s) = 4 => s = <<s[1], s[2], s[3], s[4]>>
  BY SeqSpelled
<1>4. /\ Len(s) > 1 => s[2] \in 128 .. 191
      /\ Len(s) > 2 => s[3] \in 128 .. 191
      /\ Len(s) > 3 => s[4] \in 128 .. 191
  <2>1. /\ Len(s) > 1 => 2 \in 2 .. Len(s)
        /\ Len(s) > 2 => 3 \in 2 .. Len(s)
        /\ Len(s) > 3 => 4 \in 2 .. Len(s)
    BY <1>1
  <2> QED BY <1>1, <2>1
<1> QED BY <1>1, <1>2, <1>3, <1>4 DEF Shaped

\* In each of them the code point has these bytes.
LEMMA ShapedBack == ASSUME NEW s, Shaped(s) PROVE CodeBack(s)
<1>3. PICK l, x, y, z, v, n : l = Len(s) /\ x = s[1] /\ y = s[2] /\ z = s[3] /\ v = s[4]
           /\ n = CodeOf(s)
  OBVIOUS
<1>1. /\ l \in 1 .. 4
      /\ l = 1 => x \in 0 .. 127 /\ s = <<x>>
      /\ l = 2 => x \in 194 .. 223 /\ s = <<x, y>>
      /\ l = 3 => x \in 224 .. 239 /\ s = <<x, y, z>>
      /\ l = 4 => x \in 240 .. 244 /\ s = <<x, y, z, v>>
      /\ l > 1 => y \in 128 .. 191 /\ Second(x, y)
      /\ l > 2 => z \in 128 .. 191
      /\ l > 3 => v \in 128 .. 191
  <2>1. l \in 1 .. 4
    BY <1>3 DEF Shaped
  <2>2. l = 1 => x \in 0 .. 127 /\ s = <<x>>
    BY <1>3, Zenon DEF Shaped
  <2>3. l = 2 => x \in 194 .. 223 /\ s = <<x, y>>
    BY <1>3, Zenon DEF Shaped
  <2>4. l = 3 => x \in 224 .. 239 /\ s = <<x, y, z>>
    BY <1>3, Zenon DEF Shaped
  <2>5. l = 4 => x \in 240 .. 244 /\ s = <<x, y, z, v>>
    BY <1>3, Zenon DEF Shaped
  <2>6. /\ l > 1 => y \in 128 .. 191 /\ Second(x, y)
        /\ l > 2 => z \in 128 .. 191
        /\ l > 3 => v \in 128 .. 191
    BY <1>3, Zenon DEF Shaped
  <2> QED BY <2>1, <2>2, <2>3, <2>4, <2>5, <2>6, Zenon
<1>2. CodeBack(s) <=> /\ n \in Nat /\ n <= 1114111
                      /\ n < 55296 \/ n > 57343
                      /\ Utf8(n) = s
                      /\ l = 1 => n = x
                      /\ l > 1 => n >= 128
                      /\ l < 4 => n <= 65535
                      /\ l = 4 => n >= 65536
  BY <1>3, SMTT(60) DEF CodeBack
<1>8. n = IF l = 1 THEN x
          ELSE IF l = 2 THEN 64 * (x - 192) + (y - 128)
          ELSE IF l = 3 THEN 64 * (64 * (x - 224) + (y - 128)) + (z - 128)
          ELSE 64 * (64 * (64 * (x - 240) + (y - 128)) + (z - 128)) + (v - 128)
  BY <1>3, SMTT(60) DEF CodeOf
<1> HIDE <1>3
<1>4. CASE l = 1
  <2>1. n = x /\ x \in Nat /\ x < 128
    BY <1>1, <1>8, <1>4, SMTT(60)
  <2>2. Utf8(n) = <<x>>
    BY <2>1 DEF Utf8
  <2> QED BY <1>1, <1>2, <1>4, <2>1, <2>2, SMTT(60)
<1>5. CASE l = 2
  <2>1. n = 64 * (x - 192) + (y - 128)
    BY <1>5, <1>8, SMTT(60)
  <2>2. x \in Nat /\ y \in Nat /\ x >= 194 /\ x <= 223 /\ y >= 128 /\ y <= 191
    BY <1>1, <1>5, SMTT(60)
  <2>3. n \in Nat /\ n >= 128 /\ n <= 2047 /\ Utf8(n) = <<x, y>>
    BY <2>1, <2>2, TwoBack, SMTT(60)
  <2> QED BY <1>1, <1>2, <1>5, <2>3, SMTT(60)
<1>6. CASE l = 3
  <2>1. n = 64 * (64 * (x - 224) + (y - 128)) + (z - 128)
    BY <1>6, <1>8, SMTT(60)
  <2>2. x \in Nat /\ y \in Nat /\ z \in Nat /\ Three(x, y, z)
    BY <1>1, <1>6, SMTT(60) DEF Second, Three
  <2>3. /\ n \in Nat /\ n >= 2048 /\ n <= 65535 /\ (n < 55296 \/ n > 57343)
        /\ Utf8(n) = <<x, y, z>>
    <3>1. ThreeCoded(n, x, y, z)
      BY ONLY <2>1, <2>2, ThreeBack, Zenon
    <3> QED BY <3>1 DEF ThreeCoded
  <2> QED BY <1>1, <1>2, <1>6, <2>3, SMTT(60)
<1>7. CASE l = 4
  <2>1. n = 64 * (64 * (64 * (x - 240) + (y - 128)) + (z - 128)) + (v - 128)
    BY <1>7, <1>8, SMTT(60)
  <2>2. x \in Nat /\ y \in Nat /\ z \in Nat /\ v \in Nat /\ Four(x, y, z, v)
    BY <1>1, <1>7, SMTT(60) DEF Second, Four
  <2>3. n \in Nat /\ n >= 65536 /\ n <= 1114111 /\ Utf8(n) = <<x, y, z, v>>
    BY <2>1, <2>2, FourBack, SMTT(60)
  <2> QED BY <1>1, <1>2, <1>7, <2>3, SMTT(60)
<1> QED BY <1>1, <1>4, <1>5, <1>6, <1>7, SMTT(60)

LEMMA CodeIsBack == ASSUME NEW s \in Seq(Bytes), OneScalar(s) PROVE CodeBack(s)
BY ScalarShaped, ShapedBack

\* What decode has of the code point behind the bytes from a to n.
FirstBitsOf(b) ==
  /\ b < 128 => FirstBits(b) = b
  /\ b \in 194 .. 223 => FirstBits(b) = b - 192
  /\ b \in 224 .. 239 => FirstBits(b) = b - 224
  /\ b \in 240 .. 244 => FirstBits(b) = b - 240

\* What decode takes of the first byte.
LEMMA FirstBitsAre == ASSUME NEW b \in 0 .. 255 PROVE FirstBitsOf(b)
<1>1. b < 128 => TypeOf(b) = 0
  BY SMTT(60) DEF TypeOf
<1>2. b \in 194 .. 223 => TypeOf(b) = 2
  BY SMTT(60) DEF TypeOf
<1>3. /\ b = 224 => TypeOf(b) = 10
      /\ b = 237 => TypeOf(b) = 4
      /\ b \in 225 .. 239 /\ b # 237 => TypeOf(b) = 3
  <2>1. b = 224 => TypeOf(b) = 10
    BY SMTT(60) DEF TypeOf
  <2>2. b = 237 => TypeOf(b) = 4
    BY SMTT(60) DEF TypeOf
  <2>3. b \in 225 .. 239 /\ b # 237 => TypeOf(b) = 3
    BY SMTT(60) DEF TypeOf
  <2> QED BY <2>1, <2>2, <2>3
<1>4. /\ b = 240 => TypeOf(b) = 11
      /\ b \in 241 .. 243 => TypeOf(b) = 6
      /\ b = 244 => TypeOf(b) = 5
  <2>1. b = 240 => TypeOf(b) = 11
    BY SMTT(60) DEF TypeOf
  <2>2. b = 244 => TypeOf(b) = 5
    BY SMTT(60) DEF TypeOf
  <2>3. b \in 241 .. 243 => TypeOf(b) = 6
    BY SMTT(60) DEF TypeOf
  <2> QED BY <2>1, <2>2, <2>3
<1>5. /\ TypeOf(b) = 0 => FirstBits(b) = b % 256
      /\ TypeOf(b) = 2 => FirstBits(b) = b % 64
      /\ TypeOf(b) = 3 => FirstBits(b) = b % 32
      /\ TypeOf(b) = 4 => FirstBits(b) = b % 16
      /\ TypeOf(b) = 5 => FirstBits(b) = b % 8
      /\ TypeOf(b) = 6 => FirstBits(b) = b % 4
      /\ TypeOf(b) > 8 => FirstBits(b) = 0
  BY SMTT(60) DEF FirstBits
<1>6. b < 128 => FirstBits(b) = b
  BY <1>1, <1>5, SMTT(60)
<1>7. b \in 194 .. 223 => FirstBits(b) = b - 192
  BY <1>2, <1>5, SMTT(60)
<1>8. b \in 224 .. 239 => FirstBits(b) = b - 224
  <2>1. CASE b = 224
    BY <2>1, <1>3, <1>5, SMTT(60)
  <2>2. CASE b = 237
    <3>1. 237 % 16 = 13
      BY SMTT(60)
    <3> QED BY <2>2, <3>1, <1>3, <1>5, SMTT(60)
  <2>3. CASE b \in 225 .. 239 /\ b # 237
    <3>1. b % 32 = b - 224
      BY <2>3, SMTT(60)
    <3> QED BY <2>3, <3>1, <1>3, <1>5, SMTT(60)
  <2> QED BY <2>1, <2>2, <2>3, SMTT(60)
<1>9. b \in 240 .. 244 => FirstBits(b) = b - 240
  <2>1. CASE b = 240
    BY <2>1, <1>4, <1>5, SMTT(60)
  <2>2. CASE b = 244
    <3>1. 244 % 8 = 4
      BY SMTT(60)
    <3> QED BY <2>2, <3>1, <1>4, <1>5, SMTT(60)
  <2>3. CASE b \in 241 .. 243
    <3>1. b % 4 = b - 240
      BY <2>3, SMTT(60)
    <3> QED BY <2>3, <3>1, <1>4, <1>5, SMTT(60)
  <2> QED BY <2>1, <2>2, <2>3, SMTT(60)
<1> QED BY <1>6, <1>7, <1>8, <1>9 DEF FirstBitsOf

\* The code point of decode after the bytes from a to n.
Bits(s, a, n) ==
  IF n = a THEN FirstBits(s[a])
  ELSE IF n = a + 1 THEN 64 * FirstBits(s[a]) + (s[a + 1] % 64)
  ELSE IF n = a + 2 THEN 64 * (64 * FirstBits(s[a]) + (s[a + 1] % 64)) + (s[a + 2] % 64)
  ELSE 64 * (64 * (64 * FirstBits(s[a]) + (s[a + 1] % 64)) + (s[a + 2] % 64)) + (s[a + 3] % 64)

\* One byte more.
LEMMA BitsOn ==
  ASSUME NEW s, NEW a \in Nat, NEW n \in Nat, a <= n, n <= a + 2
  PROVE  Bits(s, a, n + 1) = 64 * Bits(s, a, n) + (s[n + 1] % 64)
<1>1. n = a \/ n = a + 1 \/ n = a + 2
  OBVIOUS
<1>2. CASE n = a
  BY <1>2 DEF Bits
<1>3. CASE n = a + 1
  <2>1. n + 1 = a + 2 /\ a + 2 # a /\ a + 2 # a + 1 /\ a + 1 # a
    BY <1>3
  <2> QED BY <1>3, <2>1 DEF Bits
<1>4. CASE n = a + 2
  <2>1. n + 1 = a + 3 /\ a + 2 # a /\ a + 2 # a + 1 /\ a + 3 # a /\ a + 3 # a + 1 /\ a + 3 # a + 2
    BY <1>4
  <2> QED BY <1>4, <2>1 DEF Bits
<1> QED BY <1>1, <1>2, <1>3, <1>4

TailIs(b) == b \in 128 .. 191 => b % 64 = b - 128
LEMMA TailsIs == \A b \in 0 .. 255 : TailIs(b)
BY SMTT(60) DEF TailIs

\* A code point from its l parts.
Assembled(l, f, y, z, v) ==
  IF l = 1 THEN f
  ELSE IF l = 2 THEN 64 * f + y
  ELSE IF l = 3 THEN 64 * (64 * f + y) + z
  ELSE 64 * (64 * (64 * f + y) + z) + v

Lead(l, x) == IF l = 1 THEN x ELSE IF l = 2 THEN x - 192 ELSE IF l = 3 THEN x - 224 ELSE x - 240

ShapedBy(l, x, y, z, v) ==
  /\ l = 1 \/ l = 2 \/ l = 3 \/ l = 4
  /\ l = 1 => x \in 0 .. 127
  /\ l = 2 => x \in 194 .. 223
  /\ l = 3 => x \in 224 .. 239
  /\ l = 4 => x \in 240 .. 244
  /\ l > 1 => y \in 128 .. 191
  /\ l > 2 => z \in 128 .. 191
  /\ l > 3 => v \in 128 .. 191

\* Masking and subtracting give the same.
LEMMA AssembledBits ==
  ASSUME NEW l, NEW x, NEW y, NEW z, NEW v, ShapedBy(l, x, y, z, v)
  PROVE  Assembled(l, FirstBits(x), y % 64, z % 64, v % 64)
           = Assembled(l, Lead(l, x), y - 128, z - 128, v - 128)
<1>1. ASSUME NEW b \in 128 .. 191 PROVE b % 64 = b - 128
  <2>1. b \in 0 .. 255
    BY SMTT(60)
  <2>2. TailIs(b)
    BY <2>1, TailsIs
  <2> QED BY <2>2 DEF TailIs
<1>2. FirstBits(x) = Lead(l, x)
  <2>1. x \in 0 .. 255
    BY SMTT(60) DEF ShapedBy
  <2>2. FirstBitsOf(x)
    BY <2>1, FirstBitsAre
  <2>3. CASE l = 1
    BY <2>2, <2>3, SMTT(60) DEF ShapedBy, FirstBitsOf, Lead
  <2>4. CASE l = 2
    BY <2>2, <2>4, SMTT(60) DEF ShapedBy, FirstBitsOf, Lead
  <2>5. CASE l = 3
    BY <2>2, <2>5, SMTT(60) DEF ShapedBy, FirstBitsOf, Lead
  <2>6. CASE l = 4
    BY <2>2, <2>6, SMTT(60) DEF ShapedBy, FirstBitsOf, Lead
  <2> QED BY <2>3, <2>4, <2>5, <2>6 DEF ShapedBy
<1>3. l > 1 => y % 64 = y - 128
  BY <1>1 DEF ShapedBy
<1>4. l > 2 => z % 64 = z - 128
  BY <1>1 DEF ShapedBy
<1>5. l > 3 => v % 64 = v - 128
  BY <1>1 DEF ShapedBy
<1>6. CASE l = 1
  BY <1>2, <1>6 DEF Assembled
<1>7. CASE l = 2
  BY <1>2, <1>3, <1>7 DEF Assembled
<1>8. CASE l = 3
  BY <1>2, <1>3, <1>4, <1>8 DEF Assembled
<1>9. CASE l = 4
  BY <1>2, <1>3, <1>4, <1>5, <1>9 DEF Assembled
<1> QED BY <1>6, <1>7, <1>8, <1>9 DEF ShapedBy

LEMMA ShapedIsBy ==
  ASSUME NEW s, Shaped(s) PROVE ShapedBy(Len(s), s[1], s[2], s[3], s[4])
BY SMTT(60) DEF Shaped, ShapedBy

\* Behind the bytes of a scalar value decode has the code point.
LEMMA BitsAreCode ==
  ASSUME NEW s, Shaped(s)
  PROVE  Bits(s, 1, Len(s)) = CodeOf(s)
<1>1. ShapedBy(Len(s), s[1], s[2], s[3], s[4])
  BY ShapedIsBy
<1>2. Assembled(Len(s), FirstBits(s[1]), s[2] % 64, s[3] % 64, s[4] % 64)
        = Assembled(Len(s), Lead(Len(s), s[1]), s[2] - 128, s[3] - 128, s[4] - 128)
  BY <1>1, AssembledBits
<1>3. Bits(s, 1, Len(s)) = Assembled(Len(s), FirstBits(s[1]), s[2] % 64, s[3] % 64, s[4] % 64)
  <2>1. 1 + 1 = 2 /\ 1 + 2 = 3 /\ 1 + 3 = 4
    OBVIOUS
  <2> QED BY <2>1, Zenon DEF Bits, Assembled
<1>4. CodeOf(s) = Assembled(Len(s), Lead(Len(s), s[1]), s[2] - 128, s[3] - 128, s[4] - 128)
  BY DEF CodeOf, Assembled, Lead
<1> QED BY <1>2, <1>3, <1>4

-----------------------------------------------------------------------------
(* The digits that dump writes of a number. *)

\* The decimal digits e of k.
RunOf(e, k) ==
  /\ e \in Seq(Bytes) /\ Len(e) \in Nat \ {0}
  /\ \A j \in 1 .. Len(e) : e[j] \in 48 .. 57
  /\ IF e[1] = 48 THEN k = 0 /\ Len(e) = 1 ELSE k > 0

\* A number of two digits or more is one with a digit less, and the last.
LastDigit(f, k) ==
  \E d \in 0 .. k - 1 : \E r \in 48 .. 57 :
    /\ d > 0 /\ k = 10 * d + (r - 48) /\ f[k] = Append(f[d], r)

\* The digits of a number: the recursion of the last one,
LEMMA DigitsBuilt ==
  ASSUME NEW f, Below(f), NEW k \in Nat
  PROVE  IF k < 10 THEN f[k] = <<48 + k>> ELSE LastDigit(f, k)
<1>1. f[k] = IF k < 10 THEN <<48 + k>> ELSE Append(f[k \div 10], 48 + (k % 10))
  BY DEF Below
<1>2. CASE k < 10
  BY <1>1, <1>2
<1>3. CASE ~ k < 10
  <2>1. PICK d : d = k \div 10
    OBVIOUS
  <2>2. PICK m : m = k % 10
    OBVIOUS
  <2>3. d \in Nat /\ m \in 0 .. 9 /\ k = 10 * d + m
    BY <2>1, <2>2
  <2>4. d \in 0 .. k - 1 /\ d > 0
    BY <1>3, <2>3
  <2>5. PICK r : r = 48 + m
    OBVIOUS
  <2>6. r \in 48 .. 57 /\ m = r - 48
    BY <2>3, <2>5
  <2>7. f[k] = Append(f[d], r)
    BY <1>1, <1>3, <2>1, <2>2, <2>5, Zenon
  <2> QED BY <1>3, <2>3, <2>4, <2>6, <2>7 DEF LastDigit
<1> QED BY <1>2, <1>3

\* of one digit,
LEMMA OneDigit ==
  ASSUME NEW k \in Nat, k < 10
  PROVE  RunOf(<<48 + k>>, k)
<1>1. PICK b : b = 48 + k
  OBVIOUS
<1>2. b \in 48 .. 57 /\ (b = 48 <=> k = 0) /\ (b # 48 => k > 0)
  BY <1>1
<1>3. b \in Bytes
  BY <1>2, SMTT(60) DEF Bytes
<1>4. <<b>> \in Seq(Bytes) /\ Len(<<b>>) = 1 /\ <<b>>[1] = b
  BY <1>3, ListOf
<1>5. PICK e : e = <<b>>
  OBVIOUS
<1>6. e \in Seq(Bytes) /\ Len(e) = 1 /\ e[1] = b
  BY <1>4, <1>5
<1>7. \A j \in 1 .. Len(e) : e[j] \in 48 .. 57
  BY <1>2, <1>6
<1>8. RunOf(e, k)
  BY <1>2, <1>6, <1>7 DEF RunOf
<1> QED BY <1>1, <1>5, <1>8

\* of one more,
LEMMA OneMoreDigit ==
  ASSUME NEW d \in Nat, NEW e, RunOf(e, d), d > 0, NEW r \in 48 .. 57, NEW k, k = 10 * d + (r - 48)
  PROVE  RunOf(Append(e, r), k)
<1>1. PICK l \in Nat \ {0} : l = Len(e) /\ e \in Seq(Bytes)
  BY DEF RunOf
<1>2. r \in Bytes
  BY SMTT(60) DEF Bytes
<1>3. PICK g \in Seq(Bytes) : g = Append(e, r)
  <2>1. PICK b \in Bytes : b = r
    BY <1>2
  <2>2. Append(e, b) \in Seq(Bytes)
    BY <1>1
  <2> QED BY <2>1, <2>2
<1>4. Len(g) = l + 1 /\ g[l + 1] = r /\ \A j \in 1 .. l : g[j] = e[j]
  BY <1>1, <1>2, <1>3
<1>5. \A j \in 1 .. l : e[j] \in 48 .. 57
  BY <1>1 DEF RunOf
<1>6. e[1] # 48
  BY DEF RunOf
<1>7. g[1] # 48 /\ k > 0 /\ l + 1 \in Nat \ {0}
  BY <1>1, <1>4, <1>6
<1>8. \A j \in 1 .. l + 1 : g[j] \in 48 .. 57
  <2> SUFFICES ASSUME NEW j \in 1 .. l + 1 PROVE g[j] \in 48 .. 57
    OBVIOUS
  <2>1. j \in 1 .. l \/ j = l + 1
    BY <1>1
  <2> QED BY <1>4, <1>5, <2>1
<1>9. RunOf(g, k)
  BY <1>3, <1>4, <1>7, <1>8 DEF RunOf
<1> QED BY <1>3, <1>9

\* of any number.
LEMMA DigitsRun ==
  ASSUME NEW f, Below(f)
  PROVE  \A k \in Nat : RunOf(f[k], k)
<1> DEFINE G == {k \in Nat : RunOf(f[k], k)}
<1>1. ASSUME NEW k \in Nat, \A j \in 0 .. k - 1 : j \in G PROVE k \in G
  <2>1. CASE k < 10
    <3>1. f[k] = <<48 + k>>
      BY <2>1, DigitsBuilt
    <3> QED BY <2>1, <3>1, OneDigit
  <2>2. CASE ~ k < 10
    <3>1. PICK d \in 0 .. k - 1 : \E r \in 48 .. 57 :
            d > 0 /\ k = 10 * d + (r - 48) /\ f[k] = Append(f[d], r)
      BY <2>2, DigitsBuilt DEF LastDigit
    <3>2. PICK r \in 48 .. 57 : d > 0 /\ k = 10 * d + (r - 48) /\ f[k] = Append(f[d], r)
      BY <3>1
    <3>3. d \in Nat /\ RunOf(f[d], d)
      BY <1>1
    <3>4. RunOf(Append(f[d], r), k)
      BY <3>2, <3>3, OneMoreDigit
    <3> QED BY <3>2, <3>4
  <2> QED BY <2>1, <2>2
<1> HIDE DEF G
<1>2. \A k \in Nat : k \in G
  BY <1>1, Induction
<1> QED BY <1>2 DEF G

-----------------------------------------------------------------------------
(* What scan_number makes of them. *)

\* The recursion that computes the value of the digits from p on.
Valued(f, t, p) ==
  f = [q \in Nat |-> IF q < p \/ t[q] \notin Digit THEN 0 ELSE 10 * f[q - 1] + t[q] - 48]

\* Their value is the number.
LEMMA DigitsValued ==
  ASSUME NEW t, NEW p \in Places
  PROVE  \E f \in [Nat -> Int] : Valued(f, t, p)
<1> DEFINE T == Int
           m == [q \in Nat |-> q]
           Def == [a \in [Nat -> T] \X Nat |->
                     IF a[2] < p \/ t[a[2]] \notin Digit THEN 0
                       ELSE 10 * a[1][a[2] - 1] + t[a[2]] - 48]
<1>1. T # {} /\ m \in [Nat -> Nat]
  OBVIOUS
<1>2. ASSUME NEW q \in Nat, ~(q < p \/ t[q] \notin Digit)
      PROVE  q - 1 \in Nat /\ q - 1 < q /\ t[q] \in Int
  BY <1>2 DEF Places, Digit
<1>3. Def \in [[Nat -> T] \X Nat -> T]
  <2> SUFFICES ASSUME NEW g \in [Nat -> T], NEW q \in Nat
               PROVE  (IF q < p \/ t[q] \notin Digit THEN 0 ELSE 10 * g[q - 1] + t[q] - 48) \in T
    OBVIOUS
  <2>1. CASE q < p \/ t[q] \notin Digit
    BY <2>1
  <2>2. CASE ~(q < p \/ t[q] \notin Digit)
    <3>1. PICK r \in Nat : r = q - 1
      BY <1>2, <2>2
    <3>2. PICK b \in Int : b = t[q]
      BY <1>2, <2>2
    <3>3. g[r] \in Int
      OBVIOUS
    <3> QED BY <2>2, <3>1, <3>2, <3>3
  <2> QED BY <2>1, <2>2
<1>4. Founded(Def, Nat, T, m)
  <2> SUFFICES ASSUME NEW g \in [Nat -> T], NEW h \in [Nat -> T], NEW q \in Nat,
                      \A y \in Nat : m[y] < m[q] => g[y] = h[y]
               PROVE  Def[<<g, q>>] = Def[<<h, q>>]
    BY DEF Founded
  <2>1. CASE q < p \/ t[q] \notin Digit
    BY <2>1
  <2>2. CASE ~(q < p \/ t[q] \notin Digit)
    <3>1. PICK r \in Nat : r = q - 1 /\ r < q
      BY <1>2, <2>2
    <3>2. g[r] = h[r]
      BY <3>1
    <3> QED BY <2>2, <3>1, <3>2
  <2> QED BY <2>1, <2>2
<1>5. PICK f \in [Nat -> T] : f = [q \in Nat |-> Def[<<f, q>>]]
  <2> HIDE DEF T, m, Def
  <2>1. Recurses(Def, Nat, T, m)
    BY <1>1, <1>3, <1>4 DEF Recurses
  <2>2. Solved(Def, Nat, T)
    BY <2>1, Recursive
  <2> QED BY <2>2 DEF Solved
<1>6. ASSUME NEW q \in Nat
      PROVE  f[q] = IF q < p \/ t[q] \notin Digit THEN 0 ELSE 10 * f[q - 1] + t[q] - 48
  <2>1. f[q] = Def[<<f, q>>]
    <3> HIDE DEF Def
    <3> QED BY <1>5
  <2> QED BY <2>1
<1>7. f = [q \in Nat |-> f[q]]
  OBVIOUS
<1>8. Valued(f, t, p)
  BY <1>6, <1>7 DEF Valued
<1> QED BY <1>8

\* What scan_number computes is the number whose digits it reads.
LEMMA DigitsCounted ==
  ASSUME NEW v, NEW t, NEW p \in Places, Valued(v, t, p), NEW a \in Places, a >= p, v[a - 1] = 0,
         NEW f, Below(f)
  PROVE  \A k \in Nat : (\A j \in 1 .. Len(f[k]) : t[a + j - 1] = f[k][j])
           => v[a + Len(f[k]) - 1] = k
<1>0. ASSUME NEW q \in Nat, q >= p, t[q] \in 48 .. 57
      PROVE  v[q] = 10 * v[q - 1] + t[q] - 48
  <2>1. v[q] = IF q < p \/ t[q] \notin Digit THEN 0 ELSE 10 * v[q - 1] + t[q] - 48
    BY DEF Valued
  <2>2. ~(q < p \/ t[q] \notin Digit)
    BY <1>0 DEF Digit, Places
  <2> QED BY <2>1, <2>2
<1> DEFINE Lies(k)  == \A j \in 1 .. Len(f[k]) : t[a + j - 1] = f[k][j]
           Count(k) == v[a + Len(f[k]) - 1] = k
           G == {k \in Nat : Lies(k) => Count(k)}
<1>1. ASSUME NEW k \in Nat, \A j \in 0 .. k - 1 : j \in G PROVE k \in G
  <2> SUFFICES ASSUME Lies(k) PROVE Count(k)
    OBVIOUS
  <2>1. CASE k < 10
    <3>1. PICK e : e = f[k] /\ e = <<48 + k>>
      BY <2>1, DigitsBuilt
    <3>2. Len(e) = 1 /\ e[1] = 48 + k
      BY <3>1
    <3>3. PICK q \in Nat : q = a /\ q >= p
      BY DEF Places
    <3>4. a + 1 - 1 = q
      BY <3>3
    <3>5. t[q] = 48 + k
      <4>1. t[a + 1 - 1] = e[1]
        BY <3>1, <3>2
      <4> QED BY <3>2, <3>4, <4>1
    <3>6. t[q] \in 48 .. 57
      BY <2>1, <3>5
    <3>7. v[q] = 10 * v[q - 1] + t[q] - 48
      BY <1>0, <3>3, <3>6
    <3>8. v[q] = k
      BY <3>3, <3>5, <3>7
    <3> QED BY <3>1, <3>2, <3>4, <3>8
  <2>2. CASE ~ k < 10
    <3>1. PICK d \in 0 .. k - 1 : \E r \in 48 .. 57 :
            d > 0 /\ k = 10 * d + (r - 48) /\ f[k] = Append(f[d], r)
      BY <2>2, DigitsBuilt DEF LastDigit
    <3>2. PICK r \in 48 .. 57 : d > 0 /\ k = 10 * d + (r - 48) /\ f[k] = Append(f[d], r)
      BY <3>1
    <3>3. PICK e : e = f[d]
      OBVIOUS
    <3>4. PICK g : g = f[k] /\ g = Append(e, r)
      BY <3>2, <3>3
    <3>5. e \in Seq(Bytes) /\ d \in Nat
      BY <3>3, DigitsRun DEF RunOf
    <3>6. PICK l \in Nat : l = Len(e)
      BY <3>5
    <3>7. Len(g) = l + 1 /\ g[l + 1] = r /\ \A j \in 1 .. l : g[j] = e[j]
      <4>1. IsSeq(e)
        BY <3>5 DEF IsSeq
      <4> QED BY <3>4, <3>6, <4>1, SeqAppend
    <3>8. \A j \in 1 .. l + 1 : t[a + j - 1] = g[j]
      BY <3>4, <3>7
    <3>9. Lies(d)
      <4>1. ASSUME NEW j \in 1 .. l PROVE t[a + j - 1] = e[j]
        <5>1. j \in 1 .. l + 1
          OBVIOUS
        <5> QED BY <3>7, <3>8, <5>1
      <4> QED BY <3>3, <3>6, <4>1
    <3>10. v[a + l - 1] = d
      <4>1. d \in G
        BY <1>1
      <4>2. Count(d)
        BY <3>9, <4>1
      <4> QED BY <3>3, <3>6, <4>2
    <3>11. PICK q \in Nat : q = a + l /\ q >= p /\ q - 1 = a + l - 1 /\ a + (l + 1) - 1 = q
      BY DEF Places
    <3>12. t[q] = r
      <4>1. l + 1 \in 1 .. l + 1
        OBVIOUS
      <4>2. t[a + (l + 1) - 1] = r
        BY <3>7, <3>8, <4>1
      <4> QED BY <3>11, <4>2
    <3>13. v[q] = 10 * v[q - 1] + t[q] - 48
      BY <1>0, <3>11, <3>12
    <3>14. v[q] = 10 * d + r - 48
      BY <3>10, <3>11, <3>12, <3>13
    <3>15. v[q] = k
      BY <3>2, <3>14
    <3> QED BY <3>4, <3>7, <3>11, <3>15
  <2> QED BY <2>1, <2>2
<1> HIDE DEF G
<1>2. \A k \in Nat : k \in G
  BY <1>1, Induction
<1> QED BY <1>2 DEF G

\* What scan_number returns for k digits.
NumberRead(t, p, v, next, k) ==
  next # 0 /\ (\A q \in p .. next - 1 : t[q] \notin {Dot} \cup Exp) =>
    k = NumberToken(t[p] = Minus, FALSE, v[next - 1], next)

\* It depends on the digits and on what follows.
LEMMA ScanNumberCounts ==
  ASSUME NEW t, NEW p \in Places
  PROVE  \E v : Valued(v, t, p) /\ NumberRead(t, p, v, NumberEnd(t, p), ScanNumber(t, p))
<1> DEFINE value == CHOOSE f : f = [q \in Nat |-> IF q < p \/ t[q] \notin Digit THEN 0
                                                   ELSE 10 * f[q - 1] + t[q] - 48]
<1>1. PICK next : next = NumberEnd(t, p)
  OBVIOUS
<1>2. PICK float : float = \E q \in p .. next - 1 : t[q] \in {Dot} \cup Exp
  OBVIOUS
<1>3. ScanNumber(t, p) = IF next = 0 THEN Error(p)
                         ELSE NumberToken(t[p] = Minus, float, IF float THEN 0
                           ELSE value[next - 1], next)
  BY <1>1, <1>2, SMTT(90) DEF ScanNumber, NumberEnd, Ended
<1>4. \E f : f = [q \in Nat |-> IF q < p \/ t[q] \notin Digit THEN 0 ELSE 10 * f[q - 1] + t[q] - 48]
  <2>1. PICK f : Valued(f, t, p)
    BY DigitsValued
  <2> QED BY <2>1 DEF Valued
<1>5. Valued(value, t, p)
  BY <1>4 DEF Valued
<1> HIDE DEF value
<1>6. ASSUME next # 0, \A q \in p .. next - 1 : t[q] \notin {Dot} \cup Exp
      PROVE  ScanNumber(t, p) = NumberToken(t[p] = Minus, FALSE, value[next - 1], next)
  <2>1. float = FALSE
    BY <1>2, <1>6
  <2> QED BY <1>3, <1>6, <2>1
<1>7. NumberRead(t, p, value, next, ScanNumber(t, p))
  BY <1>6 DEF NumberRead
<1> QED BY <1>1, <1>5, <1>7

\* The states of scan_number on the way through digits that a brace follows.
LEMMA DigitSteps ==
  /\ \A c \in 49 .. 57 : \A from \in {"init", "minus"} : NumberNext(from, c) = "any1"
  /\ \A from \in {"init", "minus"} : NumberNext(from, 48) = "zero"
  /\ \A c \in 48 .. 57 : NumberNext("any1", c) = "any1"
  /\ \A from \in {"zero", "any1"} : NumberNext(from, 125) = "done"
  /\ NumberNext("init", 45) = "minus"
<1>1. ASSUME NEW c \in 49 .. 57, NEW from \in {"init", "minus"} PROVE NumberNext(from, c) = "any1"
  <2>1. NumberStep(from, c, "any1")
    BY DEF NumberStep
  <2> QED BY <2>1, NumberSteps
<1>2. ASSUME NEW from \in {"init", "minus"} PROVE NumberNext(from, 48) = "zero"
  <2>1. NumberStep(from, 48, "zero")
    BY DEF NumberStep
  <2> QED BY <2>1, NumberSteps
<1>3. ASSUME NEW c \in 48 .. 57 PROVE NumberNext("any1", c) = "any1"
  <2>1. NumberStep("any1", c, "any1")
    <3>1. c = 48 \/ c \in 49 .. 57
      OBVIOUS
    <3> QED BY <3>1 DEF NumberStep
  <2> QED BY <2>1, NumberSteps
<1>4. ASSUME NEW from \in {"zero", "any1"} PROVE NumberNext(from, 125) = "done"
  <2>1. \A x : ~NumberStep(from, 125, x)
    BY SMTT(60) DEF NumberStep
  <2>2. from \in Accepting
    BY DEF Accepting
  <2> QED BY <2>1, <2>2, NumberSteps
<1>5. NumberNext("init", 45) = "minus"
  <2>1. NumberStep("init", 45, "minus")
    BY DEF NumberStep
  <2> QED BY <2>1, NumberSteps
<1> QED BY <1>1, <1>2, <1>3, <1>4, <1>5

LEMMA EndedOn ==
  ASSUME NEW t, NEW f, Ended(f, t), NEW q \in Nat, NEW c \in NumberStates
  PROVE  f[q][c] = LET to == NumberNext(c, At(t, q))
                   IN IF to = "done" THEN q ELSE IF to = "error" THEN 0 ELSE f[q + 1][to]
<1>1. f[q] = [s \in NumberStates |->
                LET to == NumberNext(s, At(t, q))
                IN IF to = "done" THEN q ELSE IF to = "error" THEN 0 ELSE f[q + 1][to]]
  BY DEF Ended
<1> QED BY <1>1

\* The run of digits ends where the written number ends.
LEMMA RunEnds ==
  ASSUME NEW t, NEW f, Ended(f, t), NEW a \in Places, NEW n \in Nat \ {0}, NEW x, x = a + n,
         \A j \in 0 .. n - 1 : At(t, a + j) \in 48 .. 57, At(t, a) = 48 => n = 1, At(t, x) = 125,
         NEW from \in {"init", "minus"}
  PROVE  f[a][from] = x
<1>1. ASSUME NEW q \in Nat, NEW c \in NumberStates
      PROVE  f[q][c] = LET to == NumberNext(c, At(t, q))
                       IN IF to = "done" THEN q ELSE IF to = "error" THEN 0 ELSE f[q + 1][to]
  BY EndedOn
<1>2. from \in NumberStates /\ "any1" \in NumberStates /\ "zero" \in NumberStates
  BY DEF NumberStates
<1>3. a \in Nat /\ x \in Nat /\ x = a + n
  BY DEF Places
<1>4. ASSUME NEW c \in {"zero", "any1"} PROVE f[x][c] = x
  <2>1. NumberNext(c, At(t, x)) = "done"
    BY DigitSteps
  <2> QED BY <1>1, <1>2, <1>3, <2>1
<1>5. CASE At(t, a) = 48
  <2>1. x = a + 1
    BY <1>5
  <2>2. NumberNext(from, At(t, a)) = "zero"
    BY <1>5, DigitSteps
  <2>3. f[a][from] = f[x]["zero"]
    BY <1>1, <1>2, <1>3, <2>1, <2>2
  <2> QED BY <1>4, <2>3
<1>6. CASE At(t, a) # 48
  <2>1. At(t, a) \in 49 .. 57
    <3>1. 0 \in 0 .. n - 1 /\ a + 0 = a
      BY <1>3
    <3>2. At(t, a) \in 48 .. 57
      BY <3>1
    <3>3. \A c \in 48 .. 57 : c # 48 => c \in 49 .. 57
      OBVIOUS
    <3> QED BY <1>6, <3>2, <3>3
  <2>2. NumberNext(from, At(t, a)) = "any1"
    BY <2>1, DigitSteps
  <2>3. f[a][from] = f[a + 1]["any1"]
    BY <1>1, <1>2, <1>3, <2>2
  <2> DEFINE G == {j \in Nat : j <= n - 1 => f[a + 1]["any1"] = f[a + 1 + j]["any1"]}
  <2>4. ASSUME NEW k \in Nat, \A j \in 0 .. k - 1 : j \in G PROVE k \in G
    <3>1. CASE k = 0
      <4>1. a + 1 + 0 = a + 1
        BY <1>3
      <4> QED BY <3>1, <4>1
    <3>2. CASE k > n - 1
      BY <3>2
    <3>3. CASE k # 0 /\ k <= n - 1
      <4>1. PICK j \in 0 .. k - 1 : j = k - 1
        BY <3>3
      <4>2. f[a + 1]["any1"] = f[a + 1 + j]["any1"]
        <5>1. j \in G
          BY <2>4
        <5> QED BY <3>3, <4>1, <5>1
      <4>3. PICK q \in Nat : q = a + 1 + j /\ q = a + k /\ q + 1 = a + 1 + k
        BY <1>3, <4>1
      <4>4. k \in 0 .. n - 1
        BY <3>3
      <4>5. At(t, q) \in 48 .. 57
        BY <4>3, <4>4
      <4>6. NumberNext("any1", At(t, q)) = "any1"
        BY <4>5, DigitSteps
      <4>7. f[q]["any1"] = f[q + 1]["any1"]
        BY <1>1, <1>2, <4>6
      <4> QED BY <4>2, <4>3, <4>7
    <3> QED BY <3>1, <3>2, <3>3
  <2> HIDE DEF G
  <2>5. \A k \in Nat : k \in G
    BY <2>4, Induction
  <2>6. f[a + 1]["any1"] = f[x]["any1"]
    <3>1. n - 1 \in Nat /\ a + 1 + (n - 1) = x
      BY <1>3
    <3>2. n - 1 \in G
      BY <2>5, <3>1
    <3> QED BY <3>1, <3>2 DEF G
  <2> QED BY <1>4, <2>3, <2>6
<1> QED BY <1>5, <1>6
=============================================================================
