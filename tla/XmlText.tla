------------------------------ MODULE XmlText ------------------------------
(***************************************************************************)
(* FromXml.  A text is what the XML parser (Xerces) reports to             *)
(* the handler: elements that start, with their attributes, and end, and   *)
(* characters between them, which it may report in several pieces.  Blank  *)
(* characters are passed over.  The parser reports well-formed texts only. *)
(*                                                                         *)
(* Keys and names are numbers in the order of the strings they stand for:  *)
(* "#text", the attributes ("-" and a name), "0#text" and so on, and the   *)
(* names of elements.  No name is given for the root, so it takes that of  *)
(* its element.                                                            *)
(***************************************************************************)
EXTENDS SequencesExt

CONSTANTS
  Attributes,    \* keys of attributes
  Elements,      \* names of elements
  MaxValues,     \* the number of values in a text
  MaxElements,   \* the number of elements in a text
  MaxOpen        \* the number of elements open at once

ValueName == 0
NumberedName(i) == 100 + i

ASSUME NamesAssumption ==
  Attributes \subseteq 1 .. 99 /\ Elements \subseteq {n \in Nat : n > 1000}

VARIABLES
  reader,        \* the handler
  open,          \* the elements that are open: name, and the values read before
  closed,        \* the elements that have ended: their first and last value
  count          \* the number of values read so far; a value is its number

xmlVars == <<reader, open, closed, count>>

-----------------------------------------------------------------------------
(* Nodes.  The place of a node in a heap is its address.  An erased key of *)
(* a map still has an item.                                                *)

NoValue == [pieces |-> <<>>, node |-> 0]
Text(pieces) == [pieces |-> pieces, node |-> 0]
Ref(n) == [pieces |-> <<>>, node |-> n]

Node(type, name) == [type |-> type, name |-> name, parent |-> 0, items |-> <<>>]

Visible(h, n) == {k \in DOMAIN h[n].items : h[n].items[k] # NoValue}

(* An array has nothing under a string key. *)
At(h, n, k) == IF h[n].type = "Map" /\ k \in Visible(h, n) THEN h[n].items[k] ELSE NoValue

(* PrivateErase: what stands under the child's name, else the child. *)
Leave(h, p, c) ==
  IF p = 0 THEN h
  ELSE IF h[p].type = "Array" THEN [h EXCEPT ![p].items = SelectSeq(@, LAMBDA v : v # Ref(c))]
  ELSE IF At(h, p, h[c].name) # NoValue THEN [h EXCEPT ![p].items[h[c].name] = NoValue]
  ELSE [h EXCEPT ![p].items = [k \in DOMAIN @ |-> IF @[k] = Ref(c) THEN NoValue ELSE @[k]]]

(* SetAsChild_: a child of a map takes the key for its name. *)
Adopt(h, p, v, name) ==
  LET c == v.node
  IN  IF c = 0 \/ h[c].parent = p THEN h
      ELSE Leave([h EXCEPT ![c].parent = p, ![c].name = name], h[c].parent, c)

(* INode::Insert: an array puts a value under a string key at its end.     *)
Insert(h, n, k, v) ==
  IF h[n].type = "Array"
  THEN Adopt([h EXCEPT ![n].items = Append(@, v)], n, v, IF v.node = 0 THEN 0 ELSE h[v.node].name)
  ELSE IF k \in DOMAIN h[n].items THEN h
  ELSE Adopt([h EXCEPT ![n].items = (k :> v) @@ @], n, v, k)

Orphan(h, v) == IF v.node = 0 THEN h ELSE [h EXCEPT ![v.node].parent = 0]

(* INode::Set, of a map under a key, of an array at a place. *)
Set(h, n, k, v) ==
  LET was == IF k \in DOMAIN h[n].items THEN h[n].items[k] ELSE NoValue
      name == IF h[n].type = "Map" \/ v.node = 0 THEN k ELSE h[v.node].name
  IN  Adopt(Orphan([h EXCEPT ![n].items = (k :> v) @@ @], was), n, v, name)

(* ParentDetach. *)
Detach(h, c) == Leave([h EXCEPT ![c].parent = 0], h[c].parent, c)

Erase(h, n, k) ==
  LET v == At(h, n, k)
      h1 == [h EXCEPT ![n].items[k] = NoValue]
  IN  IF v = NoValue THEN h ELSE IF v.node = 0 THEN h1 ELSE Detach(h1, v.node)

(* INode::KeyChange, when there is nothing under the new key. *)
Rekeyed(h, n, from, to) ==
  LET v == At(h, n, from)
      h1 == [h EXCEPT ![n].items = (to :> v) @@ (from :> NoValue) @@ @]
  IN  IF v.node = 0 THEN h1 ELSE [h1 EXCEPT ![v.node].name = to]

-----------------------------------------------------------------------------
(* The handler: the nodes that are open, the arrays among them that were   *)
(* made on the way, the order of elements and texts by node, and whether   *)
(* the last event was a text.                                              *)

NewReader == [heap |-> <<>>, nodes |-> <<>>, arrays |-> <<>>, order |-> <<>>, more |-> FALSE]

Create(x, type, name) == [x EXCEPT !.heap = Append(@, Node(type, name))]
Top(x) == Last(x.nodes)

(* StoreNodesOrder_. *)
Ordered(x, k) ==
  LET n == Top(x)
      before == IF n \in DOMAIN x.order THEN x.order[n] ELSE <<>>
  IN  [x EXCEPT !.order = (n :> Append(before, k)) @@ @]

(* PutValue_ of a node; the first one is the root. *)
PutElement(x, k, n) ==
  IF x.nodes = <<>> THEN x
  ELSE [Ordered(x, k) EXCEPT !.heap = Insert(@, Top(x), k, Ref(n))]

(* GetLastAndNewKeys_: "#text", "0#text" and so on.                        *)
TextKey(i) == IF i = 0 THEN ValueName ELSE NumberedName(i - 1)
TextsIn(h, n) == CHOOSE i \in 0 .. Len(h) + MaxValues :
  /\ At(h, n, TextKey(i)) = NoValue
  /\ \A j \in 0 .. i - 1 : At(h, n, TextKey(j)) # NoValue

(* Mutation: every text goes under the first key. *)
FirstKey(h, n) == ValueName

NewKey(h, n) == TextKey(TextsIn(h, n))
LastKey(h, n) == TextKey(IF TextsIn(h, n) = 0 THEN 0 ELSE TextsIn(h, n) - 1)

(* PutValue_ of characters: more of them go to the last text, for which    *)
(* Append in an array makes a value of its own.                            *)
PutText(x, piece) ==
  LET n == Top(x)
      last == LastKey(x.heap, n)
      new == NewKey(x.heap, n)
  IN  IF x.more /\ At(x.heap, n, last) # NoValue
      THEN [x EXCEPT !.heap[n].items[last].pieces = Append(@, piece)]
      ELSE IF x.more THEN [x EXCEPT !.heap = Insert(@, n, last, Text(<<piece>>))]
      ELSE [Ordered(x, new) EXCEPT !.heap = Insert(@, n, new, Text(<<piece>>)), !.more = TRUE]

PutAttribute(x, k, piece) ==
  [x EXCEPT !.heap = Insert(@, Top(x), k, Text(<<piece>>))]

(* WrapToNode_: a new map of that name, with the value under it.           *)
Wrapped(h, name, v) ==
  Insert(Append(h, Node("Map", name)), Len(h) + 1, name, v)

(* At the second element of a name its siblings so far become the first    *)
(* items of an array, those of another name within maps of their own.      *)
StartArray(x, name) ==
  LET p == Top(x)
      arr == Len(x.heap) + 1
      Move(h, k) ==
        LET v == At(h, p, k)
            erased == Erase(h, p, k)
            wrapped == Wrapped(erased, k, v)
        IN  IF k = name THEN Insert(erased, arr, k, v)
            ELSE Insert(wrapped, arr, k, Ref(Len(h) + 1))
      moved == FoldLeft(Move, Append(x.heap, Node("Array", name)), x.order[p])
  IN  [x EXCEPT !.heap = Set(moved, p, name, Ref(arr)),
                !.nodes = Append(@, arr), !.arrays = Append(@, arr)]

(* PutNode_. *)
PutNode(x, name) ==
  LET made == Create(x, "Map", name)
      n == Len(made.heap)
      within == made.nodes # <<>>
      again == within /\ x.heap[Top(x)].type = "Map" /\ At(x.heap, Top(x), name) # NoValue
      foreign == within /\ x.heap[Top(x)].type = "Array" /\ x.heap[Top(x)].name # name
      put == IF again THEN PutElement(StartArray(made, name), name, n)
             ELSE IF foreign
             THEN LET y == [made EXCEPT !.heap = Wrapped(@, name, Ref(n))]
                  IN  PutElement(y, name, Len(y.heap))
             ELSE PutElement(made, name, n)
  IN  [put EXCEPT !.nodes = Append(@, n), !.more = FALSE]

-----------------------------------------------------------------------------
(* The end of an element. *)

(* CollapseArrayNodes_: an item with a single value that is not an         *)
(* attribute gives its place to the value.                                 *)
Collapsed(heap, arr) ==
  LET Only(h, c) == CHOOSE k \in Visible(h, c) : TRUE
      single == {i \in DOMAIN heap[arr].items :
                   LET c == heap[arr].items[i].node
                   IN  c # 0 /\ Cardinality(Visible(heap, c)) = 1
                       /\ Only(heap, c) \notin Attributes}
      Collapse(h, i) ==
        LET c == h[arr].items[i].node IN Set(h, arr, i, At(h, c, Only(h, c)))
  IN  FoldLeft(Collapse, heap, SetToSortSeq(single, LAMBDA i, j : i < j))

(* EndArray_. *)
EndArray(x) ==
  LET arr == Last(x.arrays)
  IN  [x EXCEPT !.heap = Collapsed(@, arr), !.nodes = Front(@), !.arrays = Front(@),
                !.order = [n \in DOMAIN @ \ {arr} |-> @[n]]]

(* HasNestedNodes_. *)
Mixed(h, n) ==
  At(h, n, ValueName) # NoValue /\ \E k \in Visible(h, n) : h[n].items[k].node # 0

(* ConvertToArray_: texts and elements of n, in their order, become the    *)
(* items of an array.                                                      *)
Converted(x, n) ==
  LET arr == Len(x.heap) + 1
      Move(h, k) ==
        LET v == At(h, n, k)
        IN  IF v.node # 0 /\ h[v.node].type = "Array"
            THEN Erase(Insert(Wrapped(h, h[v.node].name, v), arr, k, Ref(Len(h) + 1)), n, k)
            ELSE Erase(Insert(h, arr, k, v), n, k)
      moved == FoldLeft(Move, Append(x.heap, Node("Array", ValueName)), x.order[n])
      p == moved[n].parent
      wrapped == Wrapped(Detach(moved, n), ValueName, Ref(arr))
  IN  IF Visible(moved, n) = {} /\ p # 0 /\ moved[p].type = "Map"
      THEN [x EXCEPT !.heap = Set(wrapped, p, moved[n].name, Ref(Len(wrapped)))]
      ELSE [x EXCEPT !.heap = Set(moved, n, ValueName, Ref(arr))]

(* PropagateNodeName_: an only text goes under the name of its element.    *)
Renamed(x, n) ==
  LET h == x.heap
  IN  IF h[n].type = "Map" /\ Visible(h, n) = {ValueName}
      THEN [x EXCEPT !.heap = Rekeyed(h, n, ValueName, h[n].name)]
      ELSE x

(* EndNode_: when the topmost node has another name, it is an array and    *)
(* the element's node is the one below.                                    *)
EndNode(x, name) ==
  LET top == Top(x)
      popped == [x EXCEPT !.nodes = Front(@), !.more = FALSE]
      isArray == x.heap[top].name # name
      n == IF isArray THEN Top(popped) ELSE top
      ended == IF isArray THEN EndArray(popped) ELSE popped
  IN  Renamed(IF Mixed(ended.heap, n) THEN Converted(ended, n) ELSE ended, n)

-----------------------------------------------------------------------------
(* The text, event by event.  Values are numbered as they are read.        *)

XmlInit == reader = NewReader /\ open = <<>> /\ closed = <<>> /\ count = 0

(* The handler takes the end of an element for that of the array in it     *)
(* when an element contains two of its own name: such texts are left out.  *)
NotAgainInItself(name) ==
  open # <<>> =>
    LET n == Top(reader)
    IN  ~(reader.heap[n].type = "Map" /\ reader.heap[n].name = name
          /\ At(reader.heap, n, name) # NoValue)

(* startElement, with the element's attributes. *)
StartElement(name, keys) ==
  /\ open = <<>> => closed = <<>>
  /\ Len(open) < MaxOpen /\ Len(open) + Len(closed) < MaxElements
  /\ count + Cardinality(keys) <= MaxValues
  /\ NotAgainInItself(name)
  /\ LET atts == SetToSeq(keys)
         Put(x, i) == PutAttribute(x, atts[i], count + i)
     IN  reader' = FoldLeft(Put, PutNode(reader, name), [i \in 1 .. Len(atts) |-> i])
  /\ open' = Append(open, [name |-> name, before |-> count])
  /\ count' = count + Cardinality(keys)
  /\ UNCHANGED closed

(* characters, not all of them blank. *)
Characters ==
  /\ open # <<>> /\ count < MaxValues
  /\ reader' = PutText(reader, count + 1)
  /\ count' = count + 1
  /\ UNCHANGED <<open, closed>>

(* endElement. *)
EndElement ==
  /\ open # <<>>
  /\ reader' = EndNode(reader, Last(open).name)
  /\ open' = Front(open)
  /\ closed' = Append(closed, [first |-> Last(open).before + 1, last |-> count])
  /\ UNCHANGED count

XmlNext ==
  \/ \E name \in Elements, keys \in SUBSET Attributes : StartElement(name, keys)
  \/ Characters
  \/ EndElement

-----------------------------------------------------------------------------
(* What is read must stand in the document. *)

Items(h, n) ==
  LET keys == SetToSortSeq(Visible(h, n), <)
  IN  [i \in 1 .. Len(keys) |-> h[n].items[keys[i]]]

RECURSIVE Contents(_, _)
Contents(h, v) ==
  IF v.node = 0 THEN v.pieces
  ELSE FlattenSeq([i \in DOMAIN Items(h, v.node) |-> Contents(h, Items(h, v.node)[i])])

RECURSIVE Entries(_, _)
Entries(h, v) ==
  {v} \cup IF v.node = 0 THEN {}
           ELSE UNION {Entries(h, u) : u \in ToSet(Items(h, v.node))}

(* No value is lost, and none stands in two places. *)
EveryValueOnce(h) ==
  /\ ToSet(Contents(h, Ref(1))) = 1 .. count
  /\ IsInjective(Contents(h, Ref(1)))

(* What an element held is all that one entry of the document holds. *)
ElementsTogether(h) ==
  \A e \in ToSet(closed) : e.first <= e.last =>
    \E v \in Entries(h, Ref(1)) : ToSet(Contents(h, v)) = e.first .. e.last

(* The items of an array stand in the order of the text. *)
ArraysInOrder(h) ==
  \A v \in Entries(h, Ref(1)) : v.node # 0 /\ h[v.node].type = "Array" =>
    LET items == Items(h, v.node)
    IN  \A i, j \in DOMAIN items : i < j =>
          \A a \in ToSet(Contents(h, items[i])), b \in ToSet(Contents(h, items[j])) : a < b

(* However texts, elements and repeated elements are mixed, the siblings   *)
(* that become items of an array, the items that collapse and the elements *)
(* that are replaced by an array keep every value of the text, once, with  *)
(* the other values of its element and, in an array, in the order read.    *)
NothingReadIsLost ==
  reader.heap # <<>> =>
    /\ EveryValueOnce(reader.heap)
    /\ ElementsTogether(reader.heap)
    /\ ArraysInOrder(reader.heap)

=============================================================================
