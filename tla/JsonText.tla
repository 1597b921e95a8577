------------------------------ MODULE JsonText ------------------------------
(***************************************************************************)
(* ToJson and FromJson.  A text is the sequence of what the JSON parser    *)
(* reports to its handler: the begin and end of maps and arrays, keys and  *)
(* values.  The parser (RapidJSON) accepts any text that is well formed,   *)
(* and stops where it is not, or where the handler returns false.          *)
(***************************************************************************)
EXTENDS Documents

Start(type) == [event |-> "start", val |-> XValue(type, 0)]
End == [event |-> "end", val |-> Empty]
KeyOf(k) == [event |-> "key", val |-> XValue("key", k)]
ValueOf(v) == [event |-> "value", val |-> v]

(* A number without a sign is reported as unsigned. *)
Scanned(n) == IF n >= 0 THEN XValue("uint64", n) ELSE XValue("int64", n)

(* uint64 is written with Int64. *)
AsSigned(n) == IF n > MaxInt64 THEN n - 2 * (MaxInt64 + 1) ELSE n

(* A value as it is written, and then reported. *)
Printed(v) ==
  CASE v.type \in {"empty", "null"} -> Null
    [] v.type = "int64" -> Scanned(v.val)
    [] v.type = "uint64" -> Scanned(AsSigned(v.val))
    [] OTHER -> v

(* WriteXNode and WriteXValue. *)
RECURSIVE ToJson(_, _)
ToJson(h, n) ==
  LET Write(out, k) ==
        LET v == h[n].items[k]
        IN  out \o (IF h[n].type = "Map" THEN <<KeyOf(k)>> ELSE <<>>)
                \o (IF IsObject(v) THEN ToJson(h, v.val) ELSE <<ValueOf(Printed(v))>>)
  IN  FoldLeft(Write, <<Start(h[n].type)>>, Listed(h, n)) \o <<End>>

-----------------------------------------------------------------------------
(* The handler: the nodes that are open, the key that was read last, and   *)
(* the value at the top.                                                   *)

EndKey == -1          \* kIdxEnd
BlankKey == 0         \* the empty string

NewHandler == [heap |-> <<>>, nodes |-> <<>>, key |-> EndKey, root |-> Empty, failed |-> FALSE]

(* A map takes a key that is not blank and has no item, not even a null    *)
(* one; an array takes any, and puts what is not an index at its end.      *)
MapTakes(h, n, k) == k \notin DOMAIN h[n].items \cup {EndKey, BlankKey}
ArrayEnd(h, n) == Cardinality(DOMAIN h[n].items)

(* INode::Insert, of a value the node does not hold yet. *)
Inserts(h, n, k) == h[n].type = "Array" \/ MapTakes(h, n, k)

Inserted(h, n, k, v) ==
  LET at == IF h[n].type = "Array" THEN ArrayEnd(h, n) ELSE k
      into == [h EXCEPT ![n].items = (at :> v) @@ @]
  IN  IF IsObject(v) THEN [into EXCEPT ![v.val].parent = n] ELSE into

PutValue(x, v) ==
  IF x.nodes = <<>> THEN [x EXCEPT !.root = v]
  ELSE LET n == Last(x.nodes)
       IN  IF Inserts(x.heap, n, x.key)
           THEN [x EXCEPT !.heap = Inserted(@, n, x.key, v), !.key = EndKey]
           ELSE [x EXCEPT !.failed = TRUE, !.key = EndKey]


(* A node that could not be put in is filled all the same, and lost.       *)
PutNode(x, type) ==
  LET new == Len(x.heap) + 1
      put == PutValue([x EXCEPT !.heap = Append(@, Node(type, <<>>, 0))], Ref(new))
  IN  [put EXCEPT !.nodes = Append(@, new), !.failed = x.failed]

EndNode(x) == [x EXCEPT !.nodes = Front(@)]

Handle(x, e) ==
  CASE x.failed -> x
    [] ~x.failed /\ e.event = "start" -> PutNode(x, e.val.type)
    [] ~x.failed /\ e.event = "end" -> EndNode(x)
    [] ~x.failed /\ e.event = "key" -> [x EXCEPT !.key = e.val.val]
    [] ~x.failed /\ e.event = "value" -> PutValue(x, e.val)

FromJson(text) == FoldLeft(Handle, NewHandler, text)

-----------------------------------------------------------------------------
(* What a document says, as far as JSON can say it. *)
RECURSIVE Said(_)
Said(c) == [leaf |-> Printed(c.leaf), kids |-> [k \in DOMAIN c.kids |-> Said(c.kids[k])]]

RECURSIVE PartOf(_, _)
PartOf(c, d) ==
  /\ c.leaf = d.leaf
  /\ DOMAIN c.kids \subseteq DOMAIN d.kids
  /\ \A k \in DOMAIN c.kids : PartOf(c.kids[k], d.kids[k])
=============================================================================
