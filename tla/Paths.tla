------------------------------- MODULE Paths -------------------------------
(***************************************************************************)
(* XPath: a queue of keys that is written as a text and read from one.  A  *)
(* text is a sequence of characters.  An index is one digit here.          *)
(***************************************************************************)
EXTENDS SequencesExt

CONSTANTS
  Chars,       \* the characters of the texts, ":" "[" and "]" among them
  Digits,      \* the characters isdigit accepts
  MaxKeys,     \* the longest path
  MaxText      \* the longest text

ASSUME CharsAssumption ==
  /\ {":", "[", "]"} \subseteq Chars
  /\ Digits \subseteq Chars \ {":", "[", "]"}

VARIABLES
  path         \* the deque of keys

Texts == UNION {[1 .. n -> Chars] : n \in 0 .. MaxText}

StringKey(s) == [type |-> "String", str |-> s]
IndexKey(digits) == [type |-> "Index", str |-> digits]

XKeys == {StringKey(s) : s \in Texts} \cup {IndexKey(<<d>>) : d \in Digits}

Delimiter == <<":", ":">>

(* The first place where p begins in s, 0 when there is none (find). *)
Find(s, p) ==
  LET at == {i \in 1 .. Len(s) - Len(p) + 1 : SubSeq(s, i, i + Len(p) - 1) = p}
  IN  IF at = {} THEN 0 ELSE CHOOSE i \in at : \A j \in at : i <= j

From(s, i) == SubSeq(s, i, Len(s))

-----------------------------------------------------------------------------
(* to_string. *)

Braced(s) == <<"[">> \o s \o <<"]">>

(* Mutation: only brackets make a key ambiguous. *)
NeedsBracesForBrackets(s) == Contains(s, "[") \/ Contains(s, "]")

NeedsBraces(s) == Find(s, Delimiter) # 0 \/ Contains(s, "[") \/ Contains(s, "]")

WithKey(out, key) ==
  IF key.type = "Index" \/ NeedsBraces(key.str) THEN out \o Braced(key.str)
  ELSE out \o (IF out = <<>> THEN <<>> ELSE Delimiter) \o key.str

Joined(keys) ==
  LET out[n \in 0 .. Len(keys)] == IF n = 0 THEN <<>> ELSE WithKey(out[n - 1], keys[n])
  IN  out[Len(keys)]

-----------------------------------------------------------------------------
(* _split_key. *)

(* The digits a text begins with (atoi). *)
Number(s) ==
  LET n == CHOOSE i \in 0 .. Len(s) :
             /\ \A j \in 1 .. i : s[j] \in Digits
             /\ i < Len(s) => s[i + 1] \notin Digits
  IN  SubSeq(s, 1, n)

(* Leading delimiters are skipped, so that there are no empty keys. *)
Stripped(s) ==
  LET Begins(n) == Find(From(s, 2 * n + 1), Delimiter) = 1
      skipped == CHOOSE n \in 0 .. Len(s) : ~Begins(n) /\ \A m \in 0 .. n - 1 : Begins(m)
  IN  From(s, 2 * skipped + 1)

SplitBraced(s) ==
  LET close == Find(s, <<"]">>)
      rest == IF close = 0 THEN <<>> ELSE From(s, close + 1)
      inside == From(IF close = 0 THEN s ELSE SubSeq(s, 1, close - 1), 2)
  IN  IF s[2] \in Digits
      THEN [key |-> IndexKey(Number(From(s, 2))), rest |-> rest]
      ELSE [key |-> StringKey(inside), rest |-> rest]

SplitPlain(s) ==
  LET dots == Find(s, Delimiter)
      brace == Find(s, <<"[">>)
  IN  IF brace # 0 /\ (dots = 0 \/ brace < dots)
      THEN IF brace = Len(s) THEN [key |-> StringKey(s), rest |-> <<>>]
           ELSE [key |-> StringKey(SubSeq(s, 1, brace - 1)), rest |-> From(s, brace)]
      ELSE IF dots = 0 THEN [key |-> StringKey(s), rest |-> <<>>]
           ELSE [key |-> StringKey(SubSeq(s, 1, dots - 1)), rest |-> From(s, dots + 2)]

SplitKey(text) ==
  LET s == Stripped(text)
  IN  IF Find(s, <<"[">>) = 1 /\ Len(s) > 1 THEN SplitBraced(s) ELSE SplitPlain(s)

(* _add_keys_str: a string key that comes out empty is left out.  The loop *)
(* is a function of how much of the text is left.                          *)
Split(s) ==
  LET keys[n \in 0 .. Len(s)] ==
        IF n = 0 THEN <<>>
        ELSE LET part == SplitKey(From(s, Len(s) - n + 1))
             IN  (IF part.key = StringKey(<<>>) THEN <<>> ELSE <<part.key>>)
                 \o keys[Len(part.rest)]
  IN  keys[Len(s)]

-----------------------------------------------------------------------------
(* A path is built from keys and texts, and taken apart at both ends. *)

PathInit == path = <<>>

AddKey(key) ==
  /\ Len(path) < MaxKeys
  /\ path' = Append(path, key)

AddText(s) ==
  /\ Len(path) + Len(Split(s)) <= MaxKeys
  /\ path' = path \o Split(s)

PopBack == path' = IF path = <<>> THEN path ELSE Front(path)
PopFront == path' = IF path = <<>> THEN path ELSE Tail(path)

PathNext ==
  \/ \E key \in XKeys : AddKey(key)
  \/ \E s \in Texts : AddText(s)
  \/ PopBack \/ PopFront

PathSpec == PathInit /\ [][PathNext]_path

-----------------------------------------------------------------------------
Unbraced(key) == key.type = "String" /\ ~NeedsBraces(key.str)

(* A text can hold a string key unless it is empty, contains a closing     *)
(* bracket, begins with a digit and needs brackets, or ends with a colon   *)
(* before the delimiter.                                                   *)
Writable(keys) ==
  \A i \in DOMAIN keys : keys[i].type = "String" =>
    LET s == keys[i].str
    IN  /\ s # <<>> /\ ~Contains(s, "]")
        /\ NeedsBraces(s) => s[1] \notin Digits
        /\ Unbraced(keys[i]) /\ i < Len(keys) /\ Unbraced(keys[i + 1]) => Last(s) # ":"

(* A path that is written and read again is the same path: delimiters and  *)
(* brackets within its keys are told from those between them.              *)
SplitUndoesJoin == Writable(path) => Split(Joined(path)) = path
=============================================================================
