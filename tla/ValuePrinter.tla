---------------------------- MODULE ValuePrinter ----------------------------
(***************************************************************************)
(* to_ostream (src/value.cpp): a Value as tokens of JSON text, with the    *)
(* lines and tabs of the pretty form.  A Value that is no container is one *)
(* token, which JSON reads as that Value or not at all.                    *)
(***************************************************************************)
EXTENDS UbjsonValue, SequencesExt

CONSTANTS
  NotFinite,         (* the doubles that are NaN or infinite               *)
  NeedsEscape(_)     (* whether a String or Char has a quote, a backslash  *)
                     (* or a control character in it                       *)

Mark(s) == [is |-> s, of |-> NullValue]

(* Nothing is escaped, NaN and infinity are words, a Binary is a phrase.   *)
Spelled(v) ==
  \/ v.type \in {"Null", "Bool", "SignedInt", "UnsignedInt"}
  \/ v.type = "Float" /\ v.Float \notin NotFinite
  \/ v.type \in {"String", "Char"} /\ ~NeedsEscape(v)

Scalar(v) == IF Spelled(v) THEN [is |-> "scalar", of |-> v] ELSE Mark("words")
Newline == [is |-> "newline", of |-> 0]
Tabs(n) == [is |-> "tabs", of |-> n]

(* A to_ostream p: whether it is pretty, the length of its addendum, which *)
(* is all tabs, and what it has printed.                                   *)
Printer(pretty) == [pretty |-> pretty, tabs |-> 0, out |-> <<>>]

Emit(p, tokens) == [p EXCEPT !.out = @ \o tokens]
push_addendum(p) == [p EXCEPT !.tabs = @ + 1]

(* Mutant: the addendum stays.                                             *)
pop_nothing(p) == p
pop_addendum(p) == [p EXCEPT !.tabs = IF @ = 0 THEN 0 ELSE @ - 1]

(* Only the pretty form pushes, both forms pop.                            *)
Indent(p) == IF p.pretty THEN push_addendum(p) ELSE p

EndOfLine(p) == Emit(p, IF p.pretty THEN <<Newline>> ELSE <<>>)
Addendum(p) == Emit(p, IF p.tabs > 0 THEN <<Tabs(p.tabs)>> ELSE <<>>)

(* Mutant: a comma behind the last element as well.                        *)
CommaAlways(p, i, n) == Emit(p, <<Mark(",")>>)

Comma(p, i, n) == IF i < n THEN Emit(p, <<Mark(",")>>) ELSE p
CloseArray(p) == Emit(pop_addendum(p), <<Mark("]")>>)

RECURSIVE print_value(_, _)

print_array(p, v) ==
  LET item(q, i) == Comma(print_value(q, v.Array[i]), i, Len(v.Array))
  IN  CloseArray(FoldLeftDomain(item, Emit(Indent(p), <<Mark("[")>>), v.Array))

(* The order of keys() is any one.                                         *)
print_object(p, v) ==
  LET keys == SetToSeq(DOMAIN v.Map)
      member(q, i) ==
        LET key == Emit(Addendum(q), <<Scalar(StringValue(keys[i])), Mark(":")>>)
        IN  EndOfLine(Comma(print_value(key, v.Map[keys[i]]), i, Len(keys)))
      open == Indent(EndOfLine(Emit(p, <<Mark("{")>>)))
  IN  Emit(Addendum(pop_addendum(FoldLeftDomain(member, open, keys))), <<Mark("}")>>)

print_value(p, v) ==
  CASE v.type = "Array" -> print_array(p, v)
    [] v.type = "Map"   -> print_object(p, v)
    [] OTHER            -> Emit(p, <<Scalar(v)>>)

Printed(v, pretty) == print_value(Printer(pretty), v).out

-----------------------------------------------------------------------------
(* Properties.                                                             *)

(* A reader of JSON: the Value at the start of the tokens s, a Null if     *)
(* there is none, and what follows it.                                     *)
Starts(s, mark) == s # <<>> /\ Head(s).is = mark
Broken == [v |-> NullValue, rest |-> <<>>, ok |-> FALSE]

RECURSIVE JsonValue(_)
RECURSIVE JsonItems(_, _)
RECURSIVE JsonMembers(_, _)

JsonValue(s) ==
  CASE Starts(s, "scalar") -> [v |-> Head(s).of, rest |-> Tail(s), ok |-> TRUE]
    [] Starts(s, "[") ->
         IF Starts(Tail(s), "]")
         THEN [v |-> ArrayValue(<<>>), rest |-> Tail(Tail(s)), ok |-> TRUE]
         ELSE JsonItems(Tail(s), <<>>)
    [] Starts(s, "{") ->
         IF Starts(Tail(s), "}")
         THEN [v |-> MapValue(<<>>), rest |-> Tail(Tail(s)), ok |-> TRUE]
         ELSE JsonMembers(Tail(s), <<>>)
    [] OTHER -> Broken

JsonItems(s, f) ==
  LET item == JsonValue(s)
      g == Append(f, item.v)
  IN  CASE ~item.ok              -> Broken
        [] Starts(item.rest, ",") -> JsonItems(Tail(item.rest), g)
        [] Starts(item.rest, "]") ->
             [v |-> ArrayValue(g), rest |-> Tail(item.rest), ok |-> TRUE]
        [] OTHER                 -> Broken

JsonMembers(s, f) ==
  IF ~(Starts(s, "scalar") /\ Head(s).of.type = "String" /\ Starts(Tail(s), ":"))
  THEN Broken
  ELSE LET item == JsonValue(Tail(Tail(s)))
           k == Head(s).of.String
           g == [j \in DOMAIN f \cup {k} |-> IF j = k THEN item.v ELSE f[j]]
       IN  CASE ~item.ok              -> Broken
             [] Starts(item.rest, ",") -> JsonMembers(Tail(item.rest), g)
             [] Starts(item.rest, "}") ->
                  [v |-> MapValue(g), rest |-> Tail(item.rest), ok |-> TRUE]
             [] OTHER                 -> Broken

(* Every scalar and key in v can be read back.                             *)
RECURSIVE AllSpelled(_)
AllSpelled(v) ==
  CASE v.type = "Array" -> \A i \in DOMAIN v.Array : AllSpelled(v.Array[i])
    [] v.type = "Map"   ->
         \A k \in DOMAIN v.Map : Spelled(StringValue(k)) /\ AllSpelled(v.Map[k])
    [] OTHER            -> Spelled(v)

(* Both forms of v are JSON text for v: commas between the elements and    *)
(* nowhere else, every bracket closed in its place, however deep.          *)
IsJsonFor(v) ==
  \A pretty \in BOOLEAN :
    JsonValue(SelectSeq(Printed(v, pretty), LAMBDA t : t.is \notin {"newline", "tabs"}))
      = [v |-> v, rest |-> <<>>, ok |-> TRUE]

(* In the pretty form a line is indented once for each container that is   *)
(* open, the compact form has no layout.                                   *)
Depth(s) ==
  Len(SelectSeq(s, LAMBDA t : t.is \in {"[", "{"}))
    - Len(SelectSeq(s, LAMBDA t : t.is \in {"]", "}"}))

IndentedByDepth(v) ==
  LET out == Printed(v, TRUE)
      flat == Printed(v, FALSE)
  IN  /\ \A i \in DOMAIN out : out[i].is = "newline" =>
           LET closes == \E j \in i + 1 .. i + 2 \cap DOMAIN out : out[j].is = "}"
               tabs == IF out[i + 1].is = "tabs" THEN out[i + 1].of ELSE 0
           IN  tabs = Depth(SubSeq(out, 1, i)) - IF closes THEN 1 ELSE 0
      /\ \A i \in DOMAIN flat : flat[i].is \notin {"newline", "tabs"}
=============================================================================
