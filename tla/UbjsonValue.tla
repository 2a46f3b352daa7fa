---------------------------- MODULE UbjsonValue ----------------------------
(***************************************************************************)
(* ubjson::Value as a mathematical value.  A Value is a record whose       *)
(* "type" is vtype and whose other field is the union member vtype names;  *)
(* a Null has no member.  A Map is a function from keys (byte strings) to  *)
(* Values, an Array a sequence of Values.  A double is known by the marker *)
(* and bytes of its shortest exact encoding.                               *)
(***************************************************************************)
EXTENDS Integers, Sequences

NullValue == [type |-> "Null"]
BoolValue(b) == [type |-> "Bool", Bool |-> b]
CharValue(c) == [type |-> "Char", Char |-> c]
SignedValue(n) == [type |-> "SignedInt", SignedInt |-> n]
UnsignedValue(n) == [type |-> "UnsignedInt", UnsignedInt |-> n]
FloatValue(d) == [type |-> "Float", Float |-> d]
StringValue(s) == [type |-> "String", String |-> s]
BinaryValue(s) == [type |-> "Binary", Binary |-> s]
ArrayValue(s) == [type |-> "Array", Array |-> s]
MapValue(f) == [type |-> "Map", Map |-> f]

(* Value::push_back: a Null becomes an array of one, anything that is not  *)
(* an array becomes the first element of one.                              *)
PushFront(v, x) ==
  ArrayValue(CASE v.type = "Null"  -> <<x>>
               [] v.type = "Array" -> <<x>> \o v.Array
               [] OTHER            -> <<x, v>>)

PushBack(v, x) ==
  ArrayValue(CASE v.type = "Null"  -> <<x>>
               [] v.type = "Array" -> Append(v.Array, x)
               [] OTHER            -> <<v, x>>)

(* operator[](string) serves a Map and turns a Null into one; any other    *)
(* type throws value_exception.                                            *)
IndexableMap(v) == v.type = "Map"
Indexable(v) == v.type \in {"Null", "Map"}

(* v[k] = x for an Indexable v.                                            *)
AssignKey(v, k, x) ==
  LET m == IF v.type = "Map" THEN v.Map ELSE << >>
  IN  MapValue([j \in DOMAIN m \cup {k} |-> IF j = k THEN x ELSE m[j]])
=============================================================================
