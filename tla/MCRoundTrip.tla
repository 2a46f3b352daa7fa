---------------------------- MODULE MCRoundTrip ----------------------------
(***************************************************************************)
(* An instance of RoundTrip for TLC: Values whose every part the writer    *)
(* can write and the reader gives back.                                    *)
(***************************************************************************)
EXTENDS RoundTrip

(* The ends of the range of each width.                                    *)
Boundaries ==
  ArrayValue([i \in 1..13 |-> SignedValue(
    <<-8388609, -8388608, -32769, -32768, -129, -128, 0,
      127, 128, 32767, 32768, 8388607, 8388608>>[i])])

(* One of each other type, and bytes that look like markers.               *)
Others ==
  ArrayValue(<<BoolValue(TRUE), BoolValue(FALSE), CharValue(93),
               UnsignedValue(0), UnsignedValue(91), UnsignedValue(255),
               FloatValue(<<Marker.Float32, <<65, 125, 0>>>>),
               FloatValue(<<Marker.Float64, <<71, 239, 255, 255>>>>),
               StringValue(<<>>), StringValue([i \in 1..130 |-> 36])>>)

Few == {NullValue, SignedValue(-129), StringValue(<<93>>)}

Two(x, y) == AssignKey(AssignKey(NullValue, <<>>, x), <<35>>, y)

Shapes ==
  Few \cup {ArrayValue(<<x, y>>) : x, y \in Few}
      \cup {Two(x, ArrayValue(<<y>>)) : x, y \in Few}
      \cup {Boundaries, Two(Boundaries, Others), Two(Two(NullValue, Others), NullValue)}

(* A Value and what it holds, to the second level.                         *)
Within(v) ==
  CASE v.type = "Array" -> {v.Array[i] : i \in DOMAIN v.Array}
    [] v.type = "Map"   -> {v.Map[k] : k \in DOMAIN v.Map}
    [] OTHER            -> {}

Grow(S) == S \cup UNION {Within(v) : v \in S}

ShapeNodes == Grow(Grow(Grow(Shapes)))

(* No double of these is rounded or refused.                               *)
NoRounding == << >>

Nothing == {<<>>}

(* The theorems about the pair are about this instance.                    *)
ASSUME MCAssumption == Exchangeable
=============================================================================
