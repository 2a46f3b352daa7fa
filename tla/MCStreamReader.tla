--------------------------- MODULE MCStreamReader ---------------------------
(***************************************************************************)
(* Instances of StreamReader for TLC: every short input over the markers   *)
(* that steer the reader, and every encoding of a few Values.              *)
(***************************************************************************)
EXTENDS StreamReader, SequencesExt

(* The markers that steer the reader, and the digits 0 and -1.             *)
Alphabet ==
  {Marker.Array_Start, Marker.Array_End, Marker.Object_Start,
   Marker.Object_End, Marker.Optimized_Count, Marker.Optimized_Type,
   Marker.Int8, Marker.Int16, Marker.String, Marker.Binary,
   Marker.True, 0, 255}

Short(n) == UNION {[1..k -> Alphabet] : k \in 0..n}

Short4 == Short(4)

-----------------------------------------------------------------------------
(* The wire format, as the grammar of ubjson.org gives it: every form of a *)
(* Value in a format f, which says the types that a length or a count may  *)
(* have, the types the elements of a container may have in common, what    *)
(* may stand between two elements, and what is a Null.                     *)

IntegerMarkers == {Marker.Int8, Marker.Int16, Marker.Int32, Marker.Int64}

Common ==
  IntegerMarkers \cup
  {Marker.Null, Marker.True, Marker.False, Marker.Char, Marker.Uint8,
   Marker.Float32, Marker.Float64, Marker.String, Marker.Array_Start,
   Marker.Object_Start}

(* Draft 12, without high-precision numbers, which no Value holds.         *)
Draft12 ==
  [lengths |-> IntegerMarkers \cup {Marker.Uint8},
   counts  |-> IntegerMarkers \cup {Marker.Uint8},
   types   |-> Common,
   between |-> {<<>>, <<Marker.No_Op>>},
   null    |-> {<<Marker.Null>>}]

(* What the reader knows of it.                                            *)
Known ==
  [lengths |-> IntegerMarkers,
   counts  |-> {Marker.Int16, Marker.Int32, Marker.Int64},
   types   |-> {},
   between |-> {<<>>},
   null    |-> {<<Marker.Null>>}]

Holds(m, n) ==
  IF m = Marker.Uint8 THEN n \in 0..255 ELSE Signed(BigEndian(n, Width(m))) = n

Integers(n, markers) ==
  {<<m>> \o BigEndian(n, Width(m)) : m \in {k \in markers : Holds(k, n)}}

Sized(s, f) == {n \o s : n \in Integers(Len(s), f.lengths)}

Prefixed(m, S) == {<<m>> \o s : s \in S}

RECURSIVE Encodings(_, _), Items(_, _, _), Members(_, _, _, _)

(* An element, without its marker m when the container has told the type.  *)
ElementForms(v, m, f) ==
  IF m = Marker.Invalid THEN Encodings(v, f)
  ELSE {Tail(x) : x \in {y \in Encodings(v, f) : Head(y) = m}}

Between(m, f) == IF m = Marker.Invalid THEN f.between ELSE {<<>>}

Items(s, m, f) ==
  IF s = <<>> THEN Between(m, f)
  ELSE {n \o x \o y : n \in Between(m, f), x \in ElementForms(Head(s), m, f),
                      y \in Items(Tail(s), m, f)}

(* The members of a Map may come in any order.                             *)
Members(map, keys, m, f) ==
  IF keys = {} THEN {<<>>}
  ELSE UNION {{k \o x \o y : k \in Sized(key, f), x \in ElementForms(map[key], m, f),
                             y \in Members(map, keys \ {key}, m, f)} : key \in keys}

Counted(start, counts, bodies, f) ==
  {start \o <<Marker.Optimized_Count>> \o c \o s :
     c \in UNION {Integers(n, f.counts) : n \in counts}, s \in bodies}

Contained(start, end, n, Bodies(_), f) ==
  {<<start>> \o s \o <<end>> : s \in Bodies(Marker.Invalid)}
    \cup Counted(<<start>>, {n}, Bodies(Marker.Invalid), f)
    \cup UNION {Counted(<<start, Marker.Optimized_Type, m>>, {n}, Bodies(m), f) :
                  m \in f.types}

Encodings(v, f) ==
  CASE v.type = "Null" -> f.null
    [] v.type = "Bool" -> {<<IF v.Bool THEN Marker.True ELSE Marker.False>>}
    [] v.type = "Char" -> {<<Marker.Char, v.Char>>}
    [] v.type = "SignedInt" -> Integers(v.SignedInt, IntegerMarkers)
    [] v.type = "UnsignedInt" -> {<<Marker.Uint8, v.UnsignedInt>>}
    [] v.type = "Float" -> {<<v.Float[1]>> \o v.Float[2]}
    [] v.type = "String" -> Prefixed(Marker.String, Sized(v.String, f))
    [] v.type = "Binary" -> Prefixed(Marker.Binary, Sized(v.Binary, f))
    [] v.type = "Array" ->
         Contained(Marker.Array_Start, Marker.Array_End,
                   Len(v.Array), LAMBDA m : Items(v.Array, m, f), f)
    [] v.type = "Map" ->
         Contained(Marker.Object_Start, Marker.Object_End,
                   Cardinality(DOMAIN v.Map),
                   LAMBDA m : Members(v.Map, DOMAIN v.Map, m, f), f)

Forms(S, f) == UNION {Encodings(v, f) : v \in S}

Scalars ==
  {NullValue, BoolValue(TRUE), BoolValue(FALSE), CharValue(125),
   SignedValue(-1), SignedValue(300), UnsignedValue(200),
   FloatValue(<<Marker.Float32, <<1, 0, 93>>>>),
   FloatValue(<<Marker.Float64, <<127, 240, 0>>>>),
   StringValue(<<>>), StringValue(<<93>>), BinaryValue(<<91, 35>>)}

(* Elements whose bytes look like the markers of a container.              *)
Tricky == {NullValue, UnsignedValue(93), StringValue(<<125>>)}

Empty == {ArrayValue(<<>>), MapValue(<<>>)}

Arrays(S) == {ArrayValue(<<x>>) : x \in S}
               \cup {ArrayValue(<<x, y>>) : x \in Tricky, y \in S}

Maps(S) == {AssignKey(NullValue, k, x) : k \in {<<>>, <<125>>}, x \in S}
             \cup {AssignKey(AssignKey(NullValue, <<1>>, x), <<2>>, y) :
                     x, y \in {NullValue, UnsignedValue(125)}}

Nested == {ArrayValue(<<NullValue>>), AssignKey(NullValue, <<>>, NullValue)} \cup Empty

Samples ==
  Scalars \cup Empty \cup Arrays(Scalars) \cup Maps(Tricky) \cup Arrays(Nested) \cup Maps(Nested)

(* A sample, and what the next call should find.                           *)
NextOnStream == <<Marker.Uint8, 91>>
Followed(S, f) == {x \o NextOnStream : x \in Forms(S, f)}

Documents == Followed(Samples, Known)

-----------------------------------------------------------------------------
(* Properties of the encoded inputs.                                       *)

(* How the reader sees it: push_back and operator[] make the containers,   *)
(* so one without elements stays the Null that it was.                     *)
AsRead == [Known EXCEPT !.null = @ \cup Forms(Empty, Known)]

(* A Value on the stream is read back as that Value in each of the forms   *)
(* the reader knows: lengths that are no uint8, counts that are no byte at *)
(* all, no types, nothing between the elements.  An empty container in it  *)
(* becomes a Null.  The call returns true, has taken exactly the bytes of  *)
(* the Value, and leaves the next one for the next call.  Only a Value     *)
(* longer than max_object_size is refused.  The run of ReadsDraft12 shows  *)
(* what the reader makes of the other forms.                               *)
ReadsKnownForms ==
  (pc = "idle" /\ calls = 1) =>
    \/ /\ result = "true"
       /\ taken \in Encodings(vals[1], AsRead)
       /\ stream = NextOnStream
    \/ /\ result = "false" /\ last_error = "policy"
       /\ Len(taken) + Len(stream) > MaxObjectSize + Len(NextOnStream)

(* The bytes of a Value up to the end of its last element.  A Null may be  *)
(* a container that has none so far.                                       *)
Begun(v) ==
  LET Started(start, bodies) ==
        Prefixed(start, bodies) \cup Counted(<<start>>, 0..3, bodies, AsRead)
  IN  CASE v.type = "Array" -> Started(Marker.Array_Start,
                                       Items(v.Array, Marker.Invalid, AsRead))
        [] v.type = "Map" ->
             Started(Marker.Object_Start,
                     Members(v.Map, DOMAIN v.Map, Marker.Invalid, AsRead))
        [] OTHER -> {<<>>} \cup Started(Marker.Array_Start, {<<>>})
                           \cup Started(Marker.Object_Start, {<<>>})

(* What may come behind bytes that Begun gives.                            *)
Elements == Forms(Scalars \cup Tricky \cup Nested \cup {UnsignedValue(125)}, Known)
Keys == UNION {Sized(k, Known) : k \in {<<>>, <<125>>, <<1>>, <<2>>}}

NextElements(s) ==
  IF IsPrefix(<<Marker.Object_Start>>, s) THEN {k \o x : k \in Keys, x \in Elements}
  ELSE Elements

(* A call that fails in the middle of a container leaves the caller every  *)
(* element whose last byte it has read, in order and whole, and nothing of *)
(* the element that failed; one that fails in a scalar leaves the Null.    *)
FailureKeepsWholeElements ==
  (result = "false" /\ given = NullValue) =>
    LET begun == {s \in Begun(vals[1]) : IsPrefix(s, taken)}
    IN  \E s \in begun :
          /\ \A t \in begun : Len(t) <= Len(s)
          /\ \A x \in NextElements(s) : ~IsPrefix(s \o x, taken)

-----------------------------------------------------------------------------
(* What the documents of the project say of the reader, and its code does  *)
(* not do.  Each has a run that shows how.                                 *)

(* Values, and a form that Draft 12 has for each of them: an empty array,  *)
(* a string with its length in one byte, a no-op before an element, a      *)
(* strongly typed array, and an array with its length in an int8.          *)
Sent ==
  <<ArrayValue(<<>>), StringValue(<<65>>), BoolValue(TRUE),
    ArrayValue(<<UnsignedValue(7)>>), ArrayValue(<<UnsignedValue(9)>>)>>

Sendings ==
  <<<<Marker.Array_Start, Marker.Array_End>>,
    <<Marker.String, Marker.Uint8, 1, 65>>,
    <<Marker.No_Op, Marker.True>>,
    <<Marker.Array_Start, Marker.Optimized_Type, Marker.Uint8,
      Marker.Optimized_Count, Marker.Int16>> \o BigEndian(1, 2) \o <<7>>,
    <<Marker.Array_Start, Marker.Optimized_Count, Marker.Int8, 1, Marker.Uint8, 9>>>>

ASSUME SendingsAreDraft12 ==
  \A i \in DOMAIN Sent :
    \E n \in Draft12.between, x \in Encodings(Sent[i], Draft12) : Sendings[i] = n \o x

Draft12Document ==
  {<<Marker.Array_Start>> \o FlattenSeq(Sendings) \o <<Marker.Array_End>>}

(* README.md:4: the library implements Draft 12, so it reads these Values, *)
(* as elements of one array.                                               *)
ReadsDraft12 ==
  (pc = "idle" /\ calls > 0) => result = "true" /\ vals[1] = ArrayValue(Sent)

(* A string announces two bytes and the stream ends after the first.       *)
TruncatedDocument == {<<Marker.String, Marker.Int8, 2, 65>>}

(* main.cpp:94: a call that returns true has successfully read its Value,  *)
(* so the stream had every byte of it.                                     *)
SuccessMeansRead == result = "true" => missing = 0
=============================================================================
