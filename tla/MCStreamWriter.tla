--------------------------- MODULE MCStreamWriter ---------------------------
(***************************************************************************)
(* Instances of StreamWriter for TLC: Values that hold parts the writer    *)
(* cannot write, and a stream that may fail.                               *)
(***************************************************************************)
EXTENDS StreamWriter

Exact == <<Marker.Float32, <<64, 0, 0>>>>
Large == <<Marker.Float64, <<127, 0, 0, 1>>>>
Pi == <<Marker.Float64, <<64, 9, 33, 251>>>>
Infinity == <<Marker.Float64, <<127, 240, 0, 0>>>>

Rounding == [d \in {Pi} |-> <<64, 73, 15>>]
Refused == {Infinity}

Scalars ==
  {NullValue, CharValue(65), BinaryValue(<<1, 2>>), UnsignedValue(255),
   UnsignedValue(256), StringValue(<<>>), StringValue(<<7, 8>>)}
    \cup {SignedValue(n) : n \in {-129, -128, 127, 128, 32768, 8388608}}
    \cup {FloatValue(d) : d \in {Exact, Large, Pi, Infinity}}

(* What is written, what is not, and an empty container.                   *)
Parts == {NullValue, UnsignedValue(256), BinaryValue(<<1>>), ArrayValue(<<>>)}

Containers ==
  {ArrayValue(<<>>), MapValue(<< >>)}
    \cup {ArrayValue(<<x>>) : x \in Scalars}
    \cup {ArrayValue(<<x, y>>) : x, y \in Parts}
    \cup {AssignKey(NullValue, k, x) : k \in {<<>>, <<9>>}, x \in Scalars}
    \cup {AssignKey(AssignKey(NullValue, <<>>, x), <<9, 9>>, y) : x, y \in Parts}

Nested ==
  {ArrayValue(<<x, y>>) : x \in Containers, y \in Parts}
    \cup {AssignKey(AssignKey(NullValue, <<1>>, x), <<2>>, y) :
            x \in Containers, y \in Parts}

AllValues == Scalars \cup Containers \cup Nested
AllNodes == AllValues \cup Parts

(* An array of a part that is not written and one that is.                 *)
HalfWritten == {ArrayValue(<<BinaryValue(<<1>>), NullValue>>)}

-----------------------------------------------------------------------------
(* What README.md says of the pair, and the code does not do.              *)

(* README.md:118: if the second half of the pair is true, the Value was    *)
(* successfully written: no part of it was left out, and the stream has    *)
(* taken every byte.                                                       *)
SuccessMeansWritten ==
  (wpc = "idle" /\ rtn.second) => ~skipped /\ Len(out) = offered
=============================================================================
