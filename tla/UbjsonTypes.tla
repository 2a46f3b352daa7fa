---------------------------- MODULE UbjsonTypes ----------------------------
(***************************************************************************)
(* The wire alphabet of UbjsonCpp: the markers of include/types.hpp with   *)
(* their ASCII codes, the payload widths of the fixed-size types, and the  *)
(* big-endian conversions of include/stream_helpers.hpp.                   *)
(***************************************************************************)
EXTENDS Integers, Sequences

CONSTANTS
  Width32,     (* bytes of int32_t and float;      4 in the code           *)
  Width64      (* bytes of int64_t and double;     8 in the code           *)

(* TLC's integers have 32 bits, so a run may use narrower words.           *)
ASSUME WidthAssumption == /\ Width32 \in 1..8
                          /\ Width64 \in 1..8

Byte == 0..255

Marker ==
  [Invalid |-> 0,
   Null |-> 90, No_Op |-> 78, Char |-> 67, True |-> 84, False |-> 70,
   Int8 |-> 105, Uint8 |-> 85, Int16 |-> 73, Int32 |-> 108, Int64 |-> 76,
   Float32 |-> 100, Float64 |-> 68, HighPrecision |-> 72,
   String |-> 83, Binary |-> 98,
   Object_Start |-> 123, Object_End |-> 125,
   Array_Start |-> 91, Array_End |-> 93,
   Optimized_Type |-> 36, Optimized_Count |-> 35]

(* What extract_Integer(false) accepts: a count is never a uint8.          *)
isInteger(b) ==
  b \in {Marker.Int8, Marker.Int16, Marker.Int32, Marker.Int64}

(* The count types recognised after '#': isSignedNumber leaves int8 out.   *)
isSignedNumberNarrow(b) == b \in {Marker.Int16, Marker.Int32}
isSignedNumber(b) == b \in {Marker.Int16, Marker.Int32, Marker.Int64}

isFixedSize(b) ==
  \/ isInteger(b)
  \/ b \in {Marker.Char, Marker.Uint8, Marker.Float32, Marker.Float64}

isContainerStart(b) == b \in {Marker.Object_Start, Marker.Array_Start}

isOptimizedMarker(b) == b \in {Marker.Optimized_Count, Marker.Optimized_Type}

(* Payload bytes that follow a fixed-size marker.                          *)
Width(b) ==
  CASE b = Marker.Int16                        -> 2
    [] b \in {Marker.Int32, Marker.Float32}    -> Width32
    [] b \in {Marker.Int64, Marker.Float64}    -> Width64
    [] OTHER                                   -> 1

(* Big-endian bytes as an unsigned number, at most eight digits.           *)
Unsigned(bs) ==
  LET d(i) == IF i < Len(bs) THEN bs[Len(bs) - i] ELSE 0
  IN  d(0) + 256 * (d(1) + 256 * (d(2) + 256 * (d(3) + 256 * (d(4)
        + 256 * (d(5) + 256 * (d(6) + 256 * d(7)))))))

(* The same bytes as a two's complement number.                            *)
SignedAsUnsigned(bs) == Unsigned(bs)
Signed(bs) ==
  IF bs[1] < 128 THEN Unsigned(bs)
                 ELSE -1 - Unsigned([i \in 1..Len(bs) |-> 255 - bs[i]])

(* A number, and what is left of it without its last byte, its last two    *)
(* and so on: arithmetic shifts to the right.                              *)
Shifted(x) ==
  LET q1 == x  \div 256  q2 == q1 \div 256  q3 == q2 \div 256
      q4 == q3 \div 256  q5 == q4 \div 256  q6 == q5 \div 256
      q7 == q6 \div 256
  IN  <<x, q1, q2, q3, q4, q5, q6, q7>>

(* The n big-endian bytes of a number, two's complement if it is negative. *)
BigEndian(x, n) == [i \in 1..n |-> Shifted(x)[n - i + 1] % 256]
=============================================================================
