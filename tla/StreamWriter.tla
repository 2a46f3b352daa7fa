---------------------------- MODULE StreamWriter ----------------------------
(***************************************************************************)
(* ubjson::StreamWriter (include/stream_writer.hpp): one writer on one     *)
(* stream, called again and again.  The calls of append_array and          *)
(* append_object that are open are the frames: what is left to write of    *)
(* the container and rtn, the pair each of them adds up.                   *)
(***************************************************************************)
EXTENDS UbjsonTypes, UbjsonValue

CONSTANTS
  Nodes,         (* the Values, and the Values they hold                   *)
  Values,        (* the Values a caller may write                          *)
  Rounded,       (* doubles in the range of float that float cannot hold,  *)
                 (* each with the bytes of the float it is rounded to      *)
  NotFinite,     (* the doubles in_range refuses: infinities and NaNs      *)
  Capacity,      (* bytes the stream takes before it fails                 *)
  MaxWrites      (* bound: calls of writeValue in a behaviour              *)

(* The union member of a Value is the one its type names.                  *)
WellFormed(v) ==
  /\ v.type \in {"Null", "Bool", "Char", "SignedInt", "UnsignedInt", "Float",
                "String", "Binary", "Array", "Map"}
  /\ v.type = "Char" => v.Char \in Byte
  /\ v.type = "SignedInt" => v.SignedInt \in Int
  /\ v.type = "UnsignedInt" => v.UnsignedInt \in Nat
  /\ v.type = "Float" =>
       /\ v.Float[1] \in {Marker.Float32, Marker.Float64}
       /\ v.Float[2] \in Seq(Byte) /\ Len(v.Float[2]) = Width(v.Float[1])
  /\ v.type = "String" => v.String \in Seq(Byte)
  /\ v.type = "Array" => v.Array \in Seq(Nodes)
  /\ v.type = "Map" => /\ DOMAIN v.Map \subseteq Seq(Byte)
                       /\ v.Map \in [DOMAIN v.Map -> Nodes]

ASSUME WriterAssumption ==
  /\ Capacity \in Nat
  /\ MaxWrites \in Nat
  /\ Values \subseteq Nodes
  /\ \A v \in Nodes : WellFormed(v)
  /\ \A d \in DOMAIN Rounded : Rounded[d] \in Seq(Byte) /\ Len(Rounded[d]) = Width32

VARIABLES
  out,           (* what the stream has taken                              *)
  offered,       (* history: bytes handed to the stream                    *)
  wpc,           (* the statement that comes next                          *)
  wframes,       (* the open calls of append_array and append_object       *)
  value,         (* the Value being appended                               *)
  rtn,           (* the pair being returned                                *)
  written,       (* the Value of the last call of writeValue               *)
  start,         (* history: offered when that call began                  *)
  skipped,       (* history: it met a Value that it did not write          *)
  writes         (* history: calls made so far                             *)

wvars == <<out, offered, wpc, wframes, value, rtn, written, start, skipped, writes>>

WTop == wframes[Len(wframes)]

-----------------------------------------------------------------------------
(* The stream takes what fits and drops the rest; write() says true.       *)
Write(bs) ==
  /\ offered' = offered + Len(bs)
  /\ out' = out \o SubSeq(bs, 1, IF Len(bs) <= Capacity - Len(out)
                                 THEN Len(bs) ELSE Capacity - Len(out))

(* A word holds n if n without the other bytes is in the range of int8.    *)
InRange(n, width) == Shifted(n)[width] \in -128 .. 127

(* append_signedInt: the narrowest of the four types that holds n.         *)
IntMarkerUnsigned(n) ==
  CASE -128 <= n /\ n <= 255 -> Marker.Int8
    [] OTHER                 -> Marker.Int16

IntMarkerWidest(n) == Marker.Int64

IntMarker(n) ==
  IF InRange(n, 1) THEN Marker.Int8
  ELSE IF InRange(n, 2) THEN Marker.Int16
  ELSE IF InRange(n, Width32) THEN Marker.Int32
  ELSE Marker.Int64

IntBytesUncast(n) == <<IntMarker(n), n>>
IntBytes(n) == <<IntMarker(n)>> \o BigEndian(n, Width(IntMarker(n)))

IntSize(n) ==
  CASE IntMarker(n) = Marker.Int8  -> 2
    [] IntMarker(n) = Marker.Int16 -> 3
    [] IntMarker(n) = Marker.Int32 -> Width32 + 1
    [] OTHER                       -> Width64 + 1

(* append_float: every finite double in the range of float is written as   *)
(* one, whether float can hold it or not.                                  *)
FloatBytes(d) ==
  CASE d \in DOMAIN Rounded -> <<Marker.Float32>> \o Rounded[d]
    [] OTHER                -> <<d[1]>> \o d[2]

(* append_value leaves out Binary, append_unsignedInt what a uint8 cannot  *)
(* hold and append_float what is in no range: they write nothing.          *)
Writable(v) ==
  CASE v.type = "Binary"      -> FALSE
    [] v.type = "UnsignedInt" -> v.UnsignedInt <= 255
    [] v.type = "Float"       -> v.Float \notin NotFinite
    [] OTHER                  -> TRUE

ScalarBytes(v) ==
  CASE v.type = "Null"        -> <<Marker.Null>>
    [] v.type = "Bool"        -> <<IF v.Bool THEN Marker.True ELSE Marker.False>>
    [] v.type = "Char"        -> <<Marker.Char, v.Char>>
    [] v.type = "SignedInt"   -> IntBytes(v.SignedInt)
    [] v.type = "UnsignedInt" -> <<Marker.Uint8, v.UnsignedInt>>
    [] v.type = "Float"       -> FloatBytes(v.Float)
    [] v.type = "String"      -> <<Marker.String>> \o IntBytes(Len(v.String))
                                                   \o v.String

(* What the append functions report for it.                                *)
ScalarSize(v) ==
  CASE v.type \in {"Null", "Bool"}          -> 1
    [] v.type \in {"Char", "UnsignedInt"}   -> 2
    [] v.type = "SignedInt"                 -> IntSize(v.SignedInt)
    [] v.type = "Float" -> IF FloatBytes(v.Float)[1] = Marker.Float32
                           THEN Width32 + 1 ELSE Width64 + 1
    [] v.type = "String" -> IntSize(Len(v.String)) + Len(v.String) + 1

-----------------------------------------------------------------------------
Pair(first, second) == [first |-> first, second |-> second]

(* update: the bytes add up, the verdict is that of the last one.          *)
Update(src, dest) == Pair(dest.first + src.first, src.second)

WriteValue(v) ==
  /\ wpc = "idle" /\ writes < MaxWrites
  /\ writes' = writes + 1
  /\ value' = v
  /\ written' = v
  /\ start' = offered
  /\ skipped' = FALSE
  /\ wpc' = "append"
  /\ UNCHANGED <<out, offered, wframes, rtn>>

AppendScalar ==
  /\ wpc = "append" /\ value.type \notin {"Array", "Map"}
  /\ Writable(value)
  /\ Write(ScalarBytes(value))
  /\ rtn' = Pair(ScalarSize(value), TRUE)
  /\ wpc' = "return"
  /\ UNCHANGED <<wframes, value, written, start, skipped, writes>>

AppendNothing ==
  /\ wpc = "append" /\ ~Writable(value)
  /\ rtn' = Pair(0, FALSE)
  /\ skipped' = TRUE
  /\ wpc' = "return"
  /\ UNCHANGED <<out, offered, wframes, value, written, start, writes>>

(* append_array counts both brackets at once.                              *)
AppendArray ==
  /\ wpc = "append" /\ value.type = "Array"
  /\ Write(<<Marker.Array_Start>>)
  /\ wframes' = Append(wframes, [of    |-> value,
                                 i     |-> 1,
                                 keys  |-> {},
                                 rtn   |-> Pair(2, FALSE),
                                 begun |-> offered])
  /\ wpc' = "next"
  /\ UNCHANGED <<value, rtn, written, start, skipped, writes>>

NextItem ==
  /\ wpc = "next" /\ WTop.of.type = "Array"
  /\ WTop.i <= Len(WTop.of.Array)
  /\ wframes' = [wframes EXCEPT ![Len(wframes)].i = @ + 1]
  /\ value' = WTop.of.Array[WTop.i]
  /\ wpc' = "append"
  /\ UNCHANGED <<out, offered, rtn, written, start, skipped, writes>>

(* append_object takes the keys as the unordered map yields them, and      *)
(* counts the closing brace when it has written it.                        *)
AppendObject ==
  /\ wpc = "append" /\ value.type = "Map"
  /\ Write(<<Marker.Object_Start>>)
  /\ wframes' = Append(wframes, [of    |-> value,
                                 i     |-> 1,
                                 keys  |-> DOMAIN value.Map,
                                 rtn   |-> Pair(1, FALSE),
                                 begun |-> offered])
  /\ wpc' = "next"
  /\ UNCHANGED <<value, rtn, written, start, skipped, writes>>

KeySize(key) == IntSize(Len(key)) + Len(key)

NextKey ==
  /\ wpc = "next" /\ WTop.of.type = "Map"
  /\ \E key \in WTop.keys :
       /\ Write(IntBytes(Len(key)) \o key)
       /\ wframes' = [wframes EXCEPT
            ![Len(wframes)].keys = @ \ {key},
            ![Len(wframes)].rtn = Update(Pair(KeySize(key), TRUE), @)]
       /\ value' = WTop.of.Map[key]
  /\ wpc' = "append"
  /\ UNCHANGED <<rtn, written, start, skipped, writes>>

Pop == wframes' = SubSeq(wframes, 1, Len(wframes) - 1)

EndArray ==
  /\ wpc = "next" /\ WTop.of.type = "Array" /\ WTop.i > Len(WTop.of.Array)
  /\ Write(<<Marker.Array_End>>)
  /\ rtn' = WTop.rtn
  /\ Pop
  /\ wpc' = "return"
  /\ UNCHANGED <<value, written, start, skipped, writes>>

ClosedUncounted(pair) == pair
Closed(pair) == Pair(pair.first + 1, pair.second)

EndObject ==
  /\ wpc = "next" /\ WTop.of.type = "Map" /\ WTop.keys = {}
  /\ Write(<<Marker.Object_End>>)
  /\ rtn' = Closed(WTop.rtn)
  /\ Pop
  /\ wpc' = "return"
  /\ UNCHANGED <<value, written, start, skipped, writes>>

(* append_value returns to a container, which adds up, or to the caller.   *)
Collect ==
  /\ wpc = "return" /\ wframes # <<>>
  /\ wframes' = [wframes EXCEPT ![Len(wframes)].rtn = Update(rtn, @)]
  /\ wpc' = "next"
  /\ UNCHANGED <<out, offered, value, rtn, written, start, skipped, writes>>

WReturn ==
  /\ wpc = "return" /\ wframes = <<>>
  /\ wpc' = "idle"
  /\ UNCHANGED <<out, offered, wframes, value, rtn, written, start, skipped, writes>>

-----------------------------------------------------------------------------
WInit ==
  /\ out = <<>>
  /\ offered = 0
  /\ wpc = "idle"
  /\ wframes = <<>>
  /\ value = NullValue
  /\ rtn = Pair(0, FALSE)
  /\ written = NullValue
  /\ start = 0
  /\ skipped = FALSE
  /\ writes = 0

WCall == \E v \in Values : WriteValue(v)

WStep ==
  \/ AppendScalar \/ AppendNothing
  \/ AppendArray \/ NextItem \/ EndArray
  \/ AppendObject \/ NextKey \/ EndObject
  \/ Collect \/ WReturn

WNext == WCall \/ WStep

WSpec == WInit /\ [][WNext]_wvars

-----------------------------------------------------------------------------
(* Properties.                                                             *)

(* Types of the variables.                                                 *)
WTypeOK ==
  /\ out \in Seq(Byte)
  /\ offered \in Nat /\ start \in Nat
  /\ wpc \in {"idle", "append", "next", "return"}
  /\ wframes \in Seq([of : Nodes, i : Nat, keys : SUBSET Seq(Byte), begun : Nat,
                      rtn : [first : Nat, second : BOOLEAN]])
  /\ value \in Nodes \cup {NullValue}
  /\ rtn \in [first : Nat, second : BOOLEAN]
  /\ skipped \in BOOLEAN
  /\ writes \in 0 .. MaxWrites

(* The first half of the pair that writeValue returns is the number of     *)
(* bytes it handed to the stream, whatever the Value holds and whichever   *)
(* of its parts could not be written.                                      *)
CountExact == (wpc = "idle" /\ writes > 0) => rtn.first = offered - start
=============================================================================
