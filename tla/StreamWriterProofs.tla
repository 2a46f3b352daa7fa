------------------------- MODULE StreamWriterProofs -------------------------
(***************************************************************************)
(* Proofs about StreamWriter, for all Values, word widths, streams and     *)
(* numbers of calls.                                                       *)
(***************************************************************************)
EXTENDS StreamWriter, SequenceLemmas

-----------------------------------------------------------------------------
(* The invariant.                                                          *)

(* append_array counts both brackets when it has written one.              *)
Ahead(f) == IF f.of.type = "Array" THEN 1 ELSE 0

(* An open call is one of append_array or append_object; what it has still *)
(* to write is an element of its array, or a key of its map.               *)
Open(f) ==
  /\ f.of.type \in {"Array", "Map"}
  /\ f.i >= 1
  /\ f.of.type = "Map" => f.keys \subseteq DOMAIN f.of.Map

(* The pair of an open call counts what was offered from its beginning to  *)
(* that of the call inside it.                                             *)
OuterCounted ==
  \A n \in 1 .. Len(wframes) - 1 :
    wframes[n].rtn.first = wframes[n + 1].begun - wframes[n].begun + Ahead(wframes[n])

(* The innermost one counts all that was offered since it began, with what *)
(* is just being returned to it.                                           *)
InnerCounted ==
  wframes # <<>> =>
    WTop.rtn.first + (IF wpc = "return" THEN rtn.first ELSE 0)
      = offered - WTop.begun + Ahead(WTop)

(* The outermost one began with the call of writeValue.                    *)
OutermostCounted ==
  /\ wframes # <<>> => wframes[1].begun = start
  /\ wframes = <<>> /\ wpc = "append" => offered = start
  /\ wframes = <<>> /\ wpc = "return" => rtn.first = offered - start

(* Where the writer is agrees with what is open.                           *)
InPlace ==
  /\ wpc = "idle" => wframes = <<>>
  /\ wpc = "next" => wframes # <<>>
  /\ wpc = "append" => value \in Nodes

WInv ==
  /\ WTypeOK
  /\ \A n \in 1 .. Len(wframes) : Open(wframes[n])
  /\ OuterCounted
  /\ InnerCounted
  /\ OutermostCounted
  /\ InPlace
  /\ CountExact

-----------------------------------------------------------------------------
(* What the append functions write, and what they report.                  *)

(* Each shift takes the last byte off.                                     *)
LEMMA ShiftedFacts ==
  ASSUME NEW x \in Int
  PROVE  /\ Shifted(x)[1] = x
         /\ \A k \in 1 .. 8 : Shifted(x)[k] \in Int /\ Shifted(x)[k] % 256 \in Byte
         /\ \A k \in 1 .. 7 :
              Shifted(x)[k] = (Shifted(x)[k] % 256) + 256 * Shifted(x)[k + 1]
         /\ \A k \in 1 .. 8 : x >= 0 <=> Shifted(x)[k] >= 0
<1> DEFINE q == Shifted(x)
<1>1. q[1] = x
  BY DEF Shifted
<1>2. \A k \in 1 .. 7 : q[k + 1] = q[k] \div 256
  <2>1. /\ q[1 + 1] = q[1] \div 256 /\ q[2 + 1] = q[2] \div 256
        /\ q[3 + 1] = q[3] \div 256 /\ q[4 + 1] = q[4] \div 256
        /\ q[5 + 1] = q[5] \div 256 /\ q[6 + 1] = q[6] \div 256
        /\ q[7 + 1] = q[7] \div 256
    BY DEF Shifted
  <2> HIDE DEF q
  <2>2. SUFFICES ASSUME NEW k \in 1 .. 7 PROVE q[k + 1] = q[k] \div 256
    OBVIOUS
  <2>3. k = 1 \/ k = 2 \/ k = 3 \/ k = 4 \/ k = 5 \/ k = 6 \/ k = 7
    OBVIOUS
  <2>4. QED BY <2>1, <2>3
<1> HIDE DEF q
<1>3. \A y \in Int : /\ y \div 256 \in Int /\ y % 256 \in 0 .. 255
                     /\ y = (y % 256) + 256 * (y \div 256)
                     /\ y >= 0 <=> y \div 256 >= 0
  BY SMT
<1>4. /\ q[2] \in Int /\ q[3] \in Int /\ q[4] \in Int /\ q[5] \in Int
      /\ q[6] \in Int /\ q[7] \in Int /\ q[8] \in Int
  BY <1>1, <1>2, <1>3
<1>5. \A k \in 1 .. 8 : q[k] \in Int
  <2>1. \A k \in 1 .. 8 : \/ k = 1 \/ k = 2 \/ k = 3 \/ k = 4
                         \/ k = 5 \/ k = 6 \/ k = 7 \/ k = 8
    OBVIOUS
  <2>2. QED BY <1>1, <1>4, <2>1
<1>6. \A k \in 1 .. 7 : q[k] = (q[k] % 256) + 256 * q[k + 1]
  BY <1>2, <1>3, <1>5
<1>7. \A k \in 1 .. 8 : x >= 0 <=> q[k] >= 0
  <2>1. \A k \in 1 .. 7 : q[k] >= 0 <=> q[k + 1] >= 0
    BY <1>2, <1>3, <1>5
  <2>2. /\ q[1] >= 0 <=> q[2] >= 0
        /\ q[2] >= 0 <=> q[3] >= 0
        /\ q[3] >= 0 <=> q[4] >= 0
        /\ q[4] >= 0 <=> q[5] >= 0
        /\ q[5] >= 0 <=> q[6] >= 0
        /\ q[6] >= 0 <=> q[7] >= 0
        /\ q[7] >= 0 <=> q[8] >= 0
    BY <2>1
  <2>3. SUFFICES ASSUME NEW k \in 1 .. 8 PROVE x >= 0 <=> q[k] >= 0
    OBVIOUS
  <2>4. k = 1 \/ k = 2 \/ k = 3 \/ k = 4 \/ k = 5 \/ k = 6 \/ k = 7 \/ k = 8
    OBVIOUS
  <2>5. QED BY <1>1, <2>2, <2>4
<1>8. QED BY <1>1, <1>3, <1>5, <1>6, <1>7 DEF q, Byte

(* toBigEndian gives as many bytes as the word has.                        *)
LEMMA BigEndianBytes ==
  ASSUME NEW x \in Int, NEW n \in 1 .. 8
  PROVE  /\ BigEndian(x, n) \in Seq(Byte) /\ Len(BigEndian(x, n)) = n
         /\ \A i \in 1 .. n : BigEndian(x, n)[i] = Shifted(x)[n - i + 1] % 256
<1>1. ASSUME NEW i \in 1 .. n PROVE Shifted(x)[n - i + 1] % 256 \in Byte
  <2>1. n - i + 1 \in 1 .. 8
    OBVIOUS
  <2>2. QED BY <2>1, ShiftedFacts
<1>2. BigEndian(x, n) \in [1 .. n -> Byte]
  BY <1>1 DEF BigEndian
<1>3. QED BY <1>2, TableIsSeq DEF BigEndian

(* append_signedInt reports the bytes it writes.                           *)
LEMMA IntBytesSize ==
  ASSUME NEW x \in Int
  PROVE  /\ IntBytes(x) \in Seq(Byte) /\ Len(IntBytes(x)) = IntSize(x)
         /\ IntSize(x) \in Nat
<1> DEFINE b == IntMarker(x)
           w == Width(b)
<1>1. b \in {Marker.Int8, Marker.Int16, Marker.Int32, Marker.Int64}
  BY DEF IntMarker
<1>2. b \in Byte /\ w \in 1 .. 8 /\ IntSize(x) = w + 1
  BY <1>1, WidthAssumption DEF Width, IntSize, Marker, Byte
<1> HIDE DEF b, w
<1>3. BigEndian(x, w) \in Seq(Byte) /\ Len(BigEndian(x, w)) = w
  BY <1>2, BigEndianBytes
<1>4. IntBytes(x) = <<b>> \o BigEndian(x, w)
  BY DEF IntBytes, b, w
<1>5. QED BY <1>2, <1>3, <1>4

(* So do the other append functions that write one scalar.                 *)
LEMMA ScalarBytesSize ==
  ASSUME NEW v \in Nodes, v.type \notin {"Array", "Map"}, Writable(v)
  PROVE  /\ ScalarBytes(v) \in Seq(Byte) /\ Len(ScalarBytes(v)) = ScalarSize(v)
         /\ ScalarSize(v) \in Nat
<1>1. WellFormed(v)
  BY WriterAssumption
<1>2. CASE v.type \in {"Null", "Bool", "Char"}
  <2>1. CASE v.type = "Null"
    BY <2>1 DEF ScalarBytes, ScalarSize, Marker, Byte
  <2>2. CASE v.type = "Bool"
    <3>1. ScalarBytes(v) = <<84>> \/ ScalarBytes(v) = <<70>>
      BY <2>2 DEF ScalarBytes, Marker
    <3>2. ScalarSize(v) = 1
      BY <2>2 DEF ScalarSize
    <3>3. 84 \in Byte /\ 70 \in Byte
      BY DEF Byte
    <3>4. CASE ScalarBytes(v) = <<84>>
      BY <3>2, <3>3, <3>4
    <3>5. CASE ScalarBytes(v) = <<70>>
      BY <3>2, <3>3, <3>5
    <3>6. QED BY <3>1, <3>4, <3>5
  <2>3. CASE v.type = "Char"
    <3> DEFINE c == v.Char
    <3>1. c \in Byte
      BY <1>1, <2>3 DEF WellFormed
    <3>2. ScalarBytes(v) = <<67, c>> /\ ScalarSize(v) = 2
      BY <2>3 DEF ScalarBytes, ScalarSize, Marker
    <3> HIDE DEF c
    <3>3. 67 \in Byte
      BY DEF Byte
    <3>4. <<67, c>> \in Seq(Byte) /\ Len(<<67, c>>) = 2
      BY <3>1, <3>3
    <3>5. QED BY <3>2, <3>4
  <2>4. QED BY <1>2, <2>1, <2>2, <2>3
<1>3. CASE v.type = "SignedInt"
  BY <1>1, <1>3, IntBytesSize DEF WellFormed, ScalarBytes, ScalarSize
<1>4. CASE v.type = "UnsignedInt"
  BY <1>1, <1>4 DEF WellFormed, Writable, ScalarBytes, ScalarSize, Marker, Byte
<1>5. CASE v.type = "Float"
  <2> DEFINE d == v.Float
  <2>1. /\ d[1] \in {Marker.Float32, Marker.Float64}
        /\ d[2] \in Seq(Byte) /\ Len(d[2]) = Width(d[1])
    BY <1>1, <1>5 DEF WellFormed
  <2>2. ScalarBytes(v) = FloatBytes(d)
    BY <1>5 DEF ScalarBytes
  <2>3. ScalarSize(v) = IF FloatBytes(d)[1] = Marker.Float32
                        THEN Width32 + 1 ELSE Width64 + 1
    BY <1>5 DEF ScalarSize
  <2> HIDE DEF d
  <2>4. CASE d \in DOMAIN Rounded
    <3>1. Rounded[d] \in Seq(Byte) /\ Len(Rounded[d]) = Width32
      BY <2>4, WriterAssumption
    <3>2. FloatBytes(d) = <<Marker.Float32>> \o Rounded[d]
      BY <2>4 DEF FloatBytes
    <3>3. Marker.Float32 \in Byte /\ Width32 \in Nat
      BY WidthAssumption DEF Marker, Byte
    <3>4. FloatBytes(d) \in Seq(Byte) /\ Len(FloatBytes(d)) = Width32 + 1
            /\ FloatBytes(d)[1] = Marker.Float32
      BY <3>1, <3>2, <3>3
    <3>5. QED BY <2>2, <2>3, <3>3, <3>4
  <2>5. CASE d \notin DOMAIN Rounded
    <3>1. FloatBytes(d) = <<d[1]>> \o d[2]
      BY <2>5 DEF FloatBytes
    <3>2. d[1] \in Byte /\ Width(d[1]) \in Nat
            /\ Width(d[1]) = IF d[1] = Marker.Float32 THEN Width32 ELSE Width64
      BY <2>1, WidthAssumption DEF Marker, Byte, Width
    <3>3. FloatBytes(d) \in Seq(Byte) /\ Len(FloatBytes(d)) = Width(d[1]) + 1
            /\ FloatBytes(d)[1] = d[1]
      BY <2>1, <3>1, <3>2
    <3>4. QED BY <2>2, <2>3, <3>2, <3>3
  <2>6. QED BY <2>4, <2>5
<1>6. CASE v.type = "String"
  <2> DEFINE s == v.String
             n == IntBytes(Len(s))
  <2>1. s \in Seq(Byte) /\ Len(s) \in Nat
    BY <1>1, <1>6, LenProperties DEF WellFormed
  <2>2. n \in Seq(Byte) /\ Len(n) = IntSize(Len(s)) /\ IntSize(Len(s)) \in Nat
    BY <2>1, IntBytesSize
  <2>3. /\ ScalarBytes(v) = <<Marker.String>> \o n \o s
        /\ ScalarSize(v) = IntSize(Len(s)) + Len(s) + 1
    BY <1>6 DEF ScalarBytes, ScalarSize
  <2>4. Marker.String \in Byte
    BY DEF Marker, Byte
  <2> HIDE DEF s, n
  <2>5. <<Marker.String>> \o n \in Seq(Byte)
          /\ Len(<<Marker.String>> \o n) = Len(n) + 1
    BY <2>2, <2>4
  <2>6. QED BY <2>1, <2>2, <2>3, <2>5
<1>7. v.type # "Binary"
  BY DEF Writable
<1>8. QED BY <1>1, <1>2, <1>3, <1>4, <1>5, <1>6, <1>7 DEF WellFormed

(* A key is written as append_key counts it.                               *)
LEMMA KeyBytesSize ==
  ASSUME NEW k \in Seq(Byte)
  PROVE  /\ IntBytes(Len(k)) \o k \in Seq(Byte)
         /\ Len(IntBytes(Len(k)) \o k) = KeySize(k)
         /\ KeySize(k) \in Nat
<1>1. Len(k) \in Nat
  BY LenProperties
<1>2. /\ IntBytes(Len(k)) \in Seq(Byte) /\ Len(IntBytes(Len(k))) = IntSize(Len(k))
      /\ IntSize(Len(k)) \in Nat
  BY <1>1, IntBytesSize
<1>3. QED BY <1>1, <1>2 DEF KeySize

(* The stream takes bytes, and all that are handed to it are counted.      *)
LEMMA WriteFacts ==
  ASSUME WTypeOK, NEW bs \in Seq(Byte), Write(bs)
  PROVE  out' \in Seq(Byte) /\ offered' \in Nat /\ offered' = offered + Len(bs)
<1> DEFINE n == IF Len(bs) <= Capacity - Len(out) THEN Len(bs) ELSE Capacity - Len(out)
<1>1. out \in Seq(Byte) /\ offered \in Nat /\ Len(bs) \in Nat /\ Len(out) \in Nat
  BY LenProperties DEF WTypeOK
<1>2. n \in Int /\ n <= Len(bs)
  BY <1>1, WriterAssumption
<1>3. out' = out \o SubSeq(bs, 1, n) /\ offered' = offered + Len(bs)
  BY DEF Write
<1> HIDE DEF n
<1>4. SubSeq(bs, 1, n) \in Seq(Byte)
  BY <1>1, <1>2
<1>5. QED BY <1>1, <1>3, <1>4

-----------------------------------------------------------------------------
(* The open calls.                                                         *)

PairType == [first : Nat, second : BOOLEAN]

OpenCall == [of : Nodes, i : Nat, keys : SUBSET Seq(Byte), begun : Nat, rtn : PairType]

(* The innermost open call.                                                *)
LEMMA TopFacts ==
  ASSUME WInv, wframes # <<>>
  PROVE  /\ wframes \in Seq(OpenCall) /\ Len(wframes) \in Nat /\ Len(wframes) > 0
         /\ WTop \in OpenCall /\ Open(WTop) /\ WTop = wframes[Len(wframes)]
<1>1. wframes \in Seq(OpenCall)
  BY DEF WInv, WTypeOK, OpenCall, PairType
<1>2. Len(wframes) \in Nat /\ Len(wframes) > 0
  BY <1>1, EmptySeq, LenProperties
<1>3. WTop \in OpenCall
  BY <1>1, <1>2, ElementOfSeq DEF WTop
<1>4. QED BY <1>1, <1>2, <1>3 DEF WTop, WInv

(* A step that leaves out the open calls but changes the innermost one,    *)
(* which counts what is offered.                                           *)
LEMMA TopChanges ==
  ASSUME WInv, wframes # <<>>, NEW f \in OpenCall,
         wframes' = [wframes EXCEPT ![Len(wframes)] = f],
         f.of = WTop.of, f.begun = WTop.begun, f.keys \subseteq WTop.keys, f.i >= WTop.i,
         f.rtn.first + (IF wpc' = "return" THEN rtn'.first ELSE 0)
           = offered' - f.begun + Ahead(f),
         start' = start
  PROVE  /\ wframes' \in Seq(OpenCall) /\ wframes' # <<>>
         /\ \A n \in 1 .. Len(wframes') : Open(wframes'[n])
         /\ OuterCounted' /\ InnerCounted' /\ OutermostCounted'
<1>1. /\ wframes \in Seq(OpenCall) /\ Len(wframes) \in Nat /\ Len(wframes) > 0
      /\ Open(WTop) /\ WTop = wframes[Len(wframes)]
  BY TopFacts
<1> DEFINE N == Len(wframes)
<1>2. /\ wframes' \in Seq(OpenCall) /\ Len(wframes') = N
      /\ \A n \in 1 .. N : wframes'[n] = IF n = N THEN f ELSE wframes[n]
  BY <1>1
<1>3. wframes' # <<>>
  BY <1>1, <1>2, EmptySeq
<1>4. \A n \in 1 .. N : Open(wframes'[n])
  <2>1. WTop.i \in Int /\ f.i \in Int
    BY TopFacts DEF OpenCall
  <2>2. Open(f)
    BY <1>1, <2>1 DEF Open
  <2>3. QED BY <1>2, <2>2 DEF WInv
<1>5. OuterCounted'
  <2>1. \A n \in 1 .. N - 1 :
          wframes[n].rtn.first = wframes[n + 1].begun - wframes[n].begun + Ahead(wframes[n])
    BY DEF WInv, OuterCounted
  <2>2. ASSUME NEW n \in 1 .. N - 1
        PROVE  /\ wframes'[n] = wframes[n]
               /\ wframes'[n + 1].begun = wframes[n + 1].begun
    <3>1. n \in 1 .. N /\ n + 1 \in 1 .. N /\ n # N
      BY <1>1
    <3>2. f.begun = wframes[N].begun
      BY <1>1
    <3>3. wframes'[n] = wframes[n]
      BY <1>2, <3>1
    <3>4. CASE n + 1 = N
      BY <1>2, <3>1, <3>2, <3>4
    <3>5. CASE n + 1 # N
      BY <1>2, <3>1, <3>5
    <3>6. QED BY <3>3, <3>4, <3>5
  <2>3. QED BY <1>2, <2>1, <2>2 DEF OuterCounted
<1>6. WTop' = f
  BY <1>1, <1>2 DEF WTop
<1>7. InnerCounted'
  BY <1>6 DEF InnerCounted
<1>8. OutermostCounted'
  <2>1. wframes'[1].begun = wframes[1].begun
    BY <1>1, <1>2
  <2>2. QED BY <1>3, <2>1 DEF OutermostCounted, WInv
<1>9. QED BY <1>2, <1>3, <1>4, <1>5, <1>7, <1>8

(* append_array and append_object begin: the new call counts from here.    *)
LEMMA FrameOpens ==
  ASSUME WInv, wpc = "append", NEW f \in OpenCall, wframes' = Append(wframes, f),
         f.begun = offered, Open(f), wpc' = "next", start' = start,
         offered' = offered + 1, f.rtn.first = 1 + Ahead(f)
  PROVE  /\ wframes' \in Seq(OpenCall) /\ wframes' # <<>>
         /\ \A n \in 1 .. Len(wframes') : Open(wframes'[n])
         /\ OuterCounted' /\ InnerCounted' /\ OutermostCounted'
<1> DEFINE N == Len(wframes)
<1>1. wframes \in Seq(OpenCall) /\ N \in Nat /\ offered \in Nat /\ start \in Nat
  BY LenProperties DEF WInv, WTypeOK, OpenCall, PairType
<1>2. /\ wframes' \in Seq(OpenCall) /\ Len(wframes') = N + 1
      /\ \A n \in 1 .. N : wframes'[n] = wframes[n]
      /\ wframes'[N + 1] = f
  BY <1>1
<1>3. wframes' # <<>>
  BY <1>1, <1>2, EmptySeq
<1>4. \A n \in 1 .. N + 1 : Open(wframes'[n])
  BY <1>1, <1>2 DEF WInv
<1>5. N > 0 => /\ wframes # <<>> /\ WTop = wframes[N] /\ WTop \in OpenCall
               /\ WTop.rtn.first = offered - WTop.begun + Ahead(WTop)
  BY <1>1, EmptySeq, TopFacts DEF WInv, InnerCounted, OpenCall, PairType
<1>6. OuterCounted'
  <2>1. \A n \in 1 .. N - 1 :
          wframes[n].rtn.first = wframes[n + 1].begun - wframes[n].begun + Ahead(wframes[n])
    BY DEF WInv, OuterCounted
  <2>2. ASSUME NEW n \in 1 .. N
        PROVE  wframes'[n].rtn.first
                 = wframes'[n + 1].begun - wframes'[n].begun + Ahead(wframes'[n])
    <3>1. CASE n = N
      BY <1>1, <1>2, <1>5, <3>1
    <3>2. CASE n # N
      <4>1. n \in 1 .. N - 1 /\ n + 1 \in 1 .. N
        BY <1>1, <3>2
      <4>2. QED BY <1>2, <2>1, <4>1
    <3>3. QED BY <3>1, <3>2
  <2>3. QED BY <1>1, <1>2, <2>2 DEF OuterCounted
<1>7. WTop' = f
  BY <1>2 DEF WTop
<1>8. InnerCounted'
  BY <1>1, <1>7 DEF InnerCounted, OpenCall, PairType, Ahead
<1>9. OutermostCounted'
  <2>1. CASE N = 0
    <3>1. wframes = <<>> /\ wframes'[1] = f
      BY <1>1, <1>2, <2>1, EmptySeq
    <3>2. QED BY <1>3, <3>1 DEF OutermostCounted, WInv
  <2>2. CASE N > 0
    <3>1. wframes # <<>> /\ wframes'[1] = wframes[1]
      BY <1>1, <1>2, <2>2, EmptySeq
    <3>2. QED BY <1>3, <3>1 DEF OutermostCounted, WInv
  <2>3. QED BY <1>1, <2>1, <2>2
<1>10. QED BY <1>2, <1>3, <1>4, <1>6, <1>8, <1>9

(* append_array and append_object return what they counted, to the call    *)
(* outside.                                                                *)
LEMMA FrameCloses ==
  ASSUME WInv, wpc = "next", Pop, wpc' = "return", start' = start,
         offered' = offered + 1, rtn' \in PairType,
         rtn'.first = WTop.rtn.first + 1 - Ahead(WTop)
  PROVE  /\ wframes' \in Seq(OpenCall)
         /\ \A n \in 1 .. Len(wframes') : Open(wframes'[n])
         /\ OuterCounted' /\ InnerCounted' /\ OutermostCounted'
<1> DEFINE N == Len(wframes)
<1>1. wframes # <<>>
  BY DEF WInv, InPlace
<1>2. /\ wframes \in Seq(OpenCall) /\ N \in Nat /\ N > 0
      /\ WTop \in OpenCall /\ WTop = wframes[N]
  BY <1>1, TopFacts
<1>3. WTop.rtn.first = offered - WTop.begun + Ahead(WTop)
  BY <1>1, <1>2 DEF WInv, InnerCounted, OpenCall, PairType
<1>4. offered \in Nat /\ start \in Nat
  BY DEF WInv, WTypeOK
<1>5. rtn'.first = offered' - WTop.begun
  <2>1. Ahead(WTop) \in Int
    BY DEF Ahead
  <2>2. WTop.begun \in Int
    BY <1>2 DEF OpenCall
  <2>3. QED BY <1>3, <1>4, <2>1, <2>2
<1>6. /\ wframes' \in Seq(OpenCall) /\ Len(wframes') = N - 1
      /\ \A n \in 1 .. N - 1 : wframes'[n] = wframes[n]
  BY <1>1, <1>2, FrontFacts DEF Pop
<1>7. \A n \in 1 .. N - 1 : Open(wframes'[n])
  BY <1>2, <1>6 DEF WInv
<1>8. \A n \in 1 .. N - 1 :
        wframes[n].rtn.first = wframes[n + 1].begun - wframes[n].begun + Ahead(wframes[n])
  BY DEF WInv, OuterCounted
<1>9. OuterCounted'
  <2>1. ASSUME NEW n \in 1 .. N - 2
        PROVE  n \in 1 .. N - 1 /\ n + 1 \in 1 .. N - 1
    BY <1>2
  <2>2. QED BY <1>2, <1>6, <1>8, <2>1 DEF OuterCounted
<1>10. InnerCounted'
  <2>1. SUFFICES ASSUME wframes' # <<>>
                 PROVE  WTop'.rtn.first + rtn'.first = offered' - WTop'.begun + Ahead(WTop')
    BY DEF InnerCounted, Ahead
  <2>2. N - 1 \in 1 .. N - 1
    BY <1>2, <1>6, <2>1, EmptySeq
  <2>3. WTop' = wframes[N - 1]
    BY <1>6, <2>2 DEF WTop
  <2>4. wframes[N - 1] \in OpenCall
    BY <1>2, <2>2, ElementOfSeq
  <2>5. wframes[N - 1].rtn.first
          = WTop.begun - wframes[N - 1].begun + Ahead(wframes[N - 1])
    BY <1>2, <1>8, <2>2
  <2>6. /\ Ahead(wframes[N - 1]) \in Int /\ WTop.begun \in Int
        /\ wframes[N - 1].begun \in Int
    BY <1>2, <2>4 DEF Ahead, OpenCall
  <2>7. QED BY <1>4, <1>5, <2>3, <2>5, <2>6
<1>11. OutermostCounted'
  <2>1. wframes[1].begun = start
    BY <1>1 DEF WInv, OutermostCounted
  <2>2. CASE N = 1
    <3>1. wframes' = <<>> /\ WTop = wframes[1]
      BY <1>2, <1>6, <2>2, EmptySeq
    <3>2. QED BY <1>5, <2>1, <3>1 DEF OutermostCounted
  <2>3. CASE N # 1
    <3>1. wframes' # <<>> /\ wframes'[1] = wframes[1]
      BY <1>2, <1>6, <2>3, EmptySeq
    <3>2. QED BY <2>1, <3>1 DEF OutermostCounted
  <2>4. QED BY <2>2, <2>3
<1>12. QED BY <1>6, <1>7, <1>9, <1>10, <1>11

-----------------------------------------------------------------------------
(* The steps.                                                              *)

(* The types, for a step that leaves the history of the call alone.        *)
LEMMA StepTypes ==
  ASSUME WInv, out' \in Seq(Byte), offered' \in Nat,
         wpc' \in {"append", "next", "return"}, wframes' \in Seq(OpenCall),
         value' \in Nodes \cup {NullValue}, rtn' \in PairType, skipped' \in BOOLEAN,
         UNCHANGED <<start, writes>>
  PROVE  WTypeOK' /\ CountExact'
  BY DEF WInv, WTypeOK, CountExact, OpenCall, PairType

(* writeValue: nothing is open, nothing counted.                           *)
LEMMA WriteValueInv ==
  ASSUME WInv, NEW v \in Values, WriteValue(v)
  PROVE  WInv'
<1>1. wframes = <<>> /\ wframes' = <<>> /\ v \in Nodes /\ Len(<<>>) = 0
  BY WriterAssumption DEF WInv, InPlace, WriteValue
<1>2. writes' \in 0 .. MaxWrites
  BY WriterAssumption DEF WInv, WTypeOK, WriteValue
<1>3. WTypeOK'
  BY <1>1, <1>2 DEF WInv, WTypeOK, WriteValue
<1>4. (\A n \in 1 .. Len(wframes) : Open(wframes[n]))' /\ OuterCounted'
  BY <1>1 DEF OuterCounted
<1>5. InnerCounted' /\ OutermostCounted' /\ InPlace' /\ CountExact'
  BY <1>1 DEF WriteValue, InnerCounted, OutermostCounted, InPlace, CountExact
<1>6. QED BY <1>3, <1>4, <1>5 DEF WInv

(* append_value returns what it wrote, or nothing: it is still to be added *)
(* to what the innermost call counts.                                      *)
LEMMA AppendedCounts ==
  ASSUME WInv, wpc = "append", wpc' = "return", UNCHANGED <<wframes, start>>,
         rtn' \in PairType, offered' = offered + rtn'.first
  PROVE  /\ (\A n \in 1 .. Len(wframes) : Open(wframes[n]))'
         /\ OuterCounted' /\ InnerCounted' /\ OutermostCounted' /\ InPlace'
<1>1. offered \in Nat /\ start \in Nat /\ rtn'.first \in Nat
  BY DEF WInv, WTypeOK, PairType
<1>2. (\A n \in 1 .. Len(wframes) : Open(wframes[n]))' /\ OuterCounted'
  BY DEF WInv, OuterCounted
<1>3. InnerCounted'
  <2>1. SUFFICES ASSUME wframes # <<>>
                 PROVE  WTop.rtn.first + rtn'.first = offered' - WTop.begun + Ahead(WTop)
    BY DEF InnerCounted, WTop, Ahead
  <2>2. /\ WTop.rtn.first \in Nat /\ WTop.begun \in Nat /\ Ahead(WTop) \in Int
    BY <2>1, TopFacts DEF OpenCall, PairType, Ahead
  <2>3. WTop.rtn.first = offered - WTop.begun + Ahead(WTop)
    BY <2>1, <2>2 DEF WInv, InnerCounted
  <2>4. QED BY <1>1, <2>2, <2>3
<1>4. OutermostCounted'
  BY <1>1 DEF WInv, OutermostCounted
<1>5. QED BY <1>2, <1>3, <1>4 DEF InPlace

(* A scalar, or a Value that is left out.                                  *)
LEMMA AppendScalarInv ==
  ASSUME WInv, AppendScalar \/ AppendNothing
  PROVE  WInv'
<1>1. value \in Nodes /\ wpc = "append" /\ wpc' = "return"
  BY DEF WInv, InPlace, AppendScalar, AppendNothing
<1>2. /\ out' \in Seq(Byte) /\ offered' \in Nat
      /\ rtn' \in PairType /\ offered' = offered + rtn'.first
      /\ skipped' \in BOOLEAN
  <2>1. CASE AppendScalar
    <3>1. /\ ScalarBytes(value) \in Seq(Byte)
          /\ Len(ScalarBytes(value)) = ScalarSize(value)
          /\ ScalarSize(value) \in Nat
      BY <1>1, <2>1, ScalarBytesSize DEF AppendScalar
    <3>2. out' \in Seq(Byte) /\ offered' \in Nat
            /\ offered' = offered + ScalarSize(value)
      BY <2>1, <3>1, WriteFacts DEF AppendScalar, WInv
    <3>3. rtn' \in PairType /\ rtn'.first = ScalarSize(value)
      BY <2>1, <3>1 DEF AppendScalar, Pair, PairType
    <3>4. skipped' \in BOOLEAN
      BY <2>1 DEF AppendScalar, WInv, WTypeOK
    <3>5. QED BY <3>2, <3>3, <3>4
  <2>2. CASE AppendNothing
    BY <2>2 DEF AppendNothing, Pair, PairType, WInv, WTypeOK
  <2>3. QED BY <2>1, <2>2
<1>3. UNCHANGED <<wframes, start, value, writes>>
  BY DEF AppendScalar, AppendNothing
<1>4. wframes \in Seq(OpenCall) /\ value' \in Nodes \cup {NullValue}
  BY <1>1, <1>3 DEF WInv, WTypeOK, OpenCall, PairType
<1>5. WTypeOK' /\ CountExact'
  BY <1>1, <1>2, <1>3, <1>4, StepTypes
<1>6. QED BY <1>1, <1>2, <1>3, <1>5, AppendedCounts DEF WInv

(* A bracket is written, and a call of append_array or append_object opens.*)
LEMMA AppendContainerInv ==
  ASSUME WInv, AppendArray \/ AppendObject
  PROVE  WInv'
<1>1. value \in Nodes /\ wpc = "append" /\ wpc' = "next" /\ WellFormed(value)
  BY WriterAssumption DEF WInv, InPlace, AppendArray, AppendObject
<1>2. /\ <<Marker.Array_Start>> \in Seq(Byte) /\ Len(<<Marker.Array_Start>>) = 1
      /\ <<Marker.Object_Start>> \in Seq(Byte) /\ Len(<<Marker.Object_Start>>) = 1
  <2>1. Marker.Array_Start \in Byte /\ Marker.Object_Start \in Byte
    BY DEF Marker, Byte
  <2>2. QED BY <2>1
<1>3. out' \in Seq(Byte) /\ offered' \in Nat /\ offered' = offered + 1
  BY <1>2, WriteFacts DEF WInv, AppendArray, AppendObject
<1>4. offered \in Nat
  BY DEF WInv, WTypeOK
<1>5. PICK f \in OpenCall : /\ wframes' = Append(wframes, f) /\ Open(f)
                         /\ f.begun = offered /\ f.rtn.first = 1 + Ahead(f)
  <2>1. CASE AppendArray
    <3> DEFINE f == [of |-> value, i |-> 1, keys |-> {}, rtn |-> Pair(2, FALSE),
                     begun |-> offered]
    <3>1. value.type = "Array" /\ wframes' = Append(wframes, f)
      BY <2>1 DEF AppendArray
    <3>2. f \in OpenCall
      BY <1>1, <1>4 DEF OpenCall, PairType, Pair
    <3>3. Open(f) /\ f.begun = offered /\ f.rtn.first = 1 + Ahead(f)
      BY <3>1 DEF Open, Ahead, Pair
    <3>4. QED BY <3>1, <3>2, <3>3
  <2>2. CASE AppendObject
    <3> DEFINE f == [of |-> value, i |-> 1, keys |-> DOMAIN value.Map,
                     rtn |-> Pair(1, FALSE), begun |-> offered]
    <3>1. value.type = "Map" /\ wframes' = Append(wframes, f)
      BY <2>2 DEF AppendObject
    <3>2. DOMAIN value.Map \subseteq Seq(Byte)
      BY <1>1, <3>1 DEF WellFormed
    <3>3. f \in OpenCall
      BY <1>1, <1>4, <3>2 DEF OpenCall, PairType, Pair
    <3>4. Open(f) /\ f.begun = offered /\ f.rtn.first = 1 + Ahead(f)
      BY <3>1 DEF Open, Ahead, Pair
    <3>5. QED BY <3>1, <3>3, <3>4
  <2>3. QED BY <2>1, <2>2
<1>6. UNCHANGED <<value, rtn, start, skipped, writes>>
  BY DEF AppendArray, AppendObject
<1>7. /\ wframes' \in Seq(OpenCall) /\ wframes' # <<>>
      /\ (\A n \in 1 .. Len(wframes) : Open(wframes[n]))'
      /\ OuterCounted' /\ InnerCounted' /\ OutermostCounted'
  BY <1>1, <1>3, <1>5, <1>6, FrameOpens
<1>8. value' \in Nodes \cup {NullValue} /\ rtn' \in PairType /\ skipped' \in BOOLEAN
  BY <1>6 DEF WInv, WTypeOK, PairType
<1>9. WTypeOK' /\ CountExact'
  BY <1>1, <1>3, <1>6, <1>7, <1>8, StepTypes
<1>10. QED BY <1>1, <1>7, <1>9 DEF WInv, InPlace

(* The next element of an array.                                           *)
LEMMA NextItemInv ==
  ASSUME WInv, NextItem
  PROVE  WInv'
<1>1. /\ wframes # <<>> /\ wpc = "next" /\ wpc' = "append"
      /\ UNCHANGED <<out, offered, rtn, start, skipped, writes>>
  BY DEF WInv, InPlace, NextItem
<1>2. /\ WTop \in OpenCall /\ Open(WTop) /\ wframes \in Seq(OpenCall)
      /\ WTop = wframes[Len(wframes)] /\ Len(wframes) \in Nat /\ Len(wframes) > 0
  BY <1>1, TopFacts
<1> DEFINE f == [WTop EXCEPT !.i = @ + 1]
<1>3. wframes' = [wframes EXCEPT ![Len(wframes)] = f]
  BY DEF NextItem, WTop
<1>4. /\ f \in OpenCall /\ f.of = WTop.of /\ f.begun = WTop.begun
      /\ f.keys = WTop.keys /\ f.rtn = WTop.rtn /\ f.i >= WTop.i
  <2>1. WTop.i \in Nat /\ WTop.i + 1 \in Nat /\ WTop.i + 1 >= WTop.i
    BY <1>2 DEF OpenCall
  <2>2. /\ f.of = WTop.of /\ f.begun = WTop.begun
        /\ f.keys = WTop.keys /\ f.rtn = WTop.rtn /\ f.i = WTop.i + 1
    BY <1>2 DEF OpenCall
  <2>3. f \in OpenCall
    BY <1>2, <2>1 DEF OpenCall
  <2>4. QED BY <2>1, <2>2, <2>3
<1>5. f.rtn.first + 0 = offered' - f.begun + Ahead(f)
  <2>1. WTop.rtn.first + 0 = offered - WTop.begun + Ahead(WTop)
    BY <1>1 DEF WInv, InnerCounted
  <2>2. QED BY <1>1, <1>4, <2>1 DEF Ahead
<1> HIDE DEF f
<1>6. /\ wframes' \in Seq(OpenCall) /\ wframes' # <<>>
      /\ (\A n \in 1 .. Len(wframes) : Open(wframes[n]))'
      /\ OuterCounted' /\ InnerCounted' /\ OutermostCounted'
  BY <1>1, <1>3, <1>4, <1>5, TopChanges
<1>7. value' \in Nodes
  <2>1. WTop.of \in Nodes /\ WTop.i \in Nat
    BY <1>2 DEF OpenCall
  <2>2. WellFormed(WTop.of)
    BY <2>1, WriterAssumption
  <2>3. WTop.of.Array \in Seq(Nodes)
    BY <2>2 DEF NextItem, WellFormed
  <2>4. /\ WTop.i <= Len(WTop.of.Array) /\ value' = WTop.of.Array[WTop.i]
    BY DEF NextItem
  <2>5. WTop.i >= 1
    BY <1>2 DEF Open
  <2>6. QED BY <2>1, <2>3, <2>4, <2>5, ElementOfSeq
<1>8. WTypeOK' /\ CountExact'
  <2>1. /\ out' \in Seq(Byte) /\ offered' \in Nat /\ rtn' \in PairType
        /\ skipped' \in BOOLEAN
    BY <1>1 DEF WInv, WTypeOK, PairType
  <2>2. QED BY <1>1, <1>6, <1>7, <2>1, StepTypes
<1>9. QED BY <1>1, <1>6, <1>7, <1>8 DEF WInv, InPlace

(* The next key of an object, as many bytes as append_key says.            *)
LEMMA NextKeyInv ==
  ASSUME WInv, NextKey
  PROVE  WInv'
<1>1. /\ wframes # <<>> /\ wpc = "next" /\ wpc' = "append" /\ WTop.of.type = "Map"
      /\ UNCHANGED <<rtn, start, skipped, writes>>
  BY DEF WInv, InPlace, NextKey
<1>2. /\ WTop \in OpenCall /\ Open(WTop) /\ wframes \in Seq(OpenCall)
      /\ WTop = wframes[Len(wframes)] /\ Len(wframes) \in Nat /\ Len(wframes) > 0
  BY <1>1, TopFacts
<1>3. PICK k \in WTop.keys :
        /\ Write(IntBytes(Len(k)) \o k)
        /\ wframes' = [wframes EXCEPT
             ![Len(wframes)].keys = @ \ {k},
             ![Len(wframes)].rtn = Update(Pair(KeySize(k), TRUE), @)]
        /\ value' = WTop.of.Map[k]
  BY DEF NextKey
<1>4. k \in Seq(Byte)
  BY <1>2, <1>3 DEF OpenCall
<1>5. /\ out' \in Seq(Byte) /\ offered' \in Nat
      /\ offered' = offered + KeySize(k) /\ KeySize(k) \in Nat
  BY <1>3, <1>4, KeyBytesSize, WriteFacts DEF WInv
<1> DEFINE f == [WTop EXCEPT !.keys = @ \ {k},
                             !.rtn = Update(Pair(KeySize(k), TRUE), @)]
<1>6. wframes' = [wframes EXCEPT ![Len(wframes)] = f]
  BY <1>2, <1>3
<1>7. /\ WTop.rtn \in PairType /\ WTop.begun \in Nat /\ WTop.keys \in SUBSET Seq(Byte)
      /\ WTop.i \in Nat /\ WTop.of \in Nodes /\ offered \in Nat
  BY <1>2 DEF OpenCall, WInv, WTypeOK
<1>8. /\ f.of = WTop.of /\ f.begun = WTop.begun /\ f.i = WTop.i
      /\ f.keys = WTop.keys \ {k} /\ f.rtn = Update(Pair(KeySize(k), TRUE), WTop.rtn)
  BY <1>2 DEF OpenCall
<1>9. f.rtn \in PairType /\ f.rtn.first = WTop.rtn.first + KeySize(k)
  BY <1>5, <1>7, <1>8 DEF Update, Pair, PairType
<1>10. f \in OpenCall
  BY <1>2, <1>7, <1>8, <1>9 DEF OpenCall
<1>11. f.rtn.first + 0 = offered' - f.begun + Ahead(f)
  <2>1. WTop.rtn.first + 0 = offered - WTop.begun + Ahead(WTop)
    BY <1>1 DEF WInv, InnerCounted
  <2>2. Ahead(f) = Ahead(WTop) /\ Ahead(WTop) \in Int /\ WTop.rtn.first \in Nat
    BY <1>7, <1>8 DEF Ahead, PairType
  <2> DEFINE a == Ahead(WTop)
             k0 == KeySize(k)
             r == WTop.rtn.first
             b == WTop.begun
  <2>3. f.rtn.first = r + k0 /\ f.begun = b /\ Ahead(f) = a
    BY <1>8, <1>9, <2>2
  <2>4. r \in Nat /\ k0 \in Nat /\ b \in Nat /\ a \in Int /\ offered \in Nat
    BY <1>5, <1>7, <2>2
  <2>5. r + 0 = offered - b + a /\ offered' = offered + k0
    BY <1>5, <2>1
  <2> HIDE DEF f, a, k0, r, b
  <2>6. QED BY <2>3, <2>4, <2>5
<1>12. f.i >= WTop.i /\ f.keys \subseteq WTop.keys
  BY <1>7, <1>8
<1> HIDE DEF f
<1>13. /\ wframes' \in Seq(OpenCall) /\ wframes' # <<>>
       /\ (\A n \in 1 .. Len(wframes) : Open(wframes[n]))'
       /\ OuterCounted' /\ InnerCounted' /\ OutermostCounted'
  BY <1>1, <1>6, <1>8, <1>10, <1>11, <1>12, TopChanges
<1>14. value' \in Nodes
  <2>1. WellFormed(WTop.of) /\ k \in DOMAIN WTop.of.Map
    BY <1>1, <1>2, <1>3, <1>7, WriterAssumption DEF Open
  <2>2. QED BY <1>1, <1>3, <2>1 DEF WellFormed
<1>15. WTypeOK' /\ CountExact'
  <2>1. rtn' \in PairType /\ skipped' \in BOOLEAN
    BY <1>1 DEF WInv, WTypeOK, PairType
  <2>2. QED BY <1>1, <1>5, <1>13, <1>14, <2>1, StepTypes
<1>16. QED BY <1>1, <1>13, <1>14, <1>15 DEF WInv, InPlace

(* The closing bracket is written; an array has counted it already.        *)
LEMMA EndContainerInv ==
  ASSUME WInv, EndArray \/ EndObject
  PROVE  WInv'
<1>1. /\ wframes # <<>> /\ wpc = "next" /\ wpc' = "return" /\ Pop
      /\ UNCHANGED <<value, start, skipped, writes>>
  BY DEF WInv, InPlace, EndArray, EndObject
<1>2. WTop.rtn \in PairType
  BY <1>1, TopFacts DEF OpenCall
<1>3. /\ <<Marker.Array_End>> \in Seq(Byte) /\ Len(<<Marker.Array_End>>) = 1
      /\ <<Marker.Object_End>> \in Seq(Byte) /\ Len(<<Marker.Object_End>>) = 1
  <2>1. Marker.Array_End \in Byte /\ Marker.Object_End \in Byte
    BY DEF Marker, Byte
  <2>2. QED BY <2>1
<1>4. out' \in Seq(Byte) /\ offered' \in Nat /\ offered' = offered + 1
  BY <1>3, WriteFacts DEF WInv, EndArray, EndObject
<1>5. rtn' \in PairType /\ rtn'.first = WTop.rtn.first + 1 - Ahead(WTop)
  <2>1. CASE EndArray
    <3>1. rtn' = WTop.rtn /\ Ahead(WTop) = 1
      BY <2>1 DEF EndArray, Ahead
    <3>2. QED BY <1>2, <3>1 DEF PairType
  <2>2. CASE EndObject
    <3>1. rtn' = Pair(WTop.rtn.first + 1, WTop.rtn.second) /\ Ahead(WTop) = 0
      BY <2>2 DEF EndObject, Closed, Ahead
    <3>2. QED BY <1>2, <3>1 DEF PairType, Pair
  <2>3. QED BY <2>1, <2>2
<1>6. /\ wframes' \in Seq(OpenCall)
      /\ (\A n \in 1 .. Len(wframes) : Open(wframes[n]))'
      /\ OuterCounted' /\ InnerCounted' /\ OutermostCounted'
  BY <1>1, <1>4, <1>5, FrameCloses
<1>7. WTypeOK' /\ CountExact'
  <2>1. value' \in Nodes \cup {NullValue} /\ skipped' \in BOOLEAN
    BY <1>1 DEF WInv, WTypeOK
  <2>2. QED BY <1>1, <1>4, <1>5, <1>6, <2>1, StepTypes
<1>8. QED BY <1>1, <1>6, <1>7 DEF WInv, InPlace

(* update adds what an inner call returned to what the outer one counts.   *)
LEMMA CollectInv ==
  ASSUME WInv, Collect
  PROVE  WInv'
<1>1. /\ wframes # <<>> /\ wpc = "return" /\ wpc' = "next"
      /\ UNCHANGED <<out, offered, value, rtn, start, skipped, writes>>
  BY DEF Collect
<1>2. /\ WTop \in OpenCall /\ Open(WTop) /\ wframes \in Seq(OpenCall)
      /\ WTop = wframes[Len(wframes)] /\ Len(wframes) \in Nat /\ Len(wframes) > 0
  BY <1>1, TopFacts
<1> DEFINE f == [WTop EXCEPT !.rtn = Update(rtn, @)]
<1>3. wframes' = [wframes EXCEPT ![Len(wframes)] = f]
  BY <1>2 DEF Collect
<1>4. /\ WTop.rtn \in PairType /\ WTop.begun \in Nat /\ rtn \in PairType
      /\ WTop.i \in Nat /\ offered \in Nat
  BY <1>2 DEF OpenCall, WInv, WTypeOK, PairType
<1>5. /\ f.of = WTop.of /\ f.begun = WTop.begun /\ f.i = WTop.i
      /\ f.keys = WTop.keys /\ f.rtn = Update(rtn, WTop.rtn)
  BY <1>2 DEF OpenCall
<1>6. f.rtn \in PairType /\ f.rtn.first = WTop.rtn.first + rtn.first
  BY <1>4, <1>5 DEF Update, Pair, PairType
<1>7. f \in OpenCall
  BY <1>2, <1>5, <1>6 DEF OpenCall
<1>8. f.rtn.first + 0 = offered' - f.begun + Ahead(f)
  <2>1. WTop.rtn.first + rtn.first = offered - WTop.begun + Ahead(WTop)
    BY <1>1 DEF WInv, InnerCounted
  <2>2. Ahead(f) = Ahead(WTop) /\ f.rtn.first \in Nat
    BY <1>5, <1>6 DEF Ahead, PairType
  <2> HIDE DEF f
  <2>3. QED BY <1>1, <1>5, <1>6, <2>1, <2>2
<1>9. f.i >= WTop.i /\ f.keys \subseteq WTop.keys
  BY <1>4, <1>5
<1> HIDE DEF f
<1>10. /\ wframes' \in Seq(OpenCall) /\ wframes' # <<>>
       /\ (\A n \in 1 .. Len(wframes) : Open(wframes[n]))'
       /\ OuterCounted' /\ InnerCounted' /\ OutermostCounted'
  BY <1>1, <1>3, <1>5, <1>7, <1>8, <1>9, TopChanges
<1>11. WTypeOK' /\ CountExact'
  <2>1. /\ out' \in Seq(Byte) /\ offered' \in Nat /\ skipped' \in BOOLEAN
        /\ value' \in Nodes \cup {NullValue} /\ rtn' \in PairType
    BY <1>1 DEF WInv, WTypeOK, PairType
  <2>2. QED BY <1>1, <1>10, <2>1, StepTypes
<1>12. QED BY <1>1, <1>10, <1>11 DEF WInv, InPlace

(* writeValue returns what was counted since it began.                     *)
LEMMA WReturnInv ==
  ASSUME WInv, WReturn
  PROVE  WInv'
<1>1. /\ wframes = <<>> /\ wframes' = <<>> /\ wpc = "return" /\ wpc' = "idle"
      /\ UNCHANGED <<out, offered, value, rtn, start, skipped, writes>>
  BY DEF WReturn
<1>2. rtn.first = offered - start
  BY <1>1 DEF WInv, OutermostCounted
<1>3. WTypeOK'
  BY <1>1 DEF WInv, WTypeOK
<1>4. (\A n \in 1 .. Len(wframes) : Open(wframes[n]))' /\ OuterCounted'
  BY <1>1 DEF WInv, OuterCounted
<1>5. InnerCounted' /\ OutermostCounted' /\ InPlace' /\ CountExact'
  BY <1>1, <1>2 DEF InnerCounted, OutermostCounted, InPlace, CountExact
<1>6. QED BY <1>3, <1>4, <1>5 DEF WInv

(* No byte was offered before the first call.                              *)
LEMMA WInitInv == WInit => WInv
<1> SUFFICES ASSUME WInit PROVE WInv
  OBVIOUS
<1>1. Len(wframes) = 0 /\ wframes = <<>>
  BY DEF WInit
<1>2. out = <<>> /\ offered = 0 /\ start = 0 /\ writes = 0 /\ wpc = "idle"
      /\ value = NullValue /\ rtn = Pair(0, FALSE) /\ skipped = FALSE
  BY DEF WInit
<1>3. WTypeOK
  <2>1. out \in Seq(Byte) /\ wframes \in Seq(OpenCall)
    BY <1>1, <1>2, EmptySeq
  <2>2. writes \in 0 .. MaxWrites
    BY <1>2, WriterAssumption
  <2>3. rtn \in PairType
    BY <1>2 DEF PairType, Pair
  <2>4. QED BY <1>2, <2>1, <2>2, <2>3 DEF WTypeOK, OpenCall, PairType
<1>4. (\A n \in 1 .. Len(wframes) : Open(wframes[n])) /\ OuterCounted
  BY <1>1 DEF OuterCounted
<1>5. InnerCounted /\ OutermostCounted
  BY <1>1, <1>2 DEF InnerCounted, OutermostCounted
<1>6. InPlace /\ CountExact
  BY <1>1, <1>2 DEF InPlace, CountExact
<1>7. QED BY <1>3, <1>4, <1>5, <1>6 DEF WInv

(* Every step keeps the invariant.                                         *)
LEMMA WStepInv == WInv /\ [WNext]_wvars => WInv'
<1> SUFFICES ASSUME WInv, [WNext]_wvars PROVE WInv'
  OBVIOUS
<1>1. CASE UNCHANGED wvars
  BY <1>1 DEF wvars, WInv, WTypeOK, Open, OuterCounted, InnerCounted,
     OutermostCounted, InPlace, CountExact, WTop, Ahead
<1>2. QED
  BY <1>1, WriteValueInv, AppendScalarInv, AppendContainerInv, NextItemInv, NextKeyInv,
     EndContainerInv, CollectInv, WReturnInv
  DEF WNext, WCall, WStep

-----------------------------------------------------------------------------
(* The theorems.                                                           *)

(* The invariant holds in every state, whatever is written.                *)
THEOREM WriterInvariant == WSpec => []WInv
  BY WInitInv, WStepInv, PTL DEF WSpec

(* What the stream has taken is bytes, and every pair counts a number of   *)
(* them, for every Value the caller may hold.                              *)
THEOREM WriterTypeCorrect == WSpec => []WTypeOK
<1>1. WInv => WTypeOK
  BY DEF WInv
<1>2. QED BY <1>1, WriterInvariant, PTL

(* writeValue returns the number of bytes it handed to the stream, however *)
(* deep the Value is, whatever parts of it are left out, in whatever order *)
(* its keys come, and whether or not the stream takes them.                *)
THEOREM CountsEveryByte == WSpec => []CountExact
<1>1. WInv => CountExact
  BY DEF WInv
<1>2. QED BY <1>1, WriterInvariant, PTL
=============================================================================
