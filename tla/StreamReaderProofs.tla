------------------------- MODULE StreamReaderProofs -------------------------
(***************************************************************************)
(* Proofs about StreamReader, for every stream, policy and word width.     *)
(***************************************************************************)
EXTENDS StreamReader, SequenceLemmas

-----------------------------------------------------------------------------
(* What the helpers return.                                                *)

(* A fixed-size payload has one to eight bytes.                            *)
LEMMA WidthBounds == ASSUME NEW m PROVE Width(m) \in 1..8
  BY WidthAssumption DEF Width

LEMMA ByteFacts == \A x \in Byte : x \in Nat /\ 255 - x \in Byte
  BY DEF Byte

LEMMA HornerStep == \A x, y \in Nat : x + 256 * y \in Nat
  OBVIOUS

(* Big-endian bytes are a natural number, or an integer if signed.         *)
LEMMA NumberType ==
  ASSUME NEW bs \in Seq(Byte), Len(bs) > 0
  PROVE  Signed(bs) \in Int
<1>1. ASSUME NEW ds \in Seq(Byte) PROVE Unsigned(ds) \in Nat
  <2> DEFINE digit(i) == IF i < Len(ds) THEN ds[Len(ds) - i] ELSE 0
  <2>1. ASSUME NEW i \in Nat PROVE digit(i) \in Nat
    <3>1. CASE i < Len(ds)
      <4>1. Len(ds) \in Nat
        BY LenProperties
      <4>2. Len(ds) - i \in 1..Len(ds)
        BY <3>1, <4>1
      <4>3. ds[Len(ds) - i] \in Byte
        BY <4>2, ElementOfSeq
      <4>4. QED BY <3>1, <4>3, ByteFacts
    <3>2. CASE ~(i < Len(ds))
      BY <3>2
    <3>3. QED BY <3>1, <3>2
  <2>2. Unsigned(ds) = digit(0) + 256 * (digit(1) + 256 * (digit(2)
          + 256 * (digit(3) + 256 * (digit(4) + 256 * (digit(5)
          + 256 * (digit(6) + 256 * digit(7)))))))
    BY DEF Unsigned
  <2> HIDE DEF digit
  <2>3. /\ digit(0) \in Nat /\ digit(1) \in Nat /\ digit(2) \in Nat
        /\ digit(3) \in Nat /\ digit(4) \in Nat /\ digit(5) \in Nat
        /\ digit(6) \in Nat /\ digit(7) \in Nat
    BY <2>1
  <2> DEFINE e6 == digit(6) + 256 * digit(7)
             e5 == digit(5) + 256 * e6
             e4 == digit(4) + 256 * e5
             e3 == digit(3) + 256 * e4
             e2 == digit(2) + 256 * e3
             e1 == digit(1) + 256 * e2
             e0 == digit(0) + 256 * e1
  <2>4. e6 \in Nat
    BY <2>3, HornerStep
  <2>5. Unsigned(ds) = e0
    BY <2>2, Zenon
  <2> HIDE DEF e6
  <2>6. e5 \in Nat
    BY <2>3, <2>4, HornerStep
  <2> HIDE DEF e5
  <2>7. e4 \in Nat
    BY <2>3, <2>6, HornerStep
  <2> HIDE DEF e4
  <2>8. e3 \in Nat
    BY <2>3, <2>7, HornerStep
  <2> HIDE DEF e3
  <2>9. e2 \in Nat
    BY <2>3, <2>8, HornerStep
  <2> HIDE DEF e2
  <2>10. e1 \in Nat
    BY <2>3, <2>9, HornerStep
  <2> HIDE DEF e1
  <2>11. e0 \in Nat
    BY <2>3, <2>10, HornerStep
  <2> HIDE DEF e0
  <2>12. QED BY <2>5, <2>11
<1> DEFINE cs == [i \in 1..Len(bs) |-> 255 - bs[i]]
<1>2. cs \in Seq(Byte)
  <2>1. ASSUME NEW i \in 1..Len(bs) PROVE 255 - bs[i] \in Byte
    <3>1. bs[i] \in Byte
      BY ElementOfSeq
    <3>2. QED BY <3>1, ByteFacts
  <2>2. cs \in [1..Len(bs) -> Byte]
    BY <2>1
  <2>3. Len(bs) \in Nat
    BY LenProperties
  <2> HIDE DEF cs
  <2>4. QED BY <2>2, <2>3, TableIsSeq
<1>3. Unsigned(cs) \in Nat /\ Unsigned(bs) \in Nat
  BY <1>1, <1>2
<1>4. Signed(bs) = IF bs[1] < 128 THEN Unsigned(bs) ELSE -1 - Unsigned(cs)
  BY DEF Signed
<1> HIDE DEF cs
<1>5. QED BY <1>3, <1>4

(* A read of n bytes leaves n bytes.                                       *)
LEMMA ReadYields ==
  ASSUME stream \in Seq(Byte), NEW n \in Nat, NEW buf \in Read(n)
  PROVE  buf \in Seq(Byte) /\ Len(buf) = n
<1>1. SUFFICES
        ASSUME NEW junk \in [Len(stream) + 1 .. n -> Junk],
               buf = [i \in 1..n |-> IF i <= Len(stream) THEN stream[i] ELSE junk[i]]
        PROVE  buf \in Seq(Byte) /\ Len(buf) = n
  BY DEF Read
<1>2. ASSUME NEW i \in 1..n PROVE buf[i] \in Byte
  <2>1. CASE i <= Len(stream)
    BY <1>1, <2>1, ElementOfSeq
  <2>2. CASE ~(i <= Len(stream))
    <3>1. i \in Len(stream) + 1 .. n
      BY <2>2, LenProperties
    <3>2. QED BY <1>1, <2>2, <3>1, ReaderAssumption
  <2>3. QED BY <2>1, <2>2
<1>3. buf \in [1..n -> Byte]
  BY <1>1, <1>2
<1>4. QED BY <1>3, TableIsSeq

-----------------------------------------------------------------------------
(* The stream and the budget.                                              *)

StreamOK ==
  /\ stream \in Seq(Byte)
  /\ peeked_byte \in [first : Byte, second : BOOLEAN]
  /\ bytes_so_far \in Nat /\ taken \in Seq(Byte) /\ missing \in Nat
  /\ Budget

(* The check before a read is exact: a request that memory can hold never  *)
(* wraps the sum around.                                                   *)
LEMMA FitsExact ==
  ASSUME StreamOK, NEW n \in Nat, n <= MaxAlloc \/ n <= 8, Fits(n)
  PROVE  bytes_so_far + n <= MaxObjectSize
<1>1. bytes_so_far + n \in 0 .. SizeMod - 1
  BY ReaderAssumption DEF StreamOK, Budget
<1>2. (bytes_so_far + n) % SizeMod = bytes_so_far + n
  BY <1>1, ReaderAssumption
<1>3. QED BY <1>2 DEF Fits

LEMMA SplitFacts ==
  ASSUME NEW S, NEW s \in Seq(S), NEW k \in Nat, k <= Len(s)
  PROVE  /\ SubSeq(s, 1, k) \in Seq(S) /\ Len(SubSeq(s, 1, k)) = k
         /\ SubSeq(s, k + 1, Len(s)) \in Seq(S)
<1>1. Len(s) \in Nat /\ \A i \in 1..Len(s) : s[i] \in S
  BY LenProperties, ElementOfSeq
<1>2. SubSeq(s, 1, k) \in Seq(S) /\ Len(SubSeq(s, 1, k)) = k
  <2>1. \A i \in 1..k : s[i] \in S
    BY <1>1
  <2>2. /\ SubSeq(s, 1, k) \in Seq(S)
        /\ Len(SubSeq(s, 1, k)) = IF 1 <= k THEN k - 1 + 1 ELSE 0
    BY <2>1, SubSeqProperties
  <2>3. (IF 1 <= k THEN k - 1 + 1 ELSE 0) = k
    OBVIOUS
  <2>4. QED BY <2>2, <2>3
<1>3. SubSeq(s, k + 1, Len(s)) \in Seq(S)
  <2>1. k + 1 \in Int /\ Len(s) \in Int /\ \A i \in k + 1 .. Len(s) : s[i] \in S
    BY <1>1
  <2>2. QED BY <2>1, SubSeqProperties
<1>4. QED BY <1>2, <1>3

LEMMA ConsumeOK ==
  ASSUME StreamOK, NEW n \in Nat, bytes_so_far + n <= MaxObjectSize, Consume(n)
  PROVE  /\ stream' \in Seq(Byte) /\ taken' \in Seq(Byte)
         /\ missing' \in Nat /\ bytes_so_far' \in Nat
         /\ Budget'
<1> DEFINE d == Delivered(n)
<1>1. /\ stream \in Seq(Byte) /\ Len(stream) \in Nat
      /\ taken \in Seq(Byte) /\ Len(taken) \in Nat
      /\ missing \in Nat /\ bytes_so_far = Len(taken) + missing
  BY LenProperties DEF StreamOK, Budget
<1>2. d \in Nat /\ d <= n /\ d <= Len(stream)
  BY <1>1 DEF Delivered
<1>3. /\ stream' = SubSeq(stream, d + 1, Len(stream))
      /\ taken' = taken \o SubSeq(stream, 1, d)
      /\ missing' = missing + (n - d)
      /\ bytes_so_far' = bytes_so_far + n
  BY DEF Consume
<1> HIDE DEF d
<1>4. /\ SubSeq(stream, 1, d) \in Seq(Byte) /\ Len(SubSeq(stream, 1, d)) = d
      /\ stream' \in Seq(Byte)
  BY <1>1, <1>2, <1>3, SplitFacts
<1>5. taken' \in Seq(Byte) /\ Len(taken') = Len(taken) + d
  BY <1>1, <1>3, <1>4, ConcatProperties
<1>6. /\ missing' \in Nat /\ bytes_so_far' \in Nat
      /\ bytes_so_far' = Len(taken) + d + missing'
  BY <1>1, <1>2, <1>3
<1>7. bytes_so_far' <= MaxObjectSize
  BY <1>3
<1>8. QED BY <1>4, <1>5, <1>6, <1>7 DEF Budget

LEMMA ReadBufferOK ==
  ASSUME StreamOK, NEW n \in Nat, n <= MaxAlloc \/ n <= 8, Fits(n), ReadBuffer(n)
  PROVE  StreamOK'
<1>1. Consume(n) /\ bytes_so_far + n <= MaxObjectSize
  BY FitsExact DEF ReadBuffer
<1>2. peeked_byte' \in [first : Byte, second : BOOLEAN]
  BY DEF ReadBuffer, StreamOK
<1>3. QED BY <1>1, <1>2, ConsumeOK DEF StreamOK

LEMMA PeekOK ==
  ASSUME StreamOK, Fits(1), Peek
  PROVE  StreamOK'
<1>1. CASE /\ is_istream
           /\ peeked_byte' = [first  |-> IF stream = <<>> THEN 255 ELSE stream[1],
                              second |-> FALSE]
           /\ UNCHANGED <<stream, bytes_so_far, taken, missing>>
  <2>1. stream # <<>> => stream[1] \in Byte
    BY DEF StreamOK
  <2>2. QED BY <1>1, <2>1 DEF StreamOK, Budget, Byte
<1>2. CASE UNCHANGED streamVars
  BY <1>2 DEF streamVars, StreamOK, Budget
<1>3. CASE /\ Consume(1)
           /\ peeked_byte' = [first  |-> IF stream = <<>> THEN peeked_byte.first
                                         ELSE stream[1],
                              second |-> TRUE]
  <2>1. stream # <<>> => stream[1] \in Byte
    BY DEF StreamOK
  <2>2. bytes_so_far + 1 <= MaxObjectSize
    BY FitsExact
  <2>3. peeked_byte' \in [first : Byte, second : BOOLEAN]
    BY <1>3, <2>1 DEF StreamOK
  <2>4. QED BY <1>3, <2>2, <2>3, ConsumeOK DEF StreamOK
<1>4. QED BY <1>1, <1>2, <1>3 DEF Peek

-----------------------------------------------------------------------------
(* The rest of the type invariant, and of the inductive one.               *)
ControlOK ==
  /\ is_istream \in StreamTypes
  /\ recursive_depth \in Nat
  /\ last_error \in Errors
  /\ pc \in Running \cup {"idle"}
  /\ marker \in Byte /\ b \in Byte
  /\ use \in Uses
  /\ num \in 0 .. SizeMod - 1
  /\ header \in STCHeader
  /\ result \in Outcomes
  /\ calls \in 0 .. MaxCalls

FramesOK == frames \in Seq(Frame) /\ TypedHeaderDead

Rest ==
  /\ DepthGuard /\ EscapeOnlyOnReuse
  /\ InContainer /\ HeaderSound /\ ElementFresh /\ ObjectsIndexable

LEMMA IndInvSplit == ASSUME IndInv PROVE StreamOK /\ ControlOK /\ FramesOK /\ Rest
  BY DEF IndInv, TypeOK, StreamOK, ControlOK, FramesOK, Rest

LEMMA IndInvJoin ==
  ASSUME StreamOK', ControlOK', FramesOK', Rest'
  PROVE  IndInv'
  BY DEF IndInv, TypeOK, StreamOK, ControlOK, FramesOK, Rest

LEMMA HeaderFacts == Marker.Invalid \in Byte /\ NoHeader \in STCHeader
<1>1. Marker.Invalid = 0
  BY DEF Marker
<1>2. 0 \in Byte /\ 0 \in 0 .. SizeMod - 1
  BY ReaderAssumption DEF Byte
<1>3. QED BY <1>1, <1>2 DEF NoHeader, STCHeader

(* The byte that a read of one byte delivers.                              *)
LEMMA ReadOne ==
  ASSUME stream \in Seq(Byte), NEW buf \in Read(1)
  PROVE  buf[1] \in Byte
<1>1. buf \in Seq(Byte) /\ Len(buf) = 1
  BY ReadYields
<1>2. QED BY <1>1, ElementOfSeq

-----------------------------------------------------------------------------
(* Every action preserves it.                                              *)

(* A call that ends leaves the reader idle.                                *)
LEMMA UnwindKeeps ==
  ASSUME IndInv, Unwind, StreamOK',
         recursive_depth' \in Nat, last_error' \in Errors,
         result' \in Outcomes, EscapeOnlyOnReuse'
  PROVE  IndInv'
<1> USE DEF Unwind, callVars, localVars
<1>1. ControlOK'
  BY DEF IndInv, TypeOK, ControlOK, Outcomes
<1>2. FramesOK'
  BY DEF FramesOK, TypedHeaderDead
<1>3. Rest'
  BY ReaderAssumption DEF Rest, DepthGuard, EscapeOnlyOnReuse, InContainer,
        HeaderSound, ElementFresh, ObjectsIndexable, Running
<1>4. QED BY <1>1, <1>2, <1>3, IndInvJoin

LEMMA StreamUnchanged ==
  ASSUME IndInv, UNCHANGED streamVars
  PROVE  StreamOK'
BY DEF IndInv, TypeOK, StreamOK, Budget, streamVars

LEMMA PolicyViolationKeeps == ASSUME IndInv, PolicyViolation PROVE IndInv'
<1>1. StreamOK'
  BY StreamUnchanged DEF PolicyViolation
<1>2. QED BY <1>1, UnwindKeeps DEF PolicyViolation, Throw, IndInv, TypeOK, Errors,
                                 Outcomes, EscapeOnlyOnReuse

LEMMA BadAllocKeeps == ASSUME IndInv, BadAlloc PROVE IndInv'
<1>1. StreamOK'
  BY StreamUnchanged DEF BadAlloc, Escape
<1>2. QED BY <1>1, UnwindKeeps DEF BadAlloc, Escape, IndInv, TypeOK, Outcomes,
                                 EscapeOnlyOnReuse

LEMMA DepthExceededKeeps == ASSUME IndInv, DepthExceeded PROVE IndInv'
<1>1. StreamOK'
  BY StreamUnchanged DEF DepthExceeded
<1>2. recursive_depth' \in Nat
  BY DEF DepthExceeded, IndInv, TypeOK
<1>3. QED BY <1>1, <1>2, UnwindKeeps DEF DepthExceeded, Throw, Errors, Outcomes,
                                       EscapeOnlyOnReuse

LEMMA InvalidCountKeeps == ASSUME IndInv, InvalidCount PROVE IndInv'
<1>1. StreamOK'
  BY ReadBufferOK, IndInvSplit DEF InvalidCount
<1>2. QED BY <1>1, UnwindKeeps DEF InvalidCount, Throw, Errors, IndInv, TypeOK,
                                 Outcomes, EscapeOnlyOnReuse

LEMMA CallKeeps == ASSUME IndInv, Call PROVE IndInv'
<1>0. PICK v \in {NullValue, vals[1]} : GetNextValue(v)
  BY DEF Call
<1> USE <1>0 DEF GetNextValue, NewBudget, callVars, localVars
<1>1. StreamOK'
  <2>1. taken' = <<>> /\ Len(taken') = 0 /\ taken' \in Seq(Byte)
    BY EmptySeq
  <2>2. peeked_byte' \in [first : Byte, second : BOOLEAN]
    BY DEF IndInv, TypeOK
  <2>3. QED BY <2>1, <2>2, ReaderAssumption DEF IndInv, TypeOK, StreamOK, Budget
<1>2. ControlOK'
  <2>1. calls' \in 0 .. MaxCalls
    <3>1. calls \in 0 .. MaxCalls /\ calls < MaxCalls /\ calls' = calls + 1
      BY DEF IndInv, TypeOK
    <3>2. MaxCalls \in Nat
      BY ReaderAssumption
    <3> HIDE <1>0 DEF GetNextValue
    <3>3. QED BY <3>1, <3>2
  <2>2. QED BY <2>1 DEF IndInv, TypeOK, ControlOK, Outcomes, Running
<1>3. FramesOK' /\ frames = <<>> /\ frames' = <<>> /\ Len(frames') = 0
  BY EmptySeq DEF IndInv, FramesOK, TypedHeaderDead, InContainer, TypeOK
<1>4. Rest'
  <2>1. Element' = given'
    BY <1>3 DEF Element
  <2>2. QED BY <1>3, <2>1, ReaderAssumption
            DEF Rest, DepthGuard, EscapeOnlyOnReuse, InContainer, HeaderSound,
                ElementFresh, ObjectsIndexable, Running
<1>5. QED BY <1>1, <1>2, <1>3, <1>4, IndInvJoin

LEMMA ReturnKeeps == ASSUME IndInv, Return PROVE IndInv'
<1> USE DEF Return, callVars, localVars
<1>1. StreamOK'
  BY StreamUnchanged
<1>2. ControlOK'
  BY DEF IndInv, TypeOK, ControlOK, Outcomes
<1>3. FramesOK'
  BY DEF IndInv, TypeOK, FramesOK, TypedHeaderDead
<1>4. Rest'
  BY DEF IndInv, Rest, DepthGuard, EscapeOnlyOnReuse, InContainer,
        HeaderSound, ElementFresh, ObjectsIndexable, Running
<1>5. QED BY <1>1, <1>2, <1>3, <1>4, IndInvJoin

(* A statement that keeps the open containers, and the Values they fill,   *)
(* keeps what the invariant says of them.                                  *)
LEMMA ContainersKept ==
  ASSUME IndInv, pc # "idle", pc' # "idle",
         UNCHANGED <<frames, recursive_depth, callVars, result>>,
         \A i \in 1..Len(frames) : vals'[i] = vals[i],
         InContainer', HeaderSound', ElementFresh'
  PROVE  FramesOK' /\ Rest'
<1> USE DEF callVars
<1>1. FramesOK' /\ DepthGuard' /\ EscapeOnlyOnReuse'
  BY DEF IndInv, TypeOK, FramesOK, TypedHeaderDead, DepthGuard, EscapeOnlyOnReuse
<1>2. ObjectsIndexable'
  BY DEF IndInv, ObjectsIndexable
<1>3. QED BY <1>1, <1>2 DEF Rest

LEMMA SetValueFacts ==
  ASSUME NEW v, Len(frames) \in Nat, SetValue(v)
  PROVE  /\ \A i \in 1..Len(frames) : vals'[i] = vals[i]
         /\ vals'[Len(frames) + 1] = v
  BY DEF SetValue, LastValue

LEMMA LenFrames == ASSUME IndInv PROVE Len(frames) \in Nat
  BY LenProperties DEF IndInv, TypeOK

LEMMA ReadMarkerKeeps == ASSUME IndInv, ReadMarker PROVE IndInv'
<1> USE DEF ReadMarker, Calm, callVars
<1>1. StreamOK' /\ marker' \in Byte
  <2>1. CASE TypedElement
    BY <2>1, StreamUnchanged, ReaderAssumption
  <2>2. CASE ~TypedElement
    <3>1. StreamOK'
      BY <2>2, ReadBufferOK, IndInvSplit
    <3>2. marker' \in Byte
      BY <2>2, ReadOne DEF IndInv, TypeOK
    <3>3. QED BY <3>1, <3>2
  <2>3. QED BY <2>1, <2>2
<1>2. /\ pc' \in {"payload", "integer", "container", "store"}
      /\ use' \in Uses
      /\ pc' = "integer" => use' \in {"string", "binary"}
      /\ pc' # "store" => vals' = vals
      /\ \A i \in 1..Len(frames) : vals'[i] = vals[i]
  <2>1. CASE UNCHANGED <<vals, use>> /\ pc' \in {"payload", "container", "store"}
    BY <2>1 DEF IndInv, TypeOK
  <2>2. CASE UNCHANGED vals /\ pc' = "integer" /\ use' \in {"string", "binary"}
    BY <2>2 DEF Uses
  <2>3. CASE /\ SetValue(IF marker' = Marker.Null THEN NullValue
                          ELSE BoolValue(marker' = Marker.True))
             /\ pc' = "store" /\ UNCHANGED use
    BY <2>3, SetValueFacts, LenFrames DEF IndInv, TypeOK
  <2>4. QED BY <2>1, <2>2, <2>3, Zenon DEF Dispatch
<1>3. ControlOK'
  BY <1>1, <1>2 DEF IndInv, TypeOK, ControlOK, Running
<1>4. InContainer' /\ HeaderSound'
  BY <1>2 DEF InContainer, HeaderSound
<1>5. ElementFresh'
  BY <1>2 DEF IndInv, ElementFresh, Element, Running
<1>6. FramesOK' /\ Rest'
  BY <1>2, <1>4, <1>5, ContainersKept
<1>7. QED BY <1>1, <1>3, <1>6, IndInvJoin

LEMMA ReadPayloadKeeps == ASSUME IndInv, ReadPayload PROVE IndInv'
<1> USE DEF ReadPayload, Calm, callVars, localVars
<1>1. StreamOK'
  BY WidthBounds, ReadBufferOK, IndInvSplit
<1>2. \A i \in 1..Len(frames) : vals'[i] = vals[i]
  BY SetValueFacts, LenFrames
<1>3. ControlOK'
  BY DEF IndInv, TypeOK, ControlOK, Running
<1>4. InContainer' /\ HeaderSound' /\ ElementFresh'
  BY DEF InContainer, HeaderSound, ElementFresh, Running
<1>5. FramesOK' /\ Rest'
  BY <1>2, <1>4, ContainersKept
<1>6. QED BY <1>1, <1>3, <1>5, IndInvJoin

LEMMA ReadIntegerKeeps == ASSUME IndInv, ReadInteger PROVE IndInv'
<1> USE DEF ReadInteger, Calm, callVars
<1>1. StreamOK' /\ b' \in Byte
  BY ReadBufferOK, ReadOne, IndInvSplit DEF StreamOK
<1>2. ControlOK'
  BY <1>1 DEF IndInv, TypeOK, ControlOK, Running
<1>3. InContainer' /\ HeaderSound' /\ ElementFresh'
  BY DEF IndInv, InContainer, HeaderSound, ElementFresh, Element, Running
<1>4. FramesOK' /\ Rest'
  BY <1>3, ContainersKept
<1>5. QED BY <1>1, <1>2, <1>4, IndInvJoin

(* Setting the key of the innermost container leaves the rest of it.       *)
LEMMA SetKeyFacts ==
  ASSUME frames \in Seq(Frame), frames # <<>>, NEW s \in Seq(Byte), SetKey(s)
  PROVE  /\ frames' \in Seq(Frame) /\ Len(frames') = Len(frames)
         /\ frames' # <<>>
         /\ \A i \in 1..Len(frames) :
              /\ frames'[i].type = frames[i].type
              /\ frames'[i].is_valid = frames[i].is_valid
              /\ frames'[i].marker = frames[i].marker
<1>1. Len(frames) \in 1..Len(frames) /\ Len(frames) \in Nat
  BY EmptySeq, LenProperties
<1>2. Top \in Frame
  BY <1>1, ElementOfSeq DEF Top
<1>3. [Top EXCEPT !.key = s] \in Frame
  BY <1>2 DEF Frame
<1>4. frames' = [frames EXCEPT ![Len(frames)] = [Top EXCEPT !.key = s]]
  BY DEF SetKey, Top
<1>5. /\ frames' \in Seq(Frame) /\ Len(frames') = Len(frames)
      /\ \A i \in 1..Len(frames) :
           frames'[i] = IF i = Len(frames) THEN [Top EXCEPT !.key = s] ELSE frames[i]
  BY <1>1, <1>3, <1>4, ExceptSeq
<1>6. frames' # <<>>
  BY <1>1, <1>5, EmptySeq
<1>7. /\ [Top EXCEPT !.key = s].type = Top.type
      /\ [Top EXCEPT !.key = s].is_valid = Top.is_valid
      /\ [Top EXCEPT !.key = s].marker = Top.marker
  BY <1>2 DEF Frame
<1>8. QED BY <1>5, <1>6, <1>7 DEF Top

LEMMA DeliverKeeps ==
  ASSUME IndInv, pc \in {"integer", "bytes"}, NEW s \in Seq(Byte), Deliver(s),
         UNCHANGED <<recursive_depth, callVars, result, use, header>>
  PROVE  FramesOK' /\ Rest' /\ pc' \in Running
<1> USE DEF callVars
<1>1. CASE use = "key" /\ SetKey(s) /\ pc' = "marker" /\ UNCHANGED vals
  <2>1. frames # <<>> /\ frames \in Seq(Frame)
    BY <1>1 DEF IndInv, InContainer, TypeOK
  <2>2. /\ frames' \in Seq(Frame) /\ Len(frames') = Len(frames)
        /\ frames' # <<>>
        /\ \A i \in 1..Len(frames) :
             /\ frames'[i].type = frames[i].type
             /\ frames'[i].is_valid = frames[i].is_valid
             /\ frames'[i].marker = frames[i].marker
    BY <1>1, <2>1, SetKeyFacts
  <2>3. FramesOK' /\ DepthGuard' /\ EscapeOnlyOnReuse' /\ ObjectsIndexable'
    BY <1>1, <2>2 DEF IndInv, FramesOK, TypedHeaderDead, DepthGuard,
       EscapeOnlyOnReuse, ObjectsIndexable
  <2>4. InContainer' /\ HeaderSound'
    BY <1>1 DEF InContainer, HeaderSound
  <2>5. Element' = Element /\ Element = NullValue
    BY <1>1, <2>1, <2>2 DEF IndInv, ElementFresh, Element, Running
  <2>6. QED BY <1>1, <2>2, <2>3, <2>4, <2>5 DEF Rest, ElementFresh, Running
<1>2. CASE /\ pc' = "store" /\ UNCHANGED frames
           /\ \E v : SetValue(v)
  <2>1. \A i \in 1..Len(frames) : vals'[i] = vals[i]
    BY <1>2, SetValueFacts, LenFrames
  <2>2. InContainer' /\ HeaderSound' /\ ElementFresh'
    BY <1>2 DEF InContainer, HeaderSound, ElementFresh
  <2>3. QED BY <1>2, <2>1, <2>2, ContainersKept DEF Running
<1>3. QED BY <1>1, <1>2 DEF Deliver

LEMMA ReadNoIntegerKeeps == ASSUME IndInv, ReadNoInteger PROVE IndInv'
<1> USE DEF ReadNoInteger, Calm, callVars
<1>1. StreamOK' /\ b' \in Byte
  BY ReadBufferOK, ReadOne, IndInvSplit DEF StreamOK
<1>2. CASE use # "count" /\ Deliver(<<>>) /\ UNCHANGED header
  <2>1. FramesOK' /\ Rest' /\ pc' \in Running
    BY <1>2, DeliverKeeps, EmptySeq
  <2>2. ControlOK'
    BY <1>1, <1>2, <2>1 DEF IndInv, TypeOK, ControlOK
  <2>3. QED BY <1>1, <2>1, <2>2, IndInvJoin
<1>3. CASE /\ use = "count"
           /\ header' = [header EXCEPT !.item_count = 0, !.is_valid = FALSE]
           /\ pc' = "enter"
           /\ UNCHANGED <<frames, vals>>
  <2>0. 0 \in 0 .. SizeMod - 1
    BY ReaderAssumption
  <2>1. header' \in STCHeader /\ header'.is_valid = FALSE
    BY <1>3, <2>0 DEF IndInv, TypeOK, STCHeader
  <2>2. ControlOK'
    BY <1>1, <1>3, <2>1 DEF IndInv, TypeOK, ControlOK, Running
  <2>3. InContainer' /\ HeaderSound' /\ ElementFresh'
    BY <1>3, <2>1 DEF IndInv, InContainer, HeaderSound, ElementFresh, Element,
       Running
  <2>4. FramesOK' /\ Rest'
    BY <1>3, <2>3, ContainersKept
  <2>5. QED BY <1>1, <2>2, <2>4, IndInvJoin
<1>4. QED BY <1>2, <1>3

LEMMA ReadDigitsKeeps == ASSUME IndInv, ReadDigits PROVE IndInv'
<1> USE DEF ReadDigits, Calm, callVars
<1>1. StreamOK'
  BY WidthBounds, ReadBufferOK, IndInvSplit
<1>2. PICK n \in 0 .. SizeMod - 1 :
        \/ /\ use = "count"
           /\ header' = [header EXCEPT !.item_count = n, !.is_valid = TRUE]
           /\ pc' = "enter"
           /\ UNCHANGED num
        \/ /\ use # "count"
           /\ num' = n
           /\ pc' = "bytes"
           /\ UNCHANGED header
  <2>1. ASSUME NEW buf \in Read(Width(b)) PROVE Signed(buf) % SizeMod \in 0 .. SizeMod - 1
    <3> DEFINE w == Width(b)
    <3>0. w \in Nat /\ w > 0
      BY WidthBounds
    <3> HIDE DEF w
    <3>1. buf \in Seq(Byte) /\ Len(buf) > 0
      <4>1. stream \in Seq(Byte) /\ buf \in Read(w)
        BY DEF IndInv, TypeOK, w
      <4>2. QED BY <3>0, <4>1, ReadYields
    <3>2. Signed(buf) \in Int
      BY <3>1, NumberType
    <3>3. SizeMod \in Nat /\ SizeMod > 0
      BY ReaderAssumption
    <3>4. QED BY <3>2, <3>3
  <2>2. QED BY <2>1
<1>3. header' \in STCHeader /\ num' \in 0 .. SizeMod - 1
  BY <1>2 DEF IndInv, TypeOK, STCHeader
<1>4. ControlOK'
  BY <1>2, <1>3 DEF IndInv, TypeOK, ControlOK, Running
<1>5. header'.marker = header.marker
  BY <1>2 DEF IndInv, TypeOK, STCHeader
<1>6. InContainer' /\ HeaderSound' /\ ElementFresh'
  BY <1>2, <1>5 DEF IndInv, InContainer, HeaderSound, ElementFresh, Element, Running
<1>7. FramesOK' /\ Rest'
  BY <1>2, <1>6, ContainersKept
<1>8. QED BY <1>1, <1>4, <1>7, IndInvJoin

LEMMA ReadBytesKeeps == ASSUME IndInv, ReadBytes PROVE IndInv'
<1> USE DEF ReadBytes, Calm, callVars, localVars
<1>1. num \in Nat
  BY ReaderAssumption DEF IndInv, TypeOK
<1>2. StreamOK'
  BY <1>1, ReadBufferOK, IndInvSplit
<1>3. PICK buf \in Seq(Byte) : Deliver(buf)
  BY <1>1, ReadYields DEF IndInv, TypeOK
<1>4. FramesOK' /\ Rest' /\ pc' \in Running
  BY <1>3, DeliverKeeps
<1>5. ControlOK'
  BY <1>4 DEF IndInv, TypeOK, ControlOK
<1>6. QED BY <1>2, <1>4, <1>5, IndInvJoin

LEMMA PeekContainerKeeps == ASSUME IndInv, PeekContainer PROVE IndInv'
<1> USE DEF PeekContainer, Calm, callVars
<1>1. StreamOK'
  BY PeekOK, IndInvSplit
<1>2. ControlOK'
  BY HeaderFacts DEF IndInv, TypeOK, ControlOK, Running
<1>3. InContainer' /\ HeaderSound' /\ ElementFresh'
  BY DEF IndInv, InContainer, HeaderSound, ElementFresh, Element, Running, NoHeader
<1>4. FramesOK' /\ Rest'
  BY <1>3, ContainersKept
<1>5. QED BY <1>1, <1>2, <1>4, IndInvJoin

LEMMA ReadHeaderKeeps == ASSUME IndInv, ReadHeader PROVE IndInv'
<1> USE DEF ReadHeader, Calm, callVars
<1>1. StreamOK' /\ b' \in Byte
  BY ReadBufferOK, ReadOne, IndInvSplit DEF StreamOK
<1>2. pc' \in {"count", "type", "enter"}
  OBVIOUS
<1>3. ControlOK'
  BY <1>1, <1>2 DEF IndInv, TypeOK, ControlOK, Running
<1>4. InContainer' /\ HeaderSound' /\ ElementFresh'
  BY <1>2 DEF IndInv, InContainer, HeaderSound, ElementFresh, Element, Running
<1>5. FramesOK' /\ Rest'
  BY <1>2, <1>4, ContainersKept
<1>6. QED BY <1>1, <1>3, <1>5, IndInvJoin

LEMMA PeekCountKeeps == ASSUME IndInv, PeekCount PROVE IndInv'
<1> USE DEF PeekCount, Calm, callVars
<1>1. StreamOK' /\ b' \in Byte
  BY PeekOK, IndInvSplit DEF StreamOK
<1>2. \/ use' = "count" /\ pc' = "integer"
      \/ use' = use /\ pc' \in {"type", "enter"}
  OBVIOUS
<1>3. ControlOK'
  BY <1>1, <1>2 DEF IndInv, TypeOK, ControlOK, Running, Uses
<1>4. InContainer' /\ HeaderSound' /\ ElementFresh'
  BY <1>2 DEF IndInv, InContainer, HeaderSound, ElementFresh, Element, Running
<1>5. FramesOK' /\ Rest'
  BY <1>2, <1>4, ContainersKept
<1>6. QED BY <1>1, <1>3, <1>5, IndInvJoin

(* A type that is read leaves the header without a valid count.            *)
LEMMA ReadTypeKeeps == ASSUME IndInv, ReadType PROVE IndInv'
<1> USE DEF ReadType, Calm, callVars, AfterType
<1>1. StreamOK'
  BY ReadBufferOK, IndInvSplit
<1>2. PICK byte \in Byte : header' = [header EXCEPT !.marker = byte]
  BY ReadOne DEF IndInv, TypeOK
<1>3. header' \in STCHeader /\ header'.is_valid = FALSE
  BY <1>2 DEF IndInv, TypeOK, HeaderSound, STCHeader
<1>4. ControlOK'
  BY <1>3 DEF IndInv, TypeOK, ControlOK, Running
<1>5. InContainer' /\ HeaderSound' /\ ElementFresh'
  BY <1>3 DEF IndInv, InContainer, HeaderSound, ElementFresh, Element, Running
<1>6. FramesOK' /\ Rest'
  BY <1>5, ContainersKept
<1>7. QED BY <1>1, <1>4, <1>6, IndInvJoin

LEMMA FreshIsIndexable == Indexable(NullValue)
  BY DEF Indexable, NullValue

(* A container that opens fills the element that was about to be read.     *)
LEMMA EnterKeeps == ASSUME IndInv, Enter PROVE IndInv'
<1> USE DEF Enter, Calm, callVars, localVars
<1> DEFINE f == [type       |-> IF marker = Marker.Object_Start THEN "Object" ELSE "Array",
                 is_valid   |-> header.is_valid,
                 item_count |-> header.item_count,
                 marker     |-> header.marker,
                 key        |-> <<>>]
<1>1. StreamOK'
  BY StreamUnchanged
<1>2. ControlOK'
  BY DEF IndInv, TypeOK, ControlOK, Running
<1>3. f \in Frame /\ (f.is_valid => f.marker = Marker.Invalid)
  BY EmptySeq DEF IndInv, TypeOK, STCHeader, Frame, HeaderSound
<1>4. frames' = Append(frames, f)
  OBVIOUS
<1> HIDE DEF f, Enter
<1>5. /\ frames' \in Seq(Frame) /\ Len(frames') = Len(frames) + 1 /\ frames' # <<>>
      /\ Len(frames) \in Nat
      /\ \A i \in 1..Len(frames) : frames'[i] = frames[i]
      /\ frames'[Len(frames) + 1] = f
  <2>1. frames \in Seq(Frame)
    BY DEF IndInv, TypeOK
  <2>2. QED BY <1>3, <1>4, <2>1, AppendFacts
<1> USE DEF Enter
<1>6. FramesOK' /\ DepthGuard' /\ EscapeOnlyOnReuse'
  <2>1. ASSUME NEW i \in 1 .. Len(frames) + 1, frames'[i].is_valid
        PROVE  frames'[i].marker = Marker.Invalid
    <3>1. CASE i \in 1..Len(frames)
      BY <1>5, <2>1, <3>1 DEF IndInv, TypedHeaderDead
    <3>2. CASE i = Len(frames) + 1
      BY <1>3, <1>5, <2>1, <3>2
    <3>3. QED BY <1>5, <3>1, <3>2
  <2>2. FramesOK'
    BY <1>5, <2>1 DEF FramesOK, TypedHeaderDead
  <2>3. DepthGuard'
    BY <1>5, ReaderAssumption DEF IndInv, TypeOK, DepthGuard
  <2>4. EscapeOnlyOnReuse'
    BY DEF IndInv, EscapeOnlyOnReuse
  <2>5. QED BY <2>2, <2>3, <2>4
<1>7. InContainer' /\ HeaderSound' /\ ElementFresh'
  BY <1>5 DEF InContainer, HeaderSound, ElementFresh
<1>8. ObjectsIndexable'
  <2>1. SUFFICES ASSUME NEW i \in 1 .. Len(frames) + 1, frames'[i].type = "Object",
                        i = 1 => Indexable(given)
                 PROVE  Indexable(vals[i])
    BY <1>5 DEF ObjectsIndexable
  <2>2. CASE i \in 1..Len(frames)
    BY <1>5, <2>1, <2>2 DEF IndInv, ObjectsIndexable
  <2>3. CASE i = Len(frames) + 1 /\ frames = <<>>
    BY <2>1, <2>3, EmptySeq DEF IndInv, ElementFresh, Element, Running
  <2>4. CASE i = Len(frames) + 1 /\ frames # <<>>
    BY <2>4, FreshIsIndexable DEF IndInv, ElementFresh, Element, Running
  <2>5. QED BY <1>5, <2>2, <2>3, <2>4
<1>9. QED BY <1>1, <1>2, <1>5, <1>6, <1>7, <1>8, IndInvJoin DEF Rest

(* An element starts with a fresh Value.                                   *)
LEMMA StartElementKeeps ==
  ASSUME IndInv, pc = "loop", StartElement,
         UNCHANGED <<frames, recursive_depth, callVars, result>>
  PROVE  FramesOK' /\ Rest' /\ pc' \in {"integer", "marker"} /\ use' \in Uses
<1> USE DEF StartElement, callVars
<1>1. /\ pc' \in {"integer", "marker"} /\ use' \in Uses
      /\ pc' = "integer" => use' = "key"
  BY DEF IndInv, TypeOK, Uses
<1>2. frames # <<>>
  BY DEF IndInv, InContainer
<1>3. /\ \A i \in 1..Len(frames) : vals'[i] = vals[i]
      /\ vals'[Len(frames) + 1] = NullValue
  BY SetValueFacts, LenFrames
<1>4. InContainer' /\ HeaderSound' /\ ElementFresh'
  BY <1>1, <1>2, <1>3 DEF InContainer, HeaderSound, ElementFresh, Element
<1>5. QED BY <1>1, <1>3, <1>4, ContainersKept

LEMMA NextCountedKeeps == ASSUME IndInv, NextCounted PROVE IndInv'
<1> USE DEF NextCounted, Calm, callVars
<1>1. StreamOK'
  BY StreamUnchanged
<1>2. FramesOK' /\ Rest' /\ pc' \in {"integer", "marker"} /\ use' \in Uses
  BY StartElementKeeps
<1>3. ControlOK'
  BY <1>2 DEF IndInv, TypeOK, ControlOK, Running
<1>4. QED BY <1>1, <1>2, <1>3, IndInvJoin

LEMMA PeekEndKeeps == ASSUME IndInv, PeekEnd PROVE IndInv'
<1> USE DEF PeekEnd, Calm, callVars
<1>1. StreamOK'
  BY PeekOK, IndInvSplit
<1>2. /\ FramesOK' /\ Rest'
      /\ pc' \in {"peel", "integer", "marker"} /\ use' \in Uses
  <2>1. CASE pc' = "peel" /\ UNCHANGED <<vals, use>>
    <3>1. InContainer' /\ HeaderSound' /\ ElementFresh'
      BY <2>1 DEF IndInv, InContainer, HeaderSound, ElementFresh
    <3>2. FramesOK' /\ Rest'
      BY <2>1, <3>1, ContainersKept
    <3>3. QED BY <2>1, <3>2 DEF IndInv, TypeOK
  <2>2. CASE StartElement
    BY <2>2, StartElementKeeps
  <2>3. QED BY <2>1, <2>2
<1>3. ControlOK'
  BY <1>2 DEF IndInv, TypeOK, ControlOK, Running
<1>4. QED BY <1>1, <1>2, <1>3, IndInvJoin

(* A container that closes gives its level back.                           *)
LEMMA LeaveKeeps ==
  ASSUME IndInv, pc \in {"peel", "loop"}, Leave, StreamOK'
  PROVE  IndInv'
<1> USE DEF Leave, Calm, callVars, localVars, Ascend
<1>1. frames # <<>> /\ frames \in Seq(Frame) /\ Len(frames) \in Nat /\ Len(frames) > 0
  BY EmptySeq, LenProperties DEF IndInv, InContainer, TypeOK
<1>2. /\ frames' \in Seq(Frame) /\ Len(frames') = Len(frames) - 1
      /\ \A i \in 1 .. Len(frames) - 1 : frames'[i] = frames[i]
  BY <1>1, FrontFacts
<1>3. recursive_depth = Len(frames) /\ recursive_depth' = Len(frames')
  BY <1>1, <1>2 DEF IndInv, DepthGuard
<1>4. ControlOK'
  BY <1>1, <1>3 DEF IndInv, TypeOK, ControlOK, Running
<1>5. FramesOK' /\ DepthGuard' /\ EscapeOnlyOnReuse'
  BY <1>1, <1>2, <1>3, ReaderAssumption DEF IndInv, FramesOK, TypedHeaderDead,
     DepthGuard, EscapeOnlyOnReuse
<1>6. InContainer' /\ HeaderSound' /\ ElementFresh'
  BY DEF InContainer, HeaderSound, ElementFresh
<1>7. ObjectsIndexable'
  BY <1>1, <1>2 DEF IndInv, ObjectsIndexable
<1>8. QED BY <1>4, <1>5, <1>6, <1>7, IndInvJoin DEF Rest

LEMMA PeelKeeps == ASSUME IndInv, Peel PROVE IndInv'
<1>1. StreamOK'
  BY ReadBufferOK, IndInvSplit DEF Peel, PeelEnd
<1>2. QED BY <1>1, LeaveKeeps DEF Peel

LEMMA LeaveCountedKeeps == ASSUME IndInv, LeaveCounted PROVE IndInv'
<1>1. StreamOK'
  BY StreamUnchanged DEF LeaveCounted
<1>2. QED BY <1>1, LeaveKeeps DEF LeaveCounted

(* Below zero the count wraps around and stays a size_t.                   *)
LEMMA DecrementType ==
  ASSUME NEW n \in 0 .. SizeMod - 1 PROVE Decrement(n) \in 0 .. SizeMod - 1
<1>1. SizeMod \in Nat /\ SizeMod > 0
  BY ReaderAssumption
<1>2. QED BY <1>1 DEF Decrement

(* An element that is stored changes the Value of its container only.      *)
LEMMA StoreKeeps ==
  ASSUME IndInv, pc = "store", frames # <<>>, NEW v, StoreInto(v),
         Top.type = "Object" => Indexable(v)
  PROVE  IndInv'
<1> USE DEF StoreInto, Calm, callVars, localVars
<1> DEFINE n == Len(frames)
           g == [Top EXCEPT !.item_count = Decrement(@)]
<1>1. frames \in Seq(Frame) /\ n \in Nat /\ n \in 1..n
  BY EmptySeq, LenProperties DEF IndInv, TypeOK
<1>2. Top \in Frame /\ Top = frames[n]
  BY <1>1, ElementOfSeq DEF Top
<1>3. g \in Frame
  BY <1>2, DecrementType DEF Frame
<1>4. g.type = Top.type /\ g.is_valid = Top.is_valid /\ g.marker = Top.marker
  BY <1>2 DEF Frame
<1>5. frames' = [frames EXCEPT ![n] = g]
  BY DEF Top
<1> HIDE DEF g
<1>6. /\ frames' \in Seq(Frame) /\ Len(frames') = n
      /\ \A i \in 1..n : frames'[i] = IF i = n THEN g ELSE frames[i]
  BY <1>1, <1>3, <1>5, ExceptSeq
<1>7. \A i \in 1..n : vals'[i] = IF i = n THEN v ELSE vals[i]
  BY DEF LastValue
<1>8. StreamOK'
  BY StreamUnchanged
<1>9. ControlOK'
  BY DEF IndInv, TypeOK, ControlOK, Running
<1>10. FramesOK'
  BY <1>2, <1>4, <1>6 DEF IndInv, FramesOK, TypedHeaderDead
<1>11. DepthGuard' /\ EscapeOnlyOnReuse'
  BY <1>6 DEF IndInv, DepthGuard, EscapeOnlyOnReuse
<1>12. frames' # <<>>
  BY <1>1, <1>6, EmptySeq
<1>13. InContainer' /\ HeaderSound' /\ ElementFresh'
  BY <1>12 DEF InContainer, HeaderSound, ElementFresh
<1>14. ObjectsIndexable'
  <2>1. SUFFICES ASSUME NEW i \in 1..n, frames'[i].type = "Object",
                        i = 1 => Indexable(given)
                 PROVE  Indexable(vals'[i])
    BY <1>6 DEF ObjectsIndexable
  <2>2. CASE i = n
    BY <1>4, <1>6, <1>7, <2>1, <2>2
  <2>3. CASE i # n
    BY <1>6, <1>7, <2>1, <2>3 DEF IndInv, ObjectsIndexable
  <2>4. QED BY <2>2, <2>3
<1>15. QED BY <1>8, <1>9, <1>10, <1>11, <1>13, <1>14, IndInvJoin DEF Rest

LEMMA StoreKeyKeeps == ASSUME IndInv, StoreKey PROVE IndInv'
<1>1. Indexable(AssignKey(Container, Top.key, Element))
  BY DEF Indexable, AssignKey, MapValue
<1>2. QED BY <1>1, StoreKeeps DEF StoreKey

LEMMA StoreElementKeeps == ASSUME IndInv, StoreElement PROVE IndInv'
  BY StoreKeeps DEF StoreElement

(* Only the caller's own Value can be the one that refuses a key.          *)
LEMMA IndexErrorKeeps == ASSUME IndInv, IndexError PROVE IndInv'
<1> USE DEF IndexError, Escape, Unwind, callVars
<1>1. StreamOK'
  BY StreamUnchanged
<1>2. Len(frames) \in 1..Len(frames)
  BY EmptySeq, LenProperties DEF IndInv, TypeOK
<1>3. ~Indexable(given)
  BY <1>2 DEF IndInv, ObjectsIndexable, Container, Top
<1>4. EscapeOnlyOnReuse'
  BY <1>3 DEF EscapeOnlyOnReuse, Indexable
<1>5. QED BY <1>1, <1>4, UnwindKeeps DEF IndInv, TypeOK, Outcomes

LEMMA StutterKeeps == ASSUME IndInv, UNCHANGED vars PROVE IndInv'
BY DEF vars, streamVars, callVars, localVars, IndInv, TypeOK, DepthGuard,
   Budget, TypedHeaderDead, EscapeOnlyOnReuse, InContainer, HeaderSound,
   ElementFresh, Element, ObjectsIndexable

-----------------------------------------------------------------------------
(* The theorems.                                                           *)

LEMMA InitEstablishes == ASSUME Init PROVE IndInv
<1>0. /\ frames = <<>> /\ Len(frames) = 0 /\ taken = <<>> /\ Len(taken) = 0
      /\ frames \in Seq(Frame) /\ taken \in Seq(Byte)
  BY EmptySeq DEF Init
<1>1. 0 \in Byte /\ 0 \in 0 .. SizeMod - 1 /\ 0 \in 0 .. MaxCalls
      /\ MaxDepth \in Nat /\ MaxObjectSize \in Nat /\ Inputs \subseteq Seq(Byte)
  BY ReaderAssumption DEF Byte
<1>2. StreamOK
  <2>1. stream \in Seq(Byte) /\ peeked_byte \in [first : Byte, second : BOOLEAN]
    BY <1>1 DEF Init
  <2>2. bytes_so_far = 0 /\ missing = 0
    BY DEF Init
  <2>3. QED BY <1>0, <1>1, <2>1, <2>2 DEF StreamOK, Budget
<1>3. ControlOK
  BY <1>1, HeaderFacts DEF Init, ControlOK, Errors, Uses, Outcomes
<1>4. FramesOK
  BY <1>0 DEF FramesOK, TypedHeaderDead
<1>5. pc = "idle" /\ result = "none" /\ pc \notin Running
  BY DEF Init, Running
<1>6. Rest
  BY <1>0, <1>1, <1>5 DEF Rest, DepthGuard, EscapeOnlyOnReuse, InContainer,
     HeaderSound, ElementFresh, ObjectsIndexable
<1>7. QED BY <1>2, <1>3, <1>4, <1>6
          DEF IndInv, TypeOK, StreamOK, ControlOK, FramesOK, Rest

(* Every step keeps the invariant.                                         *)
LEMMA StepKeeps == IndInv /\ [Next]_vars => IndInv'
<1> SUFFICES ASSUME IndInv, [Next]_vars PROVE IndInv'
  OBVIOUS
<1>1. CASE Call                BY <1>1, CallKeeps
<1>2. CASE ReadMarker          BY <1>2, ReadMarkerKeeps
<1>3. CASE ReadPayload         BY <1>3, ReadPayloadKeeps
<1>4. CASE ReadInteger         BY <1>4, ReadIntegerKeeps
<1>5. CASE ReadNoInteger       BY <1>5, ReadNoIntegerKeeps
<1>6. CASE InvalidCount        BY <1>6, InvalidCountKeeps
<1>7. CASE ReadDigits          BY <1>7, ReadDigitsKeeps
<1>8. CASE ReadBytes           BY <1>8, ReadBytesKeeps
<1>9. CASE PeekContainer       BY <1>9, PeekContainerKeeps
<1>10. CASE ReadHeader         BY <1>10, ReadHeaderKeeps
<1>11. CASE PeekCount          BY <1>11, PeekCountKeeps
<1>12. CASE ReadType           BY <1>12, ReadTypeKeeps
<1>13. CASE Enter              BY <1>13, EnterKeeps
<1>14. CASE NextCounted        BY <1>14, NextCountedKeeps
<1>15. CASE PeekEnd            BY <1>15, PeekEndKeeps
<1>16. CASE Peel               BY <1>16, PeelKeeps
<1>17. CASE LeaveCounted       BY <1>17, LeaveCountedKeeps
<1>18. CASE StoreKey           BY <1>18, StoreKeyKeeps
<1>19. CASE StoreElement       BY <1>19, StoreElementKeeps
<1>20. CASE Return             BY <1>20, ReturnKeeps
<1>21. CASE PolicyViolation    BY <1>21, PolicyViolationKeeps
<1>22. CASE BadAlloc           BY <1>22, BadAllocKeeps
<1>23. CASE DepthExceeded      BY <1>23, DepthExceededKeeps
<1>24. CASE IndexError         BY <1>24, IndexErrorKeeps
<1>25. CASE UNCHANGED vars     BY <1>25, StutterKeeps
<1>26. QED
  BY <1>1, <1>2, <1>3, <1>4, <1>5, <1>6, <1>7, <1>8, <1>9, <1>10, <1>11,
     <1>12, <1>13, <1>14, <1>15, <1>16, <1>17, <1>18, <1>19, <1>20, <1>21,
     <1>22, <1>23, <1>24, <1>25, Zenon DEF Next, Step

(* The inductive invariant: whatever the stream delivers, and however the  *)
(* calls of getNextValue end, the reader's counters, headers and Values    *)
(* stay in step with the containers that are open.                         *)
THEOREM Invariance == Spec => []IndInv
  BY InitEstablishes, StepKeeps, PTL DEF Spec

(* Every variable keeps its type: no arithmetic of the reader leaves the   *)
(* range of the C++ type it stands for.                                    *)
THEOREM TypeCorrect == Spec => []TypeOK
<1>1. IndInv => TypeOK
  BY DEF IndInv
<1>2. QED BY <1>1, Invariance, PTL

(* recursive_depth is the number of open containers, so never more than    *)
(* max_value_depth calls of extract_nextValue nest.                        *)
THEOREM DepthBounded == Spec => []DepthGuard
<1>1. IndInv => DepthGuard
  BY DEF IndInv
<1>2. QED BY <1>1, Invariance, PTL

(* A call never asks the stream for more than max_object_size bytes: the   *)
(* check in front of each read is made before the read, and cannot wrap.   *)
THEOREM BudgetKept == Spec => []Budget
<1>1. IndInv => Budget
  BY DEF IndInv
<1>2. QED BY <1>1, Invariance, PTL

(* No stream makes extract_nextValue use the uninitialised km.marker.      *)
THEOREM TypedHeaderIsDead == Spec => []TypedHeaderDead
<1>1. IndInv => TypedHeaderDead
  BY DEF IndInv
<1>2. QED BY <1>1, Invariance, PTL

(* A caller that passes in a Null or a Map never sees a value_exception.   *)
THEOREM EscapesOnlyOnReuse == Spec => []EscapeOnlyOnReuse
<1>1. IndInv => EscapeOnlyOnReuse
  BY DEF IndInv
<1>2. QED BY <1>1, Invariance, PTL
=============================================================================
