---------------------------- MODULE StreamReader ----------------------------
(***************************************************************************)
(* ubjson::StreamReader (include/stream_reader.hpp): one reader on one     *)
(* stream, called again and again.                                         *)
(*                                                                         *)
(* The call stack of extract_nextValue is explicit.  "frames" holds the    *)
(* type, header, item count and current key of every container that is     *)
(* open; "vals" holds the Value each of them fills, the caller's Value     *)
(* first, and last the local Value of the element being read.  Every read  *)
(* from the stream is a step, and so are the checks that can throw.        *)
(***************************************************************************)
EXTENDS UbjsonTypes, UbjsonValue

CONSTANTS
  StreamTypes,     (* does StreamType derive from std::istream?  TRUE,     *)
                   (* FALSE, or either                                     *)
  MaxDepth,        (* ValueSizePolicy::max_value_depth                     *)
  MaxObjectSize,   (* ValueSizePolicy::max_object_size                     *)
  MaxAlloc,        (* the largest request operator new[] grants            *)
  SizeMod,         (* values of size_t; 2^64 in the code                   *)
  Junk,            (* what an uninitialised byte may hold                  *)
  Inputs,          (* the byte sequences a stream may deliver              *)
  MaxCalls         (* bound: calls of getNextValue in a behaviour          *)

ASSUME ReaderAssumption ==
  /\ StreamTypes \subseteq BOOLEAN
  /\ MaxDepth \in Nat
  /\ MaxObjectSize \in Nat
  /\ MaxAlloc \in Nat
  /\ SizeMod \in Nat
  /\ MaxAlloc + MaxObjectSize < SizeMod     (* memory is below 2^64 bytes  *)
  /\ 8 + MaxObjectSize < SizeMod            (* and so is a fixed payload   *)
  /\ Junk \subseteq Byte /\ Junk # {}
  /\ Inputs \subseteq Seq(Byte)
  /\ MaxCalls \in Nat

VARIABLES
  stream,            (* the bytes the stream has not delivered yet         *)
  peeked_byte,       (* [first, second]                                    *)
  bytes_so_far,
  recursive_depth,
  last_error,
  frames,            (* the open calls of extract_nextValue                *)
  vals,              (* the Values under construction                      *)
  pc,                (* the statement that comes next                      *)
  marker,            (* the marker of the element being read               *)
  b,                 (* the local b of extract_Integer and of the headers  *)
  use,               (* what the integer being read counts                 *)
  num,               (* its value as a size_t                              *)
  header,            (* the STCHeader being read                           *)
  result,            (* how the last call of getNextValue ended            *)
  given,             (* history: the Value the caller passed in            *)
  taken,             (* history: the bytes the stream delivered to it      *)
  missing,           (* history: how many more it was asked for            *)
  is_istream,        (* StreamType, which the reader is instantiated with  *)
  calls              (* history: calls made so far                         *)

streamVars == <<stream, peeked_byte, bytes_so_far, taken, missing>>
callVars == <<given, calls, is_istream>>
localVars == <<marker, b, use, num, header>>
vars == <<streamVars, callVars, localVars, recursive_depth, last_error,
          frames, vals, pc, result>>

Uses == {"key", "string", "binary", "count"}
Errors == {"", "policy", "depth", "count"}
Outcomes == {"none", "true", "false", "bad_alloc", "value_exception"}
ValueTypes == {"Null", "Bool", "Char", "SignedInt", "UnsignedInt", "Float",
               "String", "Binary", "Array", "Map"}
Running == {"marker", "payload", "integer", "digits", "bytes", "container",
            "header", "count", "type", "enter", "loop", "peel", "store"}

NoHeader == [is_valid |-> FALSE, item_count |-> 0, marker |-> Marker.Invalid]

Top == frames[Len(frames)]

-----------------------------------------------------------------------------
(* The stream.                                                             *)

(* The buffers that a read of n bytes may leave: what the stream still has *)
(* and, past its end, whatever the uninitialised buffer held.              *)
Read(n) ==
  {[i \in 1..n |-> IF i <= Len(stream) THEN stream[i] ELSE junk[i]] :
     junk \in [Len(stream) + 1 .. n -> Junk]}

(* The check every read makes first.                                       *)
FitsBarely(n) == (bytes_so_far + n) % SizeMod <= MaxObjectSize + 1
Fits(n) == (bytes_so_far + n) % SizeMod <= MaxObjectSize

Delivered(n) == IF n <= Len(stream) THEN n ELSE Len(stream)

(* A read counts the bytes it asked for; what it got is not looked at.     *)
Consume(n) ==
  /\ stream' = SubSeq(stream, Delivered(n) + 1, Len(stream))
  /\ taken' = taken \o SubSeq(stream, 1, Delivered(n))
  /\ missing' = missing + (n - Delivered(n))
  /\ bytes_so_far' = bytes_so_far + n

ReadBuffer(n) ==
  /\ Consume(n)
  /\ peeked_byte' = IF is_istream \/ n > 0
                    THEN [peeked_byte EXCEPT !.second = FALSE]
                    ELSE peeked_byte

(* istream::peek leaves the byte where it is and yields 0xFF at the end.   *)
(* Any other stream is read: the byte is kept in peeked_byte, which only   *)
(* another peek looks at.                                                  *)
Peek ==
  \/ /\ is_istream
     /\ peeked_byte' = [first  |-> IF stream = <<>> THEN 255 ELSE stream[1],
                        second |-> FALSE]
     /\ UNCHANGED <<stream, bytes_so_far, taken, missing>>
  \/ /\ ~is_istream /\ peeked_byte.second
     /\ UNCHANGED streamVars
  \/ /\ ~is_istream /\ ~peeked_byte.second
     /\ Consume(1)
     /\ peeked_byte' = [first  |-> IF stream = <<>> THEN peeked_byte.first
                                   ELSE stream[1],
                        second |-> TRUE]

(* The bytes the next statement asks for; none means it does not read.     *)
TypedElement ==
  /\ frames # <<>>
  /\ Top.is_valid
  /\ Top.marker # Marker.Invalid

Demand ==
  CASE pc = "marker"  -> IF TypedElement THEN 0 ELSE 1
    [] pc \in {"payload", "digits"} ->
                         Width(IF pc = "payload" THEN marker ELSE b)
    [] pc = "bytes"   -> num
    [] pc = "loop"    -> IF Top.is_valid THEN 0 ELSE 1
    [] pc \in {"integer", "container", "header", "count", "type", "peel"} -> 1
    [] OTHER          -> 0

-----------------------------------------------------------------------------
(* How a call ends.                                                        *)

(* Mutant: the Value of the outermost container is a local one too.        *)
UnwindAll ==
  /\ pc' = "idle"
  /\ frames' = <<>>
  /\ vals' = <<given>>
  /\ UNCHANGED <<callVars, localVars>>

(* Unwinding destroys the local Values; the caller keeps its own.  Members *)
(* of the reader keep what they hold.                                      *)
Unwind ==
  /\ pc' = "idle"
  /\ frames' = <<>>
  /\ vals' = <<vals[1]>>
  /\ UNCHANGED <<callVars, localVars>>

(* Caught at the innermost container instead, which goes on.               *)
ThrowInContainer(error) ==
  /\ pc' = IF frames = <<>> THEN "idle" ELSE "loop"
  /\ vals' = SubSeq(vals, 1, IF frames = <<>> THEN 1 ELSE Len(frames))
  /\ result' = IF frames = <<>> THEN "false" ELSE result
  /\ last_error' = error
  /\ UNCHANGED <<callVars, localVars, frames>>

(* A parsing_exception is caught in getNextValue.                          *)
Throw(error) ==
  /\ Unwind
  /\ result' = "false"
  /\ last_error' = error

(* Any other exception leaves getNextValue.                                *)
Escape(exception) ==
  /\ Unwind
  /\ result' = exception
  /\ UNCHANGED <<streamVars, recursive_depth, last_error>>

PolicyViolation ==
  /\ pc \in Running
  /\ pc = "bytes" => num <= MaxAlloc
  /\ Demand > 0 /\ ~Fits(Demand)
  /\ Throw("policy")
  /\ UNCHANGED <<streamVars, recursive_depth>>

BadAlloc ==
  /\ pc = "bytes" /\ num > MaxAlloc
  /\ Escape("bad_alloc")

DepthExceeded ==
  /\ pc = "enter"
  /\ recursive_depth + 1 > MaxDepth
  /\ recursive_depth' = recursive_depth + 1
  /\ Throw("depth")
  /\ UNCHANGED streamVars

Return ==
  /\ pc = "store" /\ frames = <<>>
  /\ pc' = "idle"
  /\ result' = "true"
  /\ UNCHANGED <<streamVars, callVars, localVars, recursive_depth,
                 last_error, frames, vals>>

-----------------------------------------------------------------------------
(* The budget is that of one call.                                         *)
NewBudget == bytes_so_far' = 0

(* getNextValue: the caller passes a fresh Value, or the one that the last *)
(* call left behind.                                                       *)
GetNextValue(v) ==
  /\ pc = "idle" /\ calls < MaxCalls
  /\ calls' = calls + 1
  /\ given' = v
  /\ vals' = <<v>>
  /\ NewBudget
  /\ recursive_depth' = 0
  /\ peeked_byte' = [peeked_byte EXCEPT !.second = FALSE]
  /\ taken' = <<>>
  /\ missing' = 0
  /\ result' = "none"
  /\ pc' = "marker"
  /\ UNCHANGED <<is_istream, stream, localVars, last_error, frames>>

(* The statements of a call leave these alone.                             *)
Calm == UNCHANGED <<callVars, last_error, result>>

(* The Values under construction, with v as the n-th and last.             *)
LastValue(n, v) == [i \in 1..n |-> IF i = n THEN v ELSE vals[i]]

Container == vals[Len(frames)]
Element == vals[Len(frames) + 1]

SetValue(v) == vals' = LastValue(Len(frames) + 1, v)

-----------------------------------------------------------------------------
(* extract_singleValueTo and extract_containerValueTo.                     *)

(* What each marker asks for.  A marker nobody handles, No_Op and          *)
(* HighPrecision among them, leaves the Value as it is.                    *)
Dispatch(m) ==
  \/ /\ isFixedSize(m)
     /\ pc' = "payload"
     /\ UNCHANGED <<vals, use>>
  \/ /\ m \in {Marker.String, Marker.Binary}
     /\ pc' = "integer"
     /\ use' = IF m = Marker.String THEN "string" ELSE "binary"
     /\ UNCHANGED vals
  \/ /\ isContainerStart(m)
     /\ pc' = "container"
     /\ UNCHANGED <<vals, use>>
  \/ /\ m \in {Marker.Null, Marker.True, Marker.False}
     /\ SetValue(IF m = Marker.Null THEN NullValue
                                    ELSE BoolValue(m = Marker.True))
     /\ pc' = "store"
     /\ UNCHANGED use
  \/ /\ ~isFixedSize(m) /\ ~isContainerStart(m)
     /\ m \notin {Marker.String, Marker.Binary,
                  Marker.Null, Marker.True, Marker.False}
     /\ pc' = "store"
     /\ UNCHANGED <<vals, use>>

(* In a typed container the marker would be km.marker, which nothing ever  *)
(* assigned.                                                               *)
ReadMarker ==
  /\ pc = "marker"
  /\ IF TypedElement
     THEN marker' \in Junk /\ UNCHANGED streamVars
     ELSE /\ Fits(1)
          /\ marker' \in {buf[1] : buf \in Read(1)}
          /\ ReadBuffer(1)
  /\ Dispatch(marker')
  /\ UNCHANGED <<b, num, header, recursive_depth, frames>>
  /\ Calm

(* A fixed-size payload as the Value it becomes; a double is one code.     *)
Decode(m, buf) ==
  CASE m = Marker.Char  -> CharValue(buf[1])
    [] m = Marker.Uint8 -> UnsignedValue(buf[1])
    [] isInteger(m)     -> SignedValue(Signed(buf))
    [] OTHER            -> FloatValue(<<m, buf>>)

ReadPayload ==
  /\ pc = "payload" /\ Fits(Width(marker))
  /\ \E buf \in Read(Width(marker)) : SetValue(Decode(marker, buf))
  /\ ReadBuffer(Width(marker))
  /\ pc' = "store"
  /\ UNCHANGED <<localVars, recursive_depth, frames>>
  /\ Calm

-----------------------------------------------------------------------------
(* extract_Integer(false) and its callers extract_String, extract_Binary   *)
(* and extract_optimized_container_headers.                                *)

SetKey(s) == frames' = [frames EXCEPT ![Len(frames)].key = s]

(* What the bytes read for a string are used for.                          *)
Deliver(s) ==
  \/ /\ use = "key"
     /\ SetKey(s)
     /\ pc' = "marker"
     /\ UNCHANGED vals
  \/ /\ use \in {"string", "binary"}
     /\ SetValue(IF use = "string" THEN StringValue(s) ELSE BinaryValue(s))
     /\ pc' = "store"
     /\ UNCHANGED frames

ReadInteger ==
  /\ pc = "integer" /\ Fits(1)
  /\ b' \in {buf[1] : buf \in Read(1)}
  /\ isInteger(b')
  /\ ReadBuffer(1)
  /\ pc' = "digits"
  /\ UNCHANGED <<marker, use, num, header, recursive_depth, frames, vals>>
  /\ Calm

(* The byte is no integer marker: the string is empty, the header invalid. *)
ReadNoInteger ==
  /\ pc = "integer" /\ use # "binary" /\ Fits(1)
  /\ b' \in {buf[1] : buf \in Read(1)}
  /\ ~isInteger(b')
  /\ ReadBuffer(1)
  /\ \/ /\ use # "count"
        /\ Deliver(<<>>)
        /\ UNCHANGED header
     \/ /\ use = "count"
        /\ header' = [header EXCEPT !.item_count = 0, !.is_valid = FALSE]
        /\ pc' = "enter"
        /\ UNCHANGED <<frames, vals>>
  /\ UNCHANGED <<marker, use, num, recursive_depth>>
  /\ Calm

(* Only extract_Binary throws on it.                                       *)
InvalidCount ==
  /\ pc = "integer" /\ use = "binary" /\ Fits(1)
  /\ \E buf \in Read(1) : ~isInteger(buf[1])
  /\ ReadBuffer(1)
  /\ Throw("count")
  /\ UNCHANGED recursive_depth

(* A negative count becomes a huge size_t.                                 *)
ReadDigits ==
  /\ pc = "digits" /\ Fits(Width(b))
  /\ \E buf \in Read(Width(b)) :
       LET n == Signed(buf) % SizeMod
       IN  \/ /\ use = "count"
              /\ header' = [header EXCEPT !.item_count = n, !.is_valid = TRUE]
              /\ pc' = "enter"
              /\ UNCHANGED num
           \/ /\ use # "count"
              /\ num' = n
              /\ pc' = "bytes"
              /\ UNCHANGED header
  /\ ReadBuffer(Width(b))
  /\ UNCHANGED <<marker, b, use, recursive_depth, frames, vals>>
  /\ Calm

ReadBytes ==
  /\ pc = "bytes" /\ num <= MaxAlloc /\ Fits(num)
  /\ \E buf \in Read(num) : Deliver(buf)
  /\ ReadBuffer(num)
  /\ UNCHANGED <<localVars, recursive_depth>>
  /\ Calm

-----------------------------------------------------------------------------
(* extract_Object, extract_Array and the headers of optimized containers.  *)

PeekContainer ==
  /\ pc = "container" /\ Fits(1)
  /\ Peek
  /\ pc' = IF isOptimizedMarker(peeked_byte'.first) THEN "header" ELSE "enter"
  /\ header' = NoHeader
  /\ UNCHANGED <<marker, b, use, num, recursive_depth, frames, vals>>
  /\ Calm

(* b is '#', '$', or anything else if the peek consumed the marker.        *)
ReadHeader ==
  /\ pc = "header" /\ Fits(1)
  /\ b' \in {buf[1] : buf \in Read(1)}
  /\ ReadBuffer(1)
  /\ pc' = CASE b' = Marker.Optimized_Count -> "count"
             [] b' = Marker.Optimized_Type  -> "type"
             [] OTHER                       -> "enter"
  /\ UNCHANGED <<marker, use, num, header, recursive_depth, frames, vals>>
  /\ Calm

(* After '#': the count, or, as b is overwritten by the peek, a type.      *)
PeekCount ==
  /\ pc = "count" /\ Fits(1)
  /\ Peek
  /\ b' = peeked_byte'.first
  /\ \/ /\ isSignedNumber(b')
        /\ use' = "count"
        /\ pc' = "integer"
     \/ /\ ~isSignedNumber(b')
        /\ pc' = IF b' = Marker.Optimized_Type THEN "type" ELSE "enter"
        /\ UNCHANGED use
  /\ UNCHANGED <<marker, num, header, recursive_depth, frames, vals>>
  /\ Calm

(* b stays '$', so the second get_optimized_count does nothing: a count    *)
(* that follows the type is left on the stream.                            *)
AfterTypeCount == "count"
AfterType == "enter"

ReadType ==
  /\ pc = "type" /\ Fits(1)
  /\ \E buf \in Read(1) : header' = [header EXCEPT !.marker = buf[1]]
  /\ ReadBuffer(1)
  /\ pc' = AfterType
  /\ UNCHANGED <<marker, b, use, num, recursive_depth, frames, vals>>
  /\ Calm

-----------------------------------------------------------------------------
(* extract_nextValue.                                                      *)

Enter ==
  /\ pc = "enter"
  /\ recursive_depth + 1 <= MaxDepth
  /\ recursive_depth' = recursive_depth + 1
  /\ frames' = Append(frames,
       [type       |-> IF marker = Marker.Object_Start THEN "Object" ELSE "Array",
        is_valid   |-> header.is_valid,
        item_count |-> header.item_count,
        marker     |-> header.marker,
        key        |-> <<>>])
  /\ pc' = "loop"
  /\ UNCHANGED <<streamVars, localVars, vals>>
  /\ Calm

(* An element starts with a local Value and, in an object, with its key.   *)
StartElement ==
  /\ SetValue(NullValue)
  /\ \/ /\ Top.type = "Object"
        /\ use' = "key"
        /\ pc' = "integer"
     \/ /\ Top.type = "Array"
        /\ pc' = "marker"
        /\ UNCHANGED use

NextCounted ==
  /\ pc = "loop" /\ Top.is_valid /\ Top.item_count > 0
  /\ StartElement
  /\ UNCHANGED <<streamVars, marker, b, num, header, recursive_depth, frames>>
  /\ Calm

is_container_end(type, byte) ==
  \/ type = "Object" /\ byte = Marker.Object_End
  \/ type = "Array"  /\ byte = Marker.Array_End

PeekEnd ==
  /\ pc = "loop" /\ ~Top.is_valid /\ Fits(1)
  /\ Peek
  /\ \/ /\ is_container_end(Top.type, peeked_byte'.first)
        /\ pc' = "peel"
        /\ UNCHANGED <<vals, use>>
     \/ /\ ~is_container_end(Top.type, peeked_byte'.first)
        /\ StartElement
  /\ UNCHANGED <<marker, b, num, header, recursive_depth, frames>>
  /\ Calm

AscendForgotten == UNCHANGED recursive_depth
Ascend == recursive_depth' = recursive_depth - 1

Leave ==
  /\ frames' = SubSeq(frames, 1, Len(frames) - 1)
  /\ Ascend
  /\ pc' = "store"
  /\ UNCHANGED <<localVars, vals>>
  /\ Calm

PeelNothing == UNCHANGED streamVars
PeelEnd == ReadBuffer(1)

Peel ==
  /\ pc = "peel" /\ Fits(1)
  /\ PeelEnd
  /\ Leave

LeaveCounted ==
  /\ pc = "loop" /\ Top.is_valid /\ Top.item_count = 0
  /\ Leave
  /\ UNCHANGED streamVars

(* The element moves into the Value that holds it; the count goes down,    *)
(* below zero too when the header gave none.                               *)
SignedDecrement(n) == n - 1
Decrement(n) == (n - 1) % SizeMod

StoreInto(v) ==
  /\ vals' = LastValue(Len(frames), v)
  /\ frames' = [frames EXCEPT ![Len(frames)].item_count = Decrement(@)]
  /\ pc' = "loop"
  /\ UNCHANGED <<streamVars, localVars, recursive_depth>>
  /\ Calm

StoreKey ==
  /\ pc = "store" /\ frames # <<>> /\ Top.type = "Object"
  /\ Indexable(Container)
  /\ StoreInto(AssignKey(Container, Top.key, Element))

StoreElement ==
  /\ pc = "store" /\ frames # <<>> /\ Top.type = "Array"
  /\ StoreInto(PushBack(Container, Element))

(* operator[] refuses a Value that is neither Null nor a Map.              *)
IndexError ==
  /\ pc = "store" /\ frames # <<>> /\ Top.type = "Object"
  /\ ~Indexable(Container)
  /\ Escape("value_exception")

-----------------------------------------------------------------------------
Init ==
  /\ is_istream \in StreamTypes
  /\ stream \in Inputs
  /\ peeked_byte = [first |-> 0, second |-> FALSE]
  /\ bytes_so_far = 0
  /\ recursive_depth = 0
  /\ last_error = ""
  /\ frames = <<>>
  /\ vals = <<NullValue>>
  /\ pc = "idle"
  /\ marker = 0
  /\ b = 0
  /\ use = "key"
  /\ num = 0
  /\ header = NoHeader
  /\ result = "none"
  /\ given = NullValue
  /\ taken = <<>>
  /\ missing = 0
  /\ calls = 0

Call == \E v \in {NullValue, vals[1]} : GetNextValue(v)

(* What a call does until it ends.                                         *)
Step ==
  \/ ReadMarker \/ ReadPayload
  \/ ReadInteger \/ ReadNoInteger \/ InvalidCount \/ ReadDigits \/ ReadBytes
  \/ PeekContainer \/ ReadHeader \/ PeekCount \/ ReadType
  \/ Enter \/ NextCounted \/ PeekEnd \/ Peel \/ LeaveCounted
  \/ StoreKey \/ StoreElement
  \/ Return \/ PolicyViolation \/ BadAlloc \/ DepthExceeded \/ IndexError

Next == Call \/ Step

Spec == Init /\ [][Next]_vars

(* A thread that is inside getNextValue runs on.                           *)
FairSpec == Spec /\ WF_vars(Step)

-----------------------------------------------------------------------------
(* Properties.                                                             *)

(* Types of the variables.                                                 *)
STCHeader == [is_valid : BOOLEAN, item_count : 0 .. SizeMod - 1, marker : Byte]

Frame == [type : {"Object", "Array"}, is_valid : BOOLEAN,
          item_count : 0 .. SizeMod - 1, marker : Byte, key : Seq(Byte)]

TypeOK ==
  /\ is_istream \in StreamTypes
  /\ stream \in Seq(Byte)
  /\ peeked_byte \in [first : Byte, second : BOOLEAN]
  /\ bytes_so_far \in Nat /\ taken \in Seq(Byte) /\ missing \in Nat
  /\ recursive_depth \in Nat
  /\ last_error \in Errors
  /\ frames \in Seq(Frame)
  /\ pc \in Running \cup {"idle"}
  /\ marker \in Byte /\ b \in Byte
  /\ use \in Uses
  /\ num \in 0 .. SizeMod - 1
  /\ header \in STCHeader
  /\ result \in Outcomes
  /\ calls \in 0 .. MaxCalls

(* The counter that guards the stack against deep input is the number of   *)
(* open containers, on every path in and out of them, so it never lets     *)
(* more than max_value_depth calls of extract_nextValue nest.              *)
DepthGuard ==
  /\ pc # "idle" => recursive_depth = Len(frames)
  /\ Len(frames) <= MaxDepth

(* bytes_so_far counts every byte asked of the stream, delivered or not,   *)
(* and never passes max_object_size, whatever a count on the wire says.    *)
Budget ==
  /\ bytes_so_far = Len(taken) + missing
  /\ bytes_so_far <= MaxObjectSize

(* The branch of extract_nextValue that would use the uninitialised        *)
(* km.marker is dead: no header ever has both a type and a valid count.    *)
TypedHeaderDead ==
  \A i \in 1..Len(frames) :
    frames[i].is_valid => frames[i].marker = Marker.Invalid

(* getNextValue lets a value_exception out only to a caller that passed in *)
(* a Value which was neither Null nor a Map.                               *)
EscapeOnlyOnReuse ==
  result = "value_exception" => given.type \notin {"Null", "Map"}

(* A container read into a used Value is added to what is there: to the    *)
(* elements of an array, to any other Value as the first element of one,   *)
(* to the keys of a map.  A call that fails has not taken anything away.   *)
ReuseOnlyAdds ==
  (frames # <<>> \/ result \notin {"none", "true"}) =>
    LET held == CASE given.type = "Null"  -> <<>>
                  [] given.type = "Array" -> given.Array
                  [] OTHER                -> <<given>>
    IN  \/ vals[1] = given
        \/ /\ vals[1].type = "Array" /\ Len(held) <= Len(vals[1].Array)
           /\ SubSeq(vals[1].Array, 1, Len(held)) = held
        \/ /\ vals[1].type = "Map"
           /\ given.type = "Map" => DOMAIN given.Map \subseteq DOMAIN vals[1].Map
           /\ given.type \in {"Null", "Map"}

(* The inductive invariant behind these.                                   *)

(* The statements that run inside a container, and outside of every call.  *)
InContainer ==
  /\ (pc \in {"loop", "peel"}
        \/ (pc \in {"integer", "digits", "bytes"} /\ use = "key"))
       => frames # <<>>
  /\ pc = "idle" => frames = <<>>

(* No header has both a type and a valid count, from its first byte on.    *)
HeaderSound ==
  /\ (pc \in {"header", "count", "type"}
        \/ (pc \in {"integer", "digits"} /\ use = "count"))
       => ~header.is_valid /\ header.marker = Marker.Invalid
  /\ pc = "enter" => (header.is_valid => header.marker = Marker.Invalid)

(* Until its own bytes are decoded, the element being read is the fresh    *)
(* local Value, or the one the caller passed in.                           *)
ElementFresh ==
  pc \in Running \ {"loop", "peel", "store"} =>
    Element = IF frames = <<>> THEN given ELSE NullValue

(* An object fills a Null or a Map, unless the caller passed in another.   *)
ObjectsIndexable ==
  \A i \in 1..Len(frames) :
    frames[i].type = "Object" /\ (i = 1 => Indexable(given)) => Indexable(vals[i])

IndInv ==
  /\ TypeOK /\ DepthGuard /\ Budget /\ TypedHeaderDead /\ EscapeOnlyOnReuse
  /\ InContainer /\ HeaderSound /\ ElementFresh /\ ObjectsIndexable

(* Every call ends, on any stream: each turn of the loop spends at least   *)
(* one byte of the budget, even when the stream has nothing left.          *)
Termination == []<>(pc = "idle")
=============================================================================
