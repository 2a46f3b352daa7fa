----------------------------- MODULE RoundTrip -----------------------------
(***************************************************************************)
(* A StreamWriter and a StreamReader on the two ends of one stream, as     *)
(* main.cpp uses them.  One thread calls both: it writes Values, one after *)
(* the other, and reads them back into fresh Values when some are there.   *)
(***************************************************************************)
EXTENDS StreamReader, StreamWriter

VARIABLES
  sent,              (* history: Values written and not yet read, with the *)
                     (* number of bytes writeValue reported                *)
  received           (* history: the last Value read and its bytes         *)

readerVars == vars
rtvars == <<readerVars, wvars, sent, received>>

RTInit ==
  /\ Init
  /\ WInit
  /\ sent = <<>>
  /\ received = <<>>

(* What the writer's stream takes is what the reader's will deliver.       *)
Transfer == stream' = stream \o SubSeq(out', Len(out) + 1, Len(out'))

OtherReaderVars ==
  <<peeked_byte, bytes_so_far, taken, missing, callVars, localVars,
    recursive_depth, last_error, frames, vals, pc, result>>

StartWrite == pc = "idle" /\ WCall /\ UNCHANGED <<readerVars, sent, received>>

RunWriter ==
  /\ WStep
  /\ Transfer
  /\ sent' = IF wpc' = "idle"
             THEN Append(sent, [value |-> written, size |-> rtn.first])
             ELSE sent
  /\ UNCHANGED <<OtherReaderVars, received>>

StartRead ==
  /\ wpc = "idle" /\ sent # <<>>
  /\ GetNextValue(NullValue)
  /\ UNCHANGED <<wvars, sent, received>>

(* A call that has read its Value and returned true hands it over.         *)
RunReader ==
  /\ Step
  /\ \/ /\ result' = "true"
        /\ received' = <<[value |-> vals'[1], size |-> bytes_so_far]>>
        /\ sent' = Tail(sent)
     \/ /\ result' # "true"
        /\ UNCHANGED <<sent, received>>
  /\ UNCHANGED wvars

RTNext == StartWrite \/ RunWriter \/ StartRead \/ RunReader

RTSpec == RTInit /\ [][RTNext]_rtvars

-----------------------------------------------------------------------------
Messages == [value : Values, size : 0 .. MaxObjectSize]

Channel == INSTANCE ValueChannel
             WITH Messages <- Messages, sent <- sent, received <- received

(* The pair is a channel of Values: what a call of getNextValue returns is *)
(* the oldest Value that is still on the stream, read in as many bytes as  *)
(* writeValue said it had written.                                         *)
DeliversInOrder == Channel!Spec

(* No read fails: what the writer wrote, the reader can read.              *)
NeverRefused == result \in {"none", "true"}

(* When every Value has been read, so has every byte.                      *)
NothingLeft == (pc = "idle" /\ wpc = "idle" /\ sent = <<>>) => stream = <<>>

-----------------------------------------------------------------------------
(* What this takes.                                                        *)

(* A Value that the bytes it is written as stand for: it has no part that  *)
(* the writer leaves out or rounds, its integers and lengths are those of  *)
(* an int64_t, and it is no empty container, which is read as a Null.      *)
GivenBack(v) ==
  /\ v.type # "Binary"
  /\ v.type = "Null" => v = NullValue
  /\ v.type = "Bool" => v = BoolValue(v.Bool) /\ v.Bool \in BOOLEAN
  /\ v.type = "Char" => v = CharValue(v.Char)
  /\ v.type = "SignedInt" => v = SignedValue(v.SignedInt) /\ InRange(v.SignedInt, Width64)
  /\ v.type = "UnsignedInt" => v = UnsignedValue(v.UnsignedInt) /\ v.UnsignedInt <= 255
  /\ v.type = "Float" =>
       /\ v = FloatValue(<<v.Float[1], v.Float[2]>>)
       /\ v.Float \notin NotFinite /\ v.Float \notin DOMAIN Rounded
  /\ v.type = "String" => v = StringValue(v.String) /\ InRange(Len(v.String), Width64)
  /\ v.type = "Array" => v = ArrayValue(v.Array) /\ v.Array # <<>>
  /\ v.type = "Map" => /\ v = MapValue(v.Map) /\ DOMAIN v.Map # {}
                       /\ \A k \in DOMAIN v.Map : InRange(Len(k), Width64)

(* The stream is a std::istream that starts empty, and all the Values are  *)
(* given back.                                                             *)
Exchangeable ==
  /\ StreamTypes = {TRUE}
  /\ Inputs = {<<>>}
  /\ MaxObjectSize <= MaxAlloc
  /\ \A v \in Nodes : GivenBack(v)

(* The stream takes every byte, and the writer makes of no Value more      *)
(* bytes, or more levels, than the reader's policy allows.                 *)
WithinPolicy ==
  /\ offered <= Capacity
  /\ offered - start <= MaxObjectSize
  /\ Len(wframes) <= MaxDepth
=============================================================================
