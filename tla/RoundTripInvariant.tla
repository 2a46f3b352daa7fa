------------------------- MODULE RoundTripInvariant -------------------------
(***************************************************************************)
(* Why a reader gets back what a writer wrote: both walk through the Value *)
(* in the same way.  The writer's way is a sequence of places, each with   *)
(* the bytes that lead to the next one.  The writer is always at one of    *)
(* them, and so is the reader, some of whose bytes may have been read      *)
(* already; what is on the stream leads from the reader's place to the end *)
(* of the Value.                                                           *)
(***************************************************************************)
EXTENDS RoundTrip

-----------------------------------------------------------------------------
(* Places in a Value.                                                      *)

(* A container that has been entered: the number of items begun if it is   *)
(* an array, the keys not yet begun and the last one begun if it is a map. *)
Level == [of : Nodes, i : Nat, keys : SUBSET Seq(Byte), key : Seq(Byte)]

Opened(v) == [of   |-> v,
              i    |-> 0,
              keys |-> IF v.type = "Map" THEN DOMAIN v.Map ELSE {},
              key  |-> <<>>]

Item(l) == IF l.of.type = "Array" THEN l.of.Array[l.i] ELSE l.of.Map[l.key]

Begun(l) ==
  /\ l.of.type = "Array" => l.i >= 1
  /\ l.of.type = "Map" => l.key \in DOMAIN l.of.Map \ l.keys

AllBegun(l) ==
  /\ l.of.type = "Array" => l.i = Len(l.of.Array)
  /\ l.of.type = "Map" => l.keys = {}

LevelOK(l) ==
  /\ l \in Level
  /\ l.of.type \in {"Array", "Map"}
  /\ l.of.type = "Array" => l.i <= Len(l.of.Array)
  /\ l.of.type = "Map" => l.keys \subseteq DOMAIN l.of.Map

(* The containers entered, the outermost first, and what comes next: the   *)
(* item begun last (or the root) is still to be written, or it has been    *)
(* written, or the innermost container knows that it has been.             *)
Modes == {"append", "return", "next"}

At(root, path, mode) == [root |-> root, path |-> path, mode |-> mode]

Innermost(p) == p.path[Len(p.path)]

Current(p) == IF p.path = <<>> THEN p.root ELSE Item(Innermost(p))

(* A container whose last item is still under way.                         *)
Busy(p, n) == n < Len(p.path) \/ p.mode # "next"

Linked(p, n) ==
  /\ LevelOK(p.path[n])
  /\ p.path[n].of = IF n = 1 THEN p.root ELSE Item(p.path[n - 1])
  /\ Busy(p, n) => Begun(p.path[n])

Placed(p) ==
  /\ p = At(p.root, p.path, p.mode)
  /\ p.root \in Nodes /\ p.path \in Seq(Level) /\ p.mode \in Modes
  /\ p.mode = "next" => p.path # <<>>
  /\ Len(p.path) <= MaxDepth
  /\ \A n \in 1 .. Len(p.path) : Linked(p, n)

-----------------------------------------------------------------------------
(* From a place to the next.                                               *)

StartMarker(v) ==
  IF v.type = "Array" THEN Marker.Array_Start ELSE Marker.Object_Start
EndMarker(v) ==
  IF v.type = "Array" THEN Marker.Array_End ELSE Marker.Object_End

Replace(path, l) == [path EXCEPT ![Len(path)] = l]
Outer(path) == SubSeq(path, 1, Len(path) - 1)

NextIndex(l) == [l EXCEPT !.i = l.i + 1]
TakeKey(l, k) == [l EXCEPT !.keys = l.keys \ {k}, !.key = k]

EmitsScalar(p, bs, q) ==
  /\ p.mode = "append" /\ Current(p).type \notin {"Array", "Map"}
  /\ bs = ScalarBytes(Current(p))
  /\ q = At(p.root, p.path, "return")

EmitsStart(p, bs, q) ==
  /\ p.mode = "append" /\ Current(p).type \in {"Array", "Map"}
  /\ bs = <<StartMarker(Current(p))>>
  /\ q = At(p.root, Append(p.path, Opened(Current(p))), "next")

EmitsNextItem(p, bs, q) ==
  /\ p.mode = "next" /\ Innermost(p).of.type = "Array" /\ ~AllBegun(Innermost(p))
  /\ bs = <<>>
  /\ q = At(p.root, Replace(p.path, NextIndex(Innermost(p))), "append")

EmitsKey(p, bs, q) ==
  /\ p.mode = "next" /\ Innermost(p).of.type = "Map"
  /\ \E k \in Innermost(p).keys :
       /\ bs = IntBytes(Len(k)) \o k
       /\ q = At(p.root, Replace(p.path, TakeKey(Innermost(p), k)), "append")

EmitsEnd(p, bs, q) ==
  /\ p.mode = "next" /\ AllBegun(Innermost(p))
  /\ bs = <<EndMarker(Innermost(p).of)>>
  /\ q = At(p.root, Outer(p.path), "return")

Collects(p, bs, q) ==
  /\ p.mode = "return" /\ p.path # <<>>
  /\ bs = <<>>
  /\ q = At(p.root, p.path, "next")

Emits(p, bs, q) ==
  \/ EmitsScalar(p, bs, q) \/ EmitsStart(p, bs, q) \/ EmitsNextItem(p, bs, q)
  \/ EmitsKey(p, bs, q) \/ EmitsEnd(p, bs, q) \/ Collects(p, bs, q)

AtEnd(p) == p.mode = "return" /\ p.path = <<>>

(* Ways to the end of the Value: places, each with the bytes that are left *)
(* to write from there.                                                    *)
Ways(W) ==
  \A p, bs : <<p, bs>> \in W =>
    /\ Placed(p) /\ bs \in Seq(Byte)
    /\ \/ AtEnd(p) /\ bs = <<>>
       \/ \E e, q, rest : /\ Emits(p, e, q) /\ e \in Seq(Byte)
                          /\ bs = e \o rest /\ <<q, rest>> \in W

Continues(p, bs) == \E W : Ways(W) /\ <<p, bs>> \in W

Encodes(v, bs) == Continues(At(v, <<>>, "append"), bs)

IsSentAs(m, bs) == Encodes(m.value, bs) /\ Len(bs) = m.size

(* The bytes of one message after the other.                               *)
Chains(C) ==
  \A ms, bs : <<ms, bs>> \in C =>
    \/ ms = <<>> /\ bs = <<>>
    \/ /\ ms # <<>>
       /\ \E first, others :
            /\ IsSentAs(Head(ms), first) /\ others \in Seq(Byte)
            /\ bs = first \o others /\ <<Tail(ms), others>> \in C

Carries(ms, bs) == \E C : Chains(C) /\ <<ms, bs>> \in C

-----------------------------------------------------------------------------
(* Where the writer is.                                                    *)

Mirrors(p) ==
  /\ wpc = p.mode
  /\ Len(wframes) = Len(p.path)
  /\ \A n \in 1 .. Len(p.path) :
       /\ wframes[n].of = p.path[n].of
       /\ p.path[n].of.type = "Array" => wframes[n].i = p.path[n].i + 1
       /\ p.path[n].of.type = "Map" => wframes[n].keys = p.path[n].keys
  /\ wpc = "append" => value = Current(p)

(* What has been written of v leads to p.                                  *)
LeadsTo(v, part, p) ==
  \A rest \in Seq(Byte) : Continues(p, rest) => Encodes(v, part \o rest)

WriterAt(p, done, part) ==
  /\ Placed(p) /\ Mirrors(p)
  /\ done \in Seq(Byte) /\ part \in Seq(Byte)
  /\ stream = done \o part
  /\ Carries(sent, done)
  /\ LeadsTo(written, part, p)
  /\ Len(part) = offered - start

-----------------------------------------------------------------------------
(* Where the reader is.                                                    *)

(* What a container under construction holds of the Value it will be.      *)
HeldItems(l, busy) == IF busy THEN l.i - 1 ELSE l.i

HeldKeys(l, busy) ==
  (DOMAIN l.of.Map \ l.keys) \ (IF busy THEN {l.key} ELSE {})

Held(l, busy) ==
  CASE l.of.type = "Array" /\ HeldItems(l, busy) > 0 ->
         ArrayValue([n \in 1 .. HeldItems(l, busy) |-> l.of.Array[n]])
    [] l.of.type = "Map" /\ HeldKeys(l, busy) # {} ->
         MapValue([k \in HeldKeys(l, busy) |-> l.of.Map[k]])
    [] OTHER -> NullValue

(* The key of the innermost object is being read.                          *)
ReadingKey == pc \in {"integer", "digits", "bytes"} /\ use = "key"

Follows(p, n) ==
  /\ frames[n].type = IF p.path[n].of.type = "Array" THEN "Array" ELSE "Object"
  /\ vals[n] = Held(p.path[n], Busy(p, n))
  /\ p.path[n].of.type = "Map" /\ Busy(p, n) /\ ~(ReadingKey /\ n = Len(frames))
       => frames[n].key = p.path[n].key

FramesFollow(p) ==
  /\ \A n \in 1 .. Len(frames) : ~frames[n].is_valid
  /\ \A n \in 1 .. Len(frames) : n <= Len(p.path) => Follows(p, n)

(* What a string that is being read is.                                    *)
IsRead(p, s) ==
  /\ Len(p.path) = Len(frames)
  /\ s \in Seq(Byte)
  /\ \/ /\ use = "key" /\ p.mode = "append"
        /\ frames # <<>> /\ Innermost(p).of.type = "Map" /\ Innermost(p).key = s
     \/ /\ use = "string" /\ p.mode = "return"
        /\ Current(p) = StringValue(s)

(* The rest of the last bytes read, which the next statements take.        *)
Midway(p, tok) ==
  \/ /\ pc = "marker" /\ p.mode = "append"
     /\ Len(p.path) = Len(frames)
     /\ tok = <<>>
  \/ /\ pc = "payload" /\ p.mode = "return"
     /\ Len(p.path) = Len(frames)
     /\ Len(tok) = Width(marker) /\ Decode(marker, tok) = Current(p)
  \/ /\ pc = "integer"
     /\ \E s : IsRead(p, s) /\ tok = IntBytes(Len(s)) \o s
  \/ /\ pc = "digits"
     /\ \E s : /\ IsRead(p, s) /\ b = IntMarker(Len(s))
               /\ tok = BigEndian(Len(s), Width(b)) \o s
  \/ /\ pc = "bytes" /\ IsRead(p, tok) /\ num = Len(tok)
  \/ /\ pc \in {"container", "enter"} /\ p.mode = "next"
     /\ Len(p.path) = Len(frames) + 1
     /\ Innermost(p) = Opened(Innermost(p).of)
     /\ marker = StartMarker(Innermost(p).of)
     /\ pc = "enter" => header = NoHeader
     /\ tok = <<>>
  \/ /\ pc = "loop" /\ p.mode = "next"
     /\ Len(p.path) = Len(frames)
     /\ tok = <<>>
  \/ /\ pc = "peel" /\ p.mode = "return"
     /\ Len(frames) = Len(p.path) + 1
     /\ tok = <<EndMarker(Current(p))>>
     /\ Container = Current(p)
  \/ /\ pc = "store" /\ p.mode = "return"
     /\ Len(p.path) = Len(frames)
     /\ tok = <<>>
     /\ Element = Current(p)

ReaderAt(p, tok, rest, later) ==
  /\ Placed(p) /\ FramesFollow(p) /\ Midway(p, tok)
  /\ p.root = Head(sent).value
  /\ tok \in Seq(Byte) /\ rest \in Seq(Byte) /\ later \in Seq(Byte)
  /\ stream = tok \o (rest \o later)
  /\ Continues(p, rest)
  /\ Carries(Tail(sent), later)
  /\ bytes_so_far + Len(tok) + Len(rest) = Head(sent).size

-----------------------------------------------------------------------------
(* The invariant.                                                          *)

WriterInPlace ==
  wpc # "idle" => /\ pc = "idle"
                  /\ written \in Values
                  /\ \E p, done, part : WriterAt(p, done, part)

ReaderInPlace ==
  pc # "idle" => /\ wpc = "idle"
                 /\ sent # <<>> /\ result = "none" /\ given = NullValue
                 /\ \E p, tok, rest, later : ReaderAt(p, tok, rest, later)

BothIdle == pc = "idle" /\ wpc = "idle" => Carries(sent, stream)

RTInv ==
  /\ Len(out) = offered
  /\ sent \in Seq(Messages)
  /\ WriterInPlace /\ ReaderInPlace /\ BothIdle
  /\ NeverRefused
=============================================================================
