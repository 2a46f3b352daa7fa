------------------------- MODULE ValueSearchProofs -------------------------
(***************************************************************************)
(* Proofs about ValueSearch, for every comparison operator== may make,     *)
(* every Value that is searched, and every loop over one; and about the    *)
(* conversions of numbers, for every width of the types.                   *)
(***************************************************************************)
EXTENDS ValueSearch, SequenceLemmas, FiniteSetTheorems

-----------------------------------------------------------------------------
(* The invariant.                                                          *)

Running == loop.stage \in {"test", "body", "next"}

(* The iterator points into the container v holds.                         *)
Good == v.type = loop.made /\ loop.valid

Spoiled == did \cap {"pushed", "removed", "replaced"} # {}

(* The elements the loop has passed or will pass, in this order.  In the   *)
(* body, and until the iterator advances, it is at the one seen last.      *)
Path == seen \o (IF loop.stage = "test" THEN loop.ahead ELSE Tail(loop.ahead))

(* A good iterator passes each element that v has once, and it is at one   *)
(* that v still has.                                                       *)
OnItsWay ==
  /\ loop.stage # "test" => loop.ahead # <<>>
  /\ IsInjective(Path)
  /\ v.type = "Array" => Path = [i \in DOMAIN v.Array |-> i]
  /\ v.type = "Map" =>
       DOMAIN v.Map \subseteq Range(Path) /\ Range(loop.ahead) \subseteq DOMAIN v.Map

LoopTypeOK ==
  /\ loop = [stage |-> loop.stage, made |-> loop.made,
             ahead |-> loop.ahead, valid |-> loop.valid]
  /\ loop.stage \in {"off", "test", "body", "next", "done", "undefined"}
  /\ loop.valid \in BOOLEAN
  /\ loop.ahead \in Seq(Range(loop.ahead)) /\ seen \in Seq(Range(seen))

SearchInv ==
  /\ Shaped(v)
  /\ LoopTypeOK
  /\ loop.stage = "body" => isContainer(v) /\ Good
  /\ Running /\ isContainer(v) => IF Good THEN OnItsWay ELSE Spoiled
  /\ Running /\ ~isContainer(v) => seen = <<>> \/ "cleared" \in did
  /\ LoopSeesAll
  /\ LoopDefined

-----------------------------------------------------------------------------
(* Values.                                                                 *)

(* remove leaves a Value of the same type, and all of it if nothing in it  *)
(* matches.                                                                *)
LEMMA RemovedShaped ==
  ASSUME NEW u, NEW y, Shaped(u)
  PROVE  /\ Shaped(Removed(u, y)) /\ Removed(u, y).type = u.type
         /\ Matches(u, y) = {} => Removed(u, y) = u
<1> DEFINE gone == Matches(u, y)
           kept == [k \in DOMAIN u.Map \ gone |-> u.Map[k]]
<1>1. CASE u.type = "Array" /\ gone # {}
  <2>1. u.Array \in Seq(Range(u.Array))
    BY <1>1 DEF Shaped
  <2>2. gone \subseteq 1 .. Len(u.Array)
    BY <1>1, <2>1, LenProperties DEF Matches
  <2>3. Min(gone) \in 1 .. Len(u.Array)
    <3>1. gone \subseteq Nat
      BY <2>1, <2>2
    <3>2. QED BY <1>1, <2>2, <3>1, MinFacts
  <2>4. RemoveAt(u.Array, Min(gone)) \in Seq(Range(u.Array))
    BY <2>1, <2>3, RemoveAtFacts
  <2>5. Removed(u, y) = ArrayValue(RemoveAt(u.Array, Min(gone)))
    BY <1>1 DEF Removed
  <2>6. QED BY <1>1, <2>4, <2>5, SeqOfRange DEF Shaped, ArrayValue
<1>2. CASE u.type = "Map"
  <2>1. Removed(u, y) = MapValue(kept)
    BY <1>2 DEF Removed
  <2>2. DOMAIN kept = DOMAIN u.Map \ gone /\ \A k \in DOMAIN kept : kept[k] = u.Map[k]
    OBVIOUS
  <2>3. IsFiniteSet(DOMAIN kept)
    BY <1>2, <2>2, FS_Subset DEF Shaped
  <2>4. kept = [k \in DOMAIN kept |-> kept[k]]
    OBVIOUS
  <2>5. u = MapValue([k \in DOMAIN u.Map |-> u.Map[k]])
    BY <1>2 DEF Shaped
  <2>6. gone = {} => MapValue(kept) = u
    BY <2>5
  <2> HIDE DEF kept
  <2>7. QED BY <1>2, <2>1, <2>3, <2>4, <2>6 DEF Shaped, MapValue
<1>3. CASE u.type # "Map" /\ ~(u.type = "Array" /\ gone # {})
  BY <1>3 DEF Removed
<1>4. QED BY <1>1, <1>2, <1>3

(* push_back leaves an Array, whatever it was called on.                   *)
LEMMA PushedShaped ==
  ASSUME NEW u, NEW y, Shaped(u)
  PROVE  Shaped(PushBack(u, y)) /\ PushBack(u, y).type = "Array"
<1>1. PICK s, S : s \in Seq(S) /\ PushBack(u, y) = ArrayValue(s)
  <2>1. CASE u.type = "Array"
    <3>1. u.Array \in Seq(Range(u.Array) \cup {y})
      BY <2>1, SeqMonotonic DEF Shaped
    <3>2. Append(u.Array, y) \in Seq(Range(u.Array) \cup {y})
      BY <3>1, AppendProperties
    <3>3. QED BY <2>1, <3>2 DEF PushBack
  <2>2. CASE u.type = "Null"
    <3>1. <<y>> \in Seq({y})
      OBVIOUS
    <3>2. QED BY <2>2, <3>1 DEF PushBack
  <2>3. CASE u.type \notin {"Array", "Null"}
    <3>1. <<u, y>> \in Seq({u, y})
      OBVIOUS
    <3>2. QED BY <2>3, <3>1 DEF PushBack
  <2>4. QED BY <2>1, <2>2, <2>3
<1>2. QED BY <1>1, SeqOfRange DEF Shaped, ArrayValue

(* Every order of the keys of a Map passes each of them once.              *)
LEMMA OrdersPassAll ==
  ASSUME NEW u, Shaped(u), NEW order \in Orders(u)
  PROVE  /\ order \in Seq(Range(order)) /\ IsInjective(order)
         /\ u.type = "Array" => order = [i \in DOMAIN u.Array |-> i]
         /\ u.type = "Map" => Range(order) = DOMAIN u.Map
         /\ ~isContainer(u) => order = <<>>
<1>1. CASE u.type = "Array"
  <2>1. DOMAIN u.Array = 1 .. Len(u.Array) /\ Len(u.Array) \in Nat
    BY <1>1, LenProperties DEF Shaped
  <2>2. order = [i \in 1 .. Len(u.Array) |-> i]
    BY <1>1, <2>1 DEF Orders
  <2>3. order \in Seq(1 .. Len(u.Array))
    BY <2>1, <2>2, TableIsSeq
  <2>4. IsInjective(order)
    BY <2>2 DEF IsInjective
  <2>5. QED BY <1>1, <2>1, <2>2, <2>3, <2>4, SeqOfRange DEF isContainer
<1>2. CASE u.type = "Map"
  <2> DEFINE keys == DOMAIN u.Map
             n == Cardinality(keys)
  <2>1. IsFiniteSet(keys) /\ n \in Nat
    BY <1>2, FS_CardinalityType DEF Shaped
  <2>2. order \in [1 .. n -> keys] /\ \A i, j \in 1 .. n : i # j => order[i] # order[j]
    BY <1>2 DEF Orders, SetToSeqs
  <2> HIDE DEF n, keys
  <2>3. order \in Injection(1 .. n, keys)
    BY <2>2 DEF Injection, IsInjective
  <2>4. Cardinality(1 .. n) = n
    BY <2>1, FS_Interval
  <2>5. order \in Surjection(1 .. n, keys)
    BY <2>1, <2>3, <2>4, FS_Injection DEF n
  <2>6. Range(order) = keys
    BY <2>2, <2>5 DEF Range, Surjection
  <2>7. order \in Seq(keys)
    BY <2>1, <2>2, TableIsSeq
  <2>8. QED BY <1>2, <2>3, <2>6, <2>7, SeqOfRange DEF Injection, isContainer, keys
<1>3. CASE ~isContainer(u)
  <2>1. order = <<>> /\ Range(order) = {}
    BY <1>3 DEF Orders, isContainer, Range
  <2>2. QED BY <1>3, <2>1 DEF isContainer, IsInjective
<1>4. QED BY <1>1, <1>2, <1>3 DEF isContainer

(* RemoveFirst takes away one element that equals e, if there is one.      *)
LEMMA RemoveFirstFacts ==
  ASSUME NEW S, NEW s \in Seq(S), NEW e
  PROVE  /\ e \notin Range(s) => RemoveFirst(s, e) = s
         /\ e \in Range(s) =>
              \E i \in 1 .. Len(s) : s[i] = e /\ RemoveFirst(s, e) = RemoveAt(s, i)
<1> DEFINE I == {i \in 1 .. Len(s) : s[i] = e}
<1>1. DOMAIN s = 1 .. Len(s) /\ Len(s) \in Nat
  BY LenProperties
<1>2. CASE I = {}
  BY <1>1, <1>2 DEF RemoveFirst, Range
<1>3. CASE I # {}
  <2>1. Min(I) \in I
    <3>1. I \subseteq Nat
      BY <1>1
    <3>2. QED BY <1>3, <3>1, MinFacts
  <2>2. RemoveFirst(s, e) = RemoveAt(s, Min(I))
    BY <1>3 DEF RemoveFirst, SelectInSeq
  <2>3. QED BY <1>1, <2>1, <2>2 DEF Range
<1>4. QED BY <1>2, <1>3

(* The parts of a sequence that is not empty.                              *)
LEMMA HeadTailFacts ==
  ASSUME NEW S, NEW s \in Seq(S), s # <<>>
  PROVE  /\ Tail(s) \in Seq(S) /\ Head(s) \in S /\ Head(s) \in Range(s)
         /\ s = <<Head(s)>> \o Tail(s)
         /\ Range(s) = {Head(s)} \cup Range(Tail(s))
<1>1. /\ Head(s) \in S /\ Tail(s) \in Seq(S) /\ Len(Tail(s)) = Len(s) - 1
      /\ \A i \in 1 .. Len(Tail(s)) : Tail(s)[i] = s[i + 1]
  BY HeadTailProperties
<1>2. Len(s) \in Nat /\ Len(s) > 0 /\ Head(s) = s[1]
  BY EmptySeq, LenProperties
<1>3. <<Head(s)>> \in Seq(S) /\ Len(<<Head(s)>>) = 1 /\ <<Head(s)>>[1] = Head(s)
  BY <1>1
<1>4. s = <<Head(s)>> \o Tail(s)
  <2> DEFINE t == <<Head(s)>> \o Tail(s)
  <2>1. /\ t \in Seq(S) /\ Len(t) = Len(s)
        /\ \A i \in 1 .. Len(s) :
             t[i] = IF i <= 1 THEN <<Head(s)>>[i] ELSE Tail(s)[i - 1]
    BY <1>1, <1>2, <1>3, ConcatProperties
  <2> HIDE DEF t
  <2>2. ASSUME NEW i \in 1 .. Len(s)
        PROVE  t[i] = s[i]
    <3>1. CASE i = 1
      BY <1>2, <1>3, <2>1, <3>1
    <3>2. CASE i # 1
      <4>1. i - 1 \in 1 .. Len(Tail(s)) /\ ~(i <= 1) /\ i - 1 + 1 = i
        BY <1>1, <1>2, <3>2
      <4>2. QED BY <1>1, <2>1, <4>1
    <3>3. QED BY <3>1, <3>2
  <2>3. s = t
    BY <2>1, <2>2, SeqEqual
  <2>4. QED BY <2>3 DEF t
<1>5. Range(<<Head(s)>>) = {Head(s)}
  BY DEF Range
<1>6. Range(s) = {Head(s)} \cup Range(Tail(s))
  <2> DEFINE h == <<Head(s)>>
             t == Tail(s)
  <2>1. h \in Seq(S) /\ t \in Seq(S) /\ s = h \o t /\ Range(h) = {Head(s)}
    BY <1>1, <1>3, <1>4, <1>5
  <2> HIDE DEF h, t
  <2>2. Range(h \o t) = Range(h) \cup Range(t)
    BY <2>1, RangeConcatenation
  <2>3. QED BY <2>1, <2>2 DEF t
<1>7. QED BY <1>1, <1>4, <1>6

(* Taking an element behind the first out of a sequence.                   *)
LEMMA TailOfRemoved ==
  ASSUME NEW S, NEW s \in Seq(S), NEW i \in 2 .. Len(s)
  PROVE  /\ RemoveAt(s, i) # <<>> /\ Head(RemoveAt(s, i)) = Head(s)
         /\ i - 1 \in 1 .. Len(Tail(s)) /\ Tail(s)[i - 1] = s[i]
         /\ Tail(RemoveAt(s, i)) = RemoveAt(Tail(s), i - 1)
<1> DEFINE r == RemoveAt(s, i)
           q == RemoveAt(Tail(s), i - 1)
<1>1. Len(s) \in Nat /\ Len(s) >= 2 /\ s # <<>>
  BY LenProperties
<1>2. /\ Tail(s) \in Seq(S) /\ Len(Tail(s)) = Len(s) - 1
      /\ \A n \in 1 .. Len(s) - 1 : Tail(s)[n] = s[n + 1]
  BY <1>1, HeadTailProperties
<1>3. i - 1 \in 1 .. Len(Tail(s)) /\ i - 1 + 1 = i
  BY <1>1, <1>2
<1>4. /\ r \in Seq(S) /\ DOMAIN r = 1 .. Len(s) - 1
      /\ \A n \in 1 .. Len(s) - 1 : r[n] = s[IF n < i THEN n ELSE n + 1]
  BY <1>1, RemoveAtFacts
<1>5. /\ q \in Seq(S) /\ DOMAIN q = 1 .. Len(s) - 2
      /\ \A n \in 1 .. Len(s) - 2 : q[n] = Tail(s)[IF n < i - 1 THEN n ELSE n + 1]
  <2> DEFINE t == Tail(s)
             j == i - 1
  <2>1. t \in Seq(S) /\ Len(t) = Len(s) - 1 /\ j \in 1 .. Len(t)
    BY <1>2, <1>3
  <2> HIDE DEF t, j
  <2>2. /\ RemoveAt(t, j) \in Seq(S) /\ DOMAIN RemoveAt(t, j) = 1 .. Len(t) - 1
        /\ \A n \in 1 .. Len(t) - 1 :
             RemoveAt(t, j)[n] = t[IF n < j THEN n ELSE n + 1]
    BY <2>1, RemoveAtFacts
  <2>3. Len(t) - 1 = Len(s) - 2
    BY <1>1, <2>1
  <2>4. QED BY <2>2, <2>3 DEF t, j
<1> HIDE DEF r, q
<1>6. Len(r) = Len(s) - 1 /\ Len(q) = Len(s) - 2
  BY <1>1, <1>4, <1>5, LenProperties
<1>7. r # <<>> /\ Head(r) = r[1] /\ r[1] = s[1] /\ Head(s) = s[1]
  BY <1>1, <1>4, <1>6
<1>8. /\ Tail(r) \in Seq(S) /\ Len(Tail(r)) = Len(s) - 2
      /\ \A n \in 1 .. Len(s) - 2 : Tail(r)[n] = r[n + 1]
  BY <1>1, <1>4, <1>6, <1>7, HeadTailProperties
<1>9. ASSUME NEW n \in 1 .. Len(s) - 2
      PROVE  Tail(r)[n] = q[n]
  <2>1. Tail(r)[n] = s[IF n + 1 < i THEN n + 1 ELSE n + 2]
    <3>1. n + 1 \in 1 .. Len(s) - 1 /\ n + 1 + 1 = n + 2
      BY <1>1
    <3>2. QED BY <1>4, <1>8, <3>1
  <2>2. q[n] = s[IF n < i - 1 THEN n + 1 ELSE n + 2]
    <3>1. n \in 1 .. Len(s) - 1 /\ n + 1 \in 1 .. Len(s) - 1 /\ n + 1 + 1 = n + 2
      BY <1>1
    <3>2. QED BY <1>2, <1>5, <3>1
  <2>3. n + 1 < i <=> n < i - 1
    BY <1>1
  <2>4. CASE n + 1 < i
    BY <2>1, <2>2, <2>3, <2>4
  <2>5. CASE ~(n + 1 < i)
    BY <2>1, <2>2, <2>3, <2>5
  <2>6. QED BY <2>4, <2>5
<1>10. Tail(r) = q
  BY <1>5, <1>6, <1>8, <1>9, SeqEqual
<1>11. QED BY <1>2, <1>3, <1>7, <1>10 DEF r, q

-----------------------------------------------------------------------------
(* The steps.                                                              *)

(* Before the first call no loop runs.                                     *)
LEMMA SearchInitInv == SearchInit => SearchInv
<1> SUFFICES ASSUME SearchInit PROVE SearchInv
  OBVIOUS
<1>1. Shaped(v)
  BY ValuesAssumption DEF SearchInit
<1>2. LoopTypeOK
  <2>1. Range(<<>>) = {} /\ <<>> \in Seq({})
    BY EmptySeq DEF Range
  <2>2. QED BY <2>1 DEF SearchInit, LoopTypeOK
<1>3. QED
  BY <1>1, <1>2 DEF SearchInit, SearchInv, Running, LoopSeesAll, LoopDefined

(* A new iterator is good, and has every element ahead.                    *)
LEMMA BeginInv == SearchInv /\ Begin => SearchInv'
<1> SUFFICES ASSUME SearchInv, Begin PROVE SearchInv'
  OBVIOUS
<1>1. PICK order \in Orders(v) :
        loop' = [stage |-> "test", made |-> v.type, ahead |-> order, valid |-> TRUE]
  BY DEF Begin
<1>2. v' = v /\ seen' = <<>> /\ Shaped(v)
  BY DEF Begin, SearchInv
<1>3. /\ order \in Seq(Range(order)) /\ IsInjective(order)
      /\ v.type = "Array" => order = [i \in DOMAIN v.Array |-> i]
      /\ v.type = "Map" => Range(order) = DOMAIN v.Map
  BY <1>2, OrdersPassAll
<1>4. LoopTypeOK'
  BY <1>1, <1>2, <1>3 DEF LoopTypeOK, Range
<1>5. Path' = order
  BY <1>1, <1>2, <1>3, ConcatEmptySeq DEF Path
<1>6. Good' /\ OnItsWay'
  BY <1>1, <1>2, <1>3, <1>5 DEF Good, OnItsWay
<1>7. QED
  BY <1>1, <1>2, <1>4, <1>6 DEF SearchInv, Running, LoopSeesAll, LoopDefined, Shaped

(* The element the iterator is at moves from those ahead to those seen.    *)
LEMMA TestInv == SearchInv /\ Test => SearchInv'
<1> SUFFICES ASSUME SearchInv, Test PROVE SearchInv'
  OBVIOUS
<1>1. /\ v' = v /\ did' = did /\ Shaped(v) /\ Shaped(v)' /\ loop.stage = "test" /\ LoopTypeOK
      /\ loop.ahead \in Seq(Range(loop.ahead)) /\ seen \in Seq(Range(seen))
  BY DEF Test, SearchInv, LoopTypeOK, Shaped
<1>2. isContainer(v) => Good /\ OnItsWay
  BY <1>1 DEF Test, Dangles, SearchInv, Running, Good
<1>3. ~isContainer(v) => seen = <<>> \/ "cleared" \in did
  BY <1>1 DEF SearchInv, Running
<1>4. CASE AtEnd
  <2>1. loop' = [loop EXCEPT !.stage = "done"] /\ seen' = seen
    BY <1>4 DEF Test
  <2>2. LoopTypeOK' /\ loop'.stage = "done"
    BY <1>1, <2>1 DEF LoopTypeOK
  <2>3. LoopSeesAll'
    <3>1. CASE isContainer(v)
      <4>1. loop.ahead = <<>>
        BY <1>4, <3>1 DEF AtEnd
      <4>2. Path = seen
        BY <1>1, <4>1, ConcatEmptySeq DEF Path
      <4>3. QED BY <1>1, <1>2, <2>1, <3>1, <4>2 DEF LoopSeesAll, OnItsWay
    <3>2. CASE ~isContainer(v)
      BY <1>1, <1>3, <2>1, <3>2 DEF LoopSeesAll, isContainer, IsInjective
    <3>3. QED BY <3>1, <3>2
  <2>4. QED BY <1>1, <2>2, <2>3 DEF SearchInv, Running, LoopDefined
<1>5. CASE ~AtEnd
  <2> DEFINE S == Range(seen) \cup Range(loop.ahead)
             head == Head(loop.ahead)
  <2>1. /\ loop' = [loop EXCEPT !.stage = "body"] /\ seen' = Append(seen, head)
        /\ isContainer(v) /\ Good /\ OnItsWay /\ loop.ahead # <<>>
    BY <1>2, <1>5 DEF Test, AtEnd
  <2>2. /\ loop'.stage = "body" /\ loop'.ahead = loop.ahead
        /\ loop'.made = loop.made /\ loop'.valid = loop.valid
    BY <1>1, <2>1 DEF LoopTypeOK
  <2>3. seen \in Seq(S) /\ loop.ahead \in Seq(S)
    BY <1>1, SeqMonotonic
  <2> HIDE DEF S
  <2>4. /\ head \in S /\ Tail(loop.ahead) \in Seq(S) /\ <<head>> \in Seq(S)
        /\ loop.ahead = <<head>> \o Tail(loop.ahead)
    BY <2>1, <2>3, HeadTailFacts
  <2>5. seen' = seen \o <<head>> /\ seen' \in Seq(S)
    BY <2>1, <2>3, <2>4, AppendIsConcat, AppendProperties
  <2>6. Path' = Path
    <3>1. Path' = (seen \o <<head>>) \o Tail(loop.ahead)
      BY <2>2, <2>5 DEF Path
    <3>2. (seen \o <<head>>) \o Tail(loop.ahead) = seen \o (<<head>> \o Tail(loop.ahead))
      <4> DEFINE h == <<head>>
                 t == Tail(loop.ahead)
      <4>1. seen \in Seq(S) /\ h \in Seq(S) /\ t \in Seq(S)
        BY <2>3, <2>4
      <4> HIDE DEF h, t
      <4>2. (seen \o h) \o t = seen \o (h \o t)
        BY <4>1, ConcatAssociative
      <4>3. QED BY <4>2 DEF h, t
    <3>3. QED BY <1>1, <2>4, <3>1, <3>2 DEF Path
  <2>7. OnItsWay'
    BY <1>1, <2>1, <2>2, <2>6 DEF OnItsWay
  <2>8. LoopTypeOK'
    BY <1>1, <2>1, <2>2, <2>5, SeqOfRange DEF LoopTypeOK
  <2>9. Good'
    BY <1>1, <2>1, <2>2 DEF Good
  <2>10. QED
    BY <1>1, <2>1, <2>2, <2>7, <2>8, <2>9
    DEF SearchInv, Running, LoopSeesAll, LoopDefined, isContainer
<1>6. QED BY <1>4, <1>5

(* The element seen last is no longer ahead.                               *)
LEMMA AdvanceInv == SearchInv /\ Advance => SearchInv'
<1> SUFFICES ASSUME SearchInv, Advance PROVE SearchInv'
  OBVIOUS
<1>1. /\ v' = v /\ did' = did /\ seen' = seen /\ Shaped(v) /\ Shaped(v)' /\ LoopTypeOK
      /\ loop.stage = "next" /\ loop.ahead \in Seq(Range(loop.ahead))
  BY DEF Advance, SearchInv, LoopTypeOK, Shaped
<1>2. /\ loop'.stage = "test" /\ loop'.made = loop.made /\ loop'.valid = loop.valid
      /\ loop'.ahead = IF isContainer(v) THEN Tail(loop.ahead) ELSE loop.ahead
      /\ loop' = [stage |-> loop'.stage, made |-> loop'.made,
                  ahead |-> loop'.ahead, valid |-> loop'.valid]
  BY <1>1 DEF Advance, LoopTypeOK
<1>3. CASE isContainer(v)
  <2>1. Good /\ OnItsWay /\ loop.ahead # <<>>
    BY <1>1, <1>3 DEF Advance, Dangles, SearchInv, Running, Good, OnItsWay
  <2>2. Path' = Path
    BY <1>1, <1>2, <1>3 DEF Path
  <2>3. /\ Tail(loop.ahead) \in Seq(Range(Tail(loop.ahead)))
        /\ Range(Tail(loop.ahead)) \subseteq Range(loop.ahead)
    BY <1>1, <2>1, HeadTailFacts, SeqOfRange
  <2>4. LoopTypeOK'
    BY <1>1, <1>2, <1>3, <2>3 DEF LoopTypeOK
  <2>5. Good' /\ OnItsWay'
    BY <1>1, <1>2, <1>3, <2>1, <2>2, <2>3 DEF Good, OnItsWay
  <2>6. QED
    BY <1>1, <1>2, <1>3, <2>4, <2>5 DEF SearchInv, Running, LoopSeesAll, LoopDefined, isContainer
<1>4. CASE ~isContainer(v)
  <2>1. LoopTypeOK'
    BY <1>1, <1>2, <1>4 DEF LoopTypeOK
  <2>2. QED
    BY <1>1, <1>2, <1>4, <2>1
    DEF SearchInv, Running, LoopSeesAll, LoopDefined, isContainer
<1>5. QED BY <1>3, <1>4

(* An iterator that is no good is used only when the body spoiled it.      *)
LEMMA DangleInv == SearchInv /\ Dangle => SearchInv'
<1> SUFFICES ASSUME SearchInv, Dangle PROVE SearchInv'
  OBVIOUS
<1>1. /\ v' = v /\ did' = did /\ seen' = seen /\ Shaped(v) /\ Shaped(v)' /\ LoopTypeOK
      /\ loop' = [loop EXCEPT !.stage = "undefined"]
  BY DEF Dangle, SearchInv, Shaped
<1>2. Spoiled
  BY DEF Dangle, Dangles, SearchInv, Running, Good
<1>3. LoopTypeOK' /\ loop'.stage = "undefined"
  BY <1>1 DEF LoopTypeOK
<1>4. QED BY <1>1, <1>2, <1>3 DEF SearchInv, Running, LoopSeesAll, LoopDefined, Spoiled

(* What every call of the body leaves of the invariant.                    *)
LEMMA ChangedFacts ==
  ASSUME SearchInv, NEW what, NEW u, NEW a, NEW w \in BOOLEAN,
         Changed(what, u, a, w), a \in Seq(Range(a))
  PROVE  /\ isContainer(v) /\ Good /\ OnItsWay
         /\ v' = u /\ x' = x /\ seen' = seen /\ did' = did \cup {what}
         /\ loop.stage = "body" /\ loop'.stage = "next" /\ loop'.made = loop.made
         /\ loop'.ahead = a /\ loop'.valid = w
         /\ LoopTypeOK'
<1>1. /\ LoopTypeOK /\ loop.stage = "body" /\ isContainer(v) /\ Good
      /\ v' = u /\ x' = x /\ seen' = seen /\ did' = did \cup {what}
      /\ loop' = [loop EXCEPT !.stage = "next", !.ahead = a, !.valid = w]
  BY DEF Changed, SearchInv
<1>2. OnItsWay
  BY <1>1 DEF SearchInv, Running
<1>3. /\ loop' = [stage |-> "next", made |-> loop.made, ahead |-> a, valid |-> w]
      /\ seen \in Seq(Range(seen))
  BY <1>1 DEF LoopTypeOK
<1>4. LoopTypeOK'
  BY <1>1, <1>3 DEF LoopTypeOK
<1>5. QED BY <1>1, <1>2, <1>3, <1>4

(* What is left to show of such a call.                                    *)
LEMMA BodyInv ==
  ASSUME Shaped(v)', LoopTypeOK', loop'.stage = "next",
         isContainer(v)' => IF Good' THEN OnItsWay' ELSE Spoiled',
         ~isContainer(v)' => "cleared" \in did'
  PROVE  SearchInv'
  BY DEF SearchInv, Running, LoopSeesAll, LoopDefined

(* A body that does nothing.                                               *)
LEMMA LeaveAloneInv == SearchInv /\ LeaveAlone => SearchInv'
<1> SUFFICES ASSUME SearchInv, LeaveAlone PROVE SearchInv'
  OBVIOUS
<1>1. Shaped(v) /\ loop.valid \in BOOLEAN /\ loop.ahead \in Seq(Range(loop.ahead))
  BY DEF SearchInv, LoopTypeOK
<1>2. /\ isContainer(v) /\ Good /\ OnItsWay /\ v' = v /\ seen' = seen
      /\ loop.stage = "body" /\ loop'.stage = "next" /\ loop'.made = loop.made
      /\ loop'.ahead = loop.ahead /\ loop'.valid = loop.valid /\ LoopTypeOK'
  BY <1>1, ChangedFacts DEF LeaveAlone
<1>3. Path' = Path
  BY <1>2 DEF Path
<1>4. OnItsWay' /\ Good' /\ isContainer(v)' /\ Shaped(v)'
  BY <1>1, <1>2, <1>3 DEF OnItsWay, Good, Shaped, isContainer
<1>5. QED BY <1>2, <1>4, BodyInv

(* An assignment in the body: the iterator points into what is gone, or v is*)
(* no container any more.                                                  *)
LEMMA ReplaceInv == SearchInv /\ Replace => SearchInv'
<1> SUFFICES ASSUME SearchInv, Replace PROVE SearchInv'
  OBVIOUS
<1> DEFINE what(u) == IF isContainer(u) THEN "replaced" ELSE "cleared"
<1>1. PICK u \in Replacements : Changed(what(u), u, loop.ahead, FALSE)
  BY DEF Replace
<1>2. Shaped(u) /\ loop.ahead \in Seq(Range(loop.ahead))
  BY ValuesAssumption DEF SearchInv, LoopTypeOK
<1>3. /\ v' = u /\ did' = did \cup {what(u)}
      /\ loop'.stage = "next" /\ loop'.valid = FALSE /\ LoopTypeOK'
  <2> HIDE DEF what
  <2>1. QED BY <1>1, <1>2, ChangedFacts
<1>4. ~Good' /\ Shaped(v)' /\ isContainer(v)' = isContainer(u)
  BY <1>2, <1>3 DEF Good, Shaped, isContainer
<1>5. (isContainer(u) => Spoiled') /\ (~isContainer(u) => "cleared" \in did')
  BY <1>3 DEF Spoiled
<1>6. QED BY <1>3, <1>4, <1>5, BodyInv

(* push_back in the body may move the elements.                            *)
LEMMA PushInv == SearchInv /\ Push => SearchInv'
<1> SUFFICES ASSUME SearchInv, Push PROVE SearchInv'
  OBVIOUS
<1>1. Shaped(v) /\ loop.ahead \in Seq(Range(loop.ahead))
  BY DEF SearchInv, LoopTypeOK
<1>2. /\ v' = PushBack(v, x) /\ did' = did \cup {"pushed"}
      /\ loop'.stage = "next" /\ loop'.valid = FALSE /\ LoopTypeOK'
  BY <1>1, ChangedFacts DEF Push
<1>3. Shaped(v)' /\ v'.type = "Array"
  BY <1>1, <1>2, PushedShaped DEF Shaped
<1>4. ~Good' /\ isContainer(v)' /\ Spoiled'
  BY <1>2, <1>3 DEF Good, isContainer, Spoiled
<1>5. QED BY <1>2, <1>3, <1>4, BodyInv

(* A map loses a key the loop is not at; the loop loses it too, if it is   *)
(* still ahead, and stays on its way.                                      *)
LEMMA OnItsWayWithout ==
  ASSUME SearchInv, OnItsWay, loop.stage = "body", v.type = "Map", NEW e,
         NEW gone, gone = {e} \cap DOMAIN v.Map, Head(loop.ahead) \notin gone
  PROVE  LET a == RemoveFirst(loop.ahead, e)
         IN  /\ a \in Seq(Range(a)) /\ a # <<>>
             /\ IsInjective(seen \o Tail(a))
             /\ DOMAIN v.Map \ gone \subseteq Range(seen \o Tail(a))
             /\ Range(a) \subseteq DOMAIN v.Map \ gone
<1> DEFINE a == RemoveFirst(loop.ahead, e)
           t == Tail(loop.ahead)
           S == Range(seen) \cup Range(loop.ahead)
<1>1. /\ loop.ahead # <<>> /\ IsInjective(seen \o t)
      /\ DOMAIN v.Map \subseteq Range(seen \o t)
      /\ Range(loop.ahead) \subseteq DOMAIN v.Map
  BY DEF OnItsWay, Path
<1>2. seen \in Seq(S) /\ loop.ahead \in Seq(S)
  <2>1. seen \in Seq(Range(seen)) /\ loop.ahead \in Seq(Range(loop.ahead))
    BY DEF SearchInv, LoopTypeOK
  <2>2. QED BY <2>1, SeqMonotonic
<1> HIDE DEF S
<1>3. /\ t \in Seq(S) /\ Head(loop.ahead) \in Range(loop.ahead)
      /\ Range(loop.ahead) = {Head(loop.ahead)} \cup Range(t)
  BY <1>1, <1>2, HeadTailFacts
<1>4. CASE e \notin Range(loop.ahead)
  <2>1. a = loop.ahead
    BY <1>2, <1>4, RemoveFirstFacts
  <2>2. a \in Seq(Range(a))
    BY <1>2, <2>1, SeqOfRange
  <2>3. QED BY <1>1, <1>4, <2>1, <2>2
<1>5. CASE e \in Range(loop.ahead)
  <2>1. gone = {e} /\ Head(loop.ahead) # e
    BY <1>1, <1>5
  <2>2. PICK i \in 1 .. Len(loop.ahead) : loop.ahead[i] = e /\ a = RemoveAt(loop.ahead, i)
    BY <1>2, <1>5, RemoveFirstFacts
  <2>3. i \in 2 .. Len(loop.ahead)
    <3>1. Head(loop.ahead) = loop.ahead[1] /\ Len(loop.ahead) \in Nat
      BY <1>2, LenProperties
    <3>2. QED BY <2>1, <2>2, <3>1
  <2>4. a \in Seq(S)
    BY <1>2, <2>2, RemoveAtFacts
  <2> DEFINE r == RemoveAt(t, i - 1)
  <2>5. /\ a # <<>> /\ Head(a) = Head(loop.ahead) /\ Tail(a) = r
        /\ i - 1 \in 1 .. Len(t) /\ t[i - 1] = e
    BY <1>2, <2>2, <2>3, TailOfRemoved
  <2> HIDE DEF a
  <2>6. Range(a) = {Head(loop.ahead)} \cup Range(r) /\ r \in Seq(S)
    <3> HIDE DEF r
    <3>1. Range(a) = {Head(a)} \cup Range(Tail(a)) /\ Tail(a) \in Seq(S)
      BY <2>4, <2>5, HeadTailFacts
    <3>2. QED BY <2>5, <3>1
  <2> HIDE DEF t
  <2>7. IsInjective(seen) /\ IsInjective(t) /\ Range(seen) \cap Range(t) = {}
    BY <1>1, <1>2, <1>3, InjectiveConcat
  <2>8. IsInjective(r) /\ Range(r) = Range(t) \ {e}
    BY <1>3, <2>5, <2>7, RemoveAtInjective
  <2> HIDE DEF r
  <2>9. IsInjective(seen \o r)
    BY <1>2, <2>6, <2>7, <2>8, InjectiveConcat
  <2>10. /\ Range(seen \o r) = Range(seen) \cup Range(r)
         /\ Range(seen \o t) = Range(seen) \cup Range(t)
    BY <1>2, <1>3, <2>6, RangeConcatenation
  <2>11. DOMAIN v.Map \ gone \subseteq Range(seen \o r)
    BY <1>1, <2>1, <2>8, <2>10
  <2>12. Range(a) \subseteq DOMAIN v.Map \ gone
    BY <1>1, <1>3, <2>1, <2>6, <2>8
  <2>13. a \in Seq(Range(a))
    BY <2>4, SeqOfRange
  <2>14. QED BY <2>5, <2>9, <2>11, <2>12, <2>13 DEF a
<1>6. QED BY <1>4, <1>5

(* remove in the body: from a map the loop is not at, or nothing at all, it*)
(* leaves the iterator good.                                               *)
LEMMA RemoveInBodyInv == SearchInv /\ RemoveInBody => SearchInv'
<1> SUFFICES ASSUME SearchInv, RemoveInBody PROVE SearchInv'
  OBVIOUS
<1> DEFINE gone == Matches(v, x)
           u == Removed(v, x)
           a == RemoveFirst(loop.ahead, asString(x))
<1>1. /\ Shaped(v) /\ loop.valid \in BOOLEAN /\ loop.ahead \in Seq(Range(loop.ahead))
      /\ loop.stage = "body"
  BY DEF SearchInv, LoopTypeOK, RemoveInBody
<1>2. isContainer(v) /\ Good /\ OnItsWay
  BY <1>1 DEF SearchInv, Running
<1>3. Shaped(u) /\ u.type = v.type /\ (gone = {} => u = v)
  BY <1>1, RemovedShaped
<1>4. CASE v.type = "Map" /\ Head(loop.ahead) \notin gone
  <2>1. Changed("removedAnother", u, a, loop.valid)
    BY <1>4 DEF RemoveInBody
  <2>2. gone = {asString(x)} \cap DOMAIN v.Map /\ Head(loop.ahead) \notin gone
    BY <1>4 DEF Matches
  <2>3. u = MapValue([k \in DOMAIN v.Map \ gone |-> v.Map[k]])
    BY <1>4 DEF Removed
  <2>4. u.type = "Map" /\ DOMAIN u.Map = DOMAIN v.Map \ gone
    BY <2>3 DEF MapValue
  <2> HIDE DEF gone, u
  <2>5. /\ a \in Seq(Range(a)) /\ a # <<>>
        /\ IsInjective(seen \o Tail(a))
        /\ DOMAIN v.Map \ gone \subseteq Range(seen \o Tail(a))
        /\ Range(a) \subseteq DOMAIN v.Map \ gone
    BY <1>1, <1>2, <1>4, <2>2, OnItsWayWithout
  <2> HIDE DEF a
  <2>6. /\ v' = u /\ seen' = seen /\ loop'.stage = "next" /\ loop'.made = loop.made
        /\ loop'.ahead = a /\ loop'.valid = loop.valid /\ LoopTypeOK'
    <3>1. a \in Seq(Range(a))
      BY <2>5
    <3>2. QED BY <1>1, <2>1, <3>1, ChangedFacts
  <2>7. Path' = seen \o Tail(a)
    BY <2>6 DEF Path
  <2>8. OnItsWay'
    BY <2>4, <2>5, <2>6, <2>7 DEF OnItsWay
  <2>9. Good' /\ isContainer(v)' /\ Shaped(v)'
    BY <1>2, <1>3, <2>4, <2>6, <1>4 DEF Good, isContainer, Shaped
  <2>10. QED BY <2>6, <2>8, <2>9, BodyInv
<1>5. CASE ~(v.type = "Map" /\ Head(loop.ahead) \notin gone)
  <2>1. Changed("removed", u, loop.ahead, loop.valid /\ gone = {})
    BY <1>5 DEF RemoveInBody
  <2> HIDE DEF gone, u
  <2>2. /\ v' = u /\ seen' = seen /\ did' = did \cup {"removed"}
        /\ loop'.stage = "next" /\ loop'.made = loop.made
        /\ loop'.ahead = loop.ahead /\ loop'.valid = (loop.valid /\ gone = {})
        /\ LoopTypeOK'
    BY <1>1, <2>1, ChangedFacts
  <2>3. Spoiled' /\ isContainer(v)' /\ Shaped(v)'
    BY <1>2, <1>3, <2>2 DEF Spoiled, isContainer, Shaped
  <2>4. ASSUME Good' PROVE OnItsWay'
    <3>1. gone = {} /\ v' = v
      BY <1>3, <2>2, <2>4 DEF Good
    <3>2. Path' = Path
      BY <1>1, <2>2 DEF Path
    <3>3. QED BY <1>1, <1>2, <2>2, <3>1, <3>2 DEF OnItsWay
  <2>5. QED BY <2>2, <2>3, <2>4, BodyInv
<1>6. QED BY <1>4, <1>5

(* remove outside of a loop.                                               *)
LEMMA RemoveOutsideInv == SearchInv /\ RemoveOutside => SearchInv'
<1> SUFFICES ASSUME SearchInv, RemoveOutside PROVE SearchInv'
  OBVIOUS
<1>1. /\ v' = Removed(v, x) /\ loop' = loop /\ seen' = seen /\ loop.stage = "off"
      /\ Shaped(v) /\ LoopTypeOK
  BY DEF RemoveOutside, SearchInv
<1>2. Shaped(v)' /\ LoopTypeOK'
  BY <1>1, RemovedShaped DEF Shaped, LoopTypeOK
<1>3. QED BY <1>1, <1>2 DEF SearchInv, Running, LoopSeesAll, LoopDefined

(* Every step keeps the invariant.                                         *)
LEMMA SearchStepInv == SearchInv /\ [SearchNext]_searchVars => SearchInv'
<1> SUFFICES ASSUME SearchInv, [SearchNext]_searchVars PROVE SearchInv'
  OBVIOUS
<1>1. CASE UNCHANGED searchVars
  BY <1>1
  DEF searchVars, SearchInv, Shaped, LoopTypeOK, Running, isContainer, Good, OnItsWay, Path,
      Spoiled, LoopSeesAll, LoopDefined
<1>2. CASE SearchNext
  BY <1>2, BeginInv, TestInv, AdvanceInv, DangleInv, LeaveAloneInv, ReplaceInv, PushInv,
     RemoveInBodyInv, RemoveOutsideInv
  DEF SearchNext
<1>3. QED BY <1>1, <1>2

-----------------------------------------------------------------------------
(* The theorems.                                                           *)

(* Whatever the body of a range for does to the container, and however     *)
(* long it goes on, a loop whose iterator is good passes each element once *)
(* and is at one that is still there.                                      *)
THEOREM SearchInvariant == SearchSpec => []SearchInv
<1>1. SearchInit => SearchInv
  BY SearchInitInv
<1>2. SearchInv /\ [SearchNext]_searchVars => SearchInv'
  BY SearchStepInv
<1>3. QED BY <1>1, <1>2, PTL DEF SearchSpec

(* A loop that ends has seen every element that is left, each once, unless *)
(* its body made a scalar of the container.                                *)
THEOREM LoopsSeeAll == SearchSpec => []LoopSeesAll
<1>1. SearchInv => LoopSeesAll
  BY DEF SearchInv
<1>2. QED BY <1>1, SearchInvariant, PTL

(* Only a body that adds, takes an element of a vector or the one the loop *)
(* is at, or puts another container in its place, makes the loop use an    *)
(* iterator that is no good.                                               *)
THEOREM LoopsDefined == SearchSpec => []LoopDefined
<1>1. SearchInv => LoopDefined
  BY DEF SearchInv
<1>2. QED BY <1>1, SearchInvariant, PTL

(* remove takes away exactly what contains sees, and of an array one       *)
(* element, which is equal, whatever operator== says of two Values.        *)
LEMMA ShapedAgrees == Shaped(v) => RemoveAgreesWithContains
<1> SUFFICES ASSUME Shaped(v) PROVE RemoveAgreesWithContains
  OBVIOUS
<1> DEFINE u == Removed(v, x)
           gone == Matches(v, x)
<1>1. CASE v.type = "Array" /\ gone # {}
  <2>1. /\ v = ArrayValue(v.Array) /\ v.Array \in Seq(Range(v.Array))
        /\ DOMAIN v.Array = 1 .. Len(v.Array) /\ Len(v.Array) \in Nat
    BY <1>1, LenProperties DEF Shaped
  <2>2. gone \subseteq 1 .. Len(v.Array) /\ \A i \in gone : IsEqual(x, v.Array[i])
    BY <1>1, <2>1 DEF Matches
  <2> DEFINE i == Min(gone)
  <2>3. i \in gone /\ i \in 1 .. Len(v.Array)
    <3>1. gone \subseteq Nat
      BY <2>1, <2>2
    <3>2. QED BY <1>1, <2>2, <3>1, MinFacts
  <2>4. u = ArrayValue(RemoveAt(v.Array, i))
    BY <1>1 DEF Removed
  <2> HIDE DEF i, gone, u
  <2>5. DOMAIN RemoveAt(v.Array, i) = 1 .. Len(v.Array) - 1
    BY <2>1, <2>3, RemoveAtFacts
  <2>6. u.Array = RemoveAt(v.Array, i) /\ u.type = "Array"
    BY <2>4 DEF ArrayValue
  <2>7. u # v
    BY <2>1, <2>3, <2>5, <2>6
  <2>8. \E n \in DOMAIN v.Array :
           IsEqual(x, v.Array[n]) /\ u.Array = RemoveAt(v.Array, n)
    BY <2>1, <2>2, <2>3, <2>6
  <2>9. QED BY <1>1, <2>7, <2>8 DEF RemoveAgreesWithContains, contains, gone, u
<1>2. CASE v.type = "Map"
  <2>1. u = MapValue([k \in DOMAIN v.Map \ gone |-> v.Map[k]])
    BY <1>2 DEF Removed
  <2>2. u.type = "Map" /\ DOMAIN u.Map = DOMAIN v.Map \ gone
    BY <2>1 DEF MapValue
  <2>3. gone = {asString(x)} \cap DOMAIN v.Map
    BY <1>2 DEF Matches
  <2>4. gone = {} => u = v
    BY RemovedShaped
  <2> HIDE DEF gone, u
  <2>5. gone # {} => u # v
    BY <2>2, <2>3
  <2>6. \A k \in DOMAIN v.Map : k \in DOMAIN u.Map \/ k = asString(x)
    BY <2>2, <2>3
  <2>7. QED BY <1>2, <2>4, <2>5, <2>6 DEF RemoveAgreesWithContains, contains, gone, u
<1>3. CASE v.type # "Map" /\ gone = {}
  <2>1. u = v
    BY <1>3, RemovedShaped
  <2>2. QED BY <1>3, <2>1 DEF RemoveAgreesWithContains, contains
<1>4. CASE v.type \notin {"Array", "Map"}
  BY <1>3, <1>4 DEF Matches
<1>5. QED BY <1>1, <1>2, <1>3, <1>4

(* remove and contains agree, in every state the loops and calls reach.    *)
THEOREM RemoveAgrees == SearchSpec => []RemoveAgreesWithContains
<1>1. SearchInv => RemoveAgreesWithContains
  BY ShapedAgrees DEF SearchInv
<1>2. QED BY <1>1, SearchInvariant, PTL

-----------------------------------------------------------------------------
(* Powers of two.                                                          *)

Doubling(f, m) ==
  /\ f \in [0 .. m -> Nat] /\ f[0] = 1
  /\ \A k \in 1 .. m : f[k] = 2 * f[k - 1]

(* A table of powers is there for every number, and any two agree: what a  *)
(* recursive function has to be shown to have before it can be unfolded.   *)
LEMMA DoublingExists ==
  ASSUME NEW m \in Nat
  PROVE  \E f : Doubling(f, m)
<1> DEFINE T == {k \in Nat : ~\E f : Doubling(f, k)}
<1>1. SUFFICES ASSUME T # {} PROVE FALSE
  OBVIOUS
<1> DEFINE l == Min(T)
<1>2. l \in T /\ \A y \in T : l <= y
  <2> HIDE DEF T
  <2>1. T \subseteq Nat
    BY DEF T
  <2>2. QED BY <1>1, <2>1, MinFacts
<1> HIDE DEF l
<1>3. l \in Nat /\ ~\E f : Doubling(f, l)
  BY <1>2
<1>4. CASE l = 0
  <2>1. Doubling([k \in 0 .. 0 |-> 1], 0)
    BY DEF Doubling
  <2>2. QED BY <1>3, <1>4, <2>1
<1>5. CASE l # 0
  <2>1. l - 1 \in Nat /\ l - 1 \notin T
    BY <1>2, <1>3, <1>5
  <2>2. PICK f : Doubling(f, l - 1)
    BY <2>1
  <2> DEFINE g == [k \in 0 .. l |-> IF k = l THEN 2 * f[l - 1] ELSE f[k]]
  <2>3. \A k \in 0 .. l - 1 : f[k] \in Nat /\ g[k] = f[k]
    BY <1>3, <2>2 DEF Doubling
  <2>4. g \in [0 .. l -> Nat] /\ g[0] = 1
    BY <1>3, <1>5, <2>2, <2>3 DEF Doubling
  <2>5. \A k \in 1 .. l : g[k] = 2 * g[k - 1]
    <3>1. SUFFICES ASSUME NEW k \in 1 .. l PROVE g[k] = 2 * g[k - 1]
      OBVIOUS
    <3>2. CASE k = l
      BY <1>3, <2>3, <3>2
    <3>3. CASE k # l
      BY <1>3, <2>2, <2>3, <3>3 DEF Doubling
    <3>4. QED BY <3>2, <3>3
  <2> HIDE DEF g
  <2>6. QED BY <1>3, <2>4, <2>5 DEF Doubling
<1>6. QED BY <1>4, <1>5

LEMMA DoublingAgrees ==
  ASSUME NEW m \in Nat, NEW n \in Nat, NEW f, NEW g, Doubling(f, m), Doubling(g, n),
         NEW k \in Nat, k <= m, k <= n
  PROVE  f[k] = g[k]
<1> DEFINE T == {i \in Nat : i <= m /\ i <= n /\ f[i] # g[i]}
<1>1. SUFFICES ASSUME T # {} PROVE FALSE
  OBVIOUS
<1> DEFINE l == Min(T)
<1>2. l \in T /\ \A y \in T : l <= y
  <2> HIDE DEF T
  <2>1. T \subseteq Nat
    BY DEF T
  <2>2. QED BY <1>1, <2>1, MinFacts
<1> HIDE DEF l
<1>3. l # 0
  BY <1>2 DEF Doubling
<1>4. l - 1 \notin T /\ l - 1 \in Nat /\ l \in 1 .. m /\ l \in 1 .. n
  BY <1>2, <1>3
<1>5. f[l - 1] = g[l - 1]
  BY <1>4
<1>6. f[l] = g[l]
  BY <1>4, <1>5 DEF Doubling
<1>7. QED BY <1>2, <1>6

LEMMA TwoToUnfolds == TwoTo = [n \in Nat |-> IF n = 0 THEN 1 ELSE 2 * TwoTo[n - 1]]
<1> DEFINE table(n) == CHOOSE f : Doubling(f, n)
           F == [n \in Nat |-> table(n)[n]]
<1>1. \A n \in Nat : Doubling(table(n), n)
  BY DoublingExists
<1> HIDE DEF table
<1>2. ASSUME NEW n \in Nat PROVE F[n] = IF n = 0 THEN 1 ELSE 2 * F[n - 1]
  <2>1. CASE n = 0
    BY <1>1, <2>1 DEF Doubling
  <2>2. CASE n # 0
    <3>1. n - 1 \in Nat /\ n \in 1 .. n
      BY <2>2
    <3>2. table(n)[n] = 2 * table(n)[n - 1]
      BY <1>1, <3>1 DEF Doubling
    <3>3. table(n)[n - 1] = table(n - 1)[n - 1]
      BY <1>1, <3>1, DoublingAgrees
    <3>4. QED BY <2>2, <3>1, <3>2, <3>3
  <2>3. QED BY <2>1, <2>2
<1>3. F = [n \in Nat |-> IF n = 0 THEN 1 ELSE 2 * F[n - 1]]
  BY <1>2
<1> HIDE DEF F
<1>4. \E f : f = [n \in Nat |-> IF n = 0 THEN 1 ELSE 2 * f[n - 1]]
  BY <1>3
<1>5. QED BY <1>4 DEF TwoTo

LEMMA TwoToStep ==
  /\ TwoTo[0] = 1
  /\ \A n \in Nat : TwoTo[n + 1] = 2 * TwoTo[n]
<1>1. \A n \in Nat : TwoTo[n] = IF n = 0 THEN 1 ELSE 2 * TwoTo[n - 1]
  BY TwoToUnfolds
<1>2. QED BY <1>1

(* What holds of 0 and of the successor of each number holds of all.       *)
LEMMA AllNumbers ==
  ASSUME NEW S, 0 \in S, \A n \in Nat : n \in S => n + 1 \in S
  PROVE  \A n \in Nat : n \in S
<1> DEFINE T == Nat \ S
<1>1. SUFFICES ASSUME T # {} PROVE FALSE
  OBVIOUS
<1>2. Min(T) \in T /\ \A y \in T : Min(T) <= y
  BY <1>1, MinFacts
<1> DEFINE l == Min(T)
<1>3. l \in T /\ \A y \in T : l <= y
  BY <1>2
<1> HIDE DEF l
<1>4. l \in Nat /\ l # 0
  BY <1>3
<1>5. l - 1 \in Nat /\ l - 1 \in S /\ (l - 1) + 1 = l
  BY <1>3, <1>4
<1>6. QED BY <1>3, <1>5

(* A power of two is above its exponent, so an exponent has a bound.       *)
LEMMA TwoToTyped ==
  ASSUME NEW n \in Nat
  PROVE  TwoTo[n] \in Nat /\ TwoTo[n] > n
<1> DEFINE S == {k \in Nat : TwoTo[k] \in Nat /\ TwoTo[k] > k}
<1>1. 0 \in S
  BY TwoToStep
<1>2. \A k \in Nat : k \in S => k + 1 \in S
  BY TwoToStep
<1> HIDE DEF S
<1>3. \A k \in Nat : k \in S
  BY <1>1, <1>2, AllNumbers
<1>4. QED BY <1>3 DEF S

(* Exponents add.                                                          *)
LEMMA TwoToSum ==
  ASSUME NEW a \in Nat, NEW b \in Nat
  PROVE  TwoTo[a + b] = TwoTo[a] * TwoTo[b]
<1> DEFINE S == {k \in Nat : TwoTo[a + k] = TwoTo[a] * TwoTo[k]}
<1>1. 0 \in S
  BY TwoToStep, TwoToTyped
<1>2. ASSUME NEW k \in Nat, k \in S PROVE k + 1 \in S
  <2> DEFINE z == TwoTo[a]  y == TwoTo[k]
  <2>1. z \in Nat /\ y \in Nat /\ TwoTo[a + k] = z * y
    BY <1>2, TwoToTyped
  <2>2. TwoTo[a + (k + 1)] = 2 * TwoTo[a + k] /\ TwoTo[k + 1] = 2 * y
    <3>1. a + k \in Nat /\ a + (k + 1) = (a + k) + 1
      OBVIOUS
    <3>2. QED BY <3>1, TwoToStep
  <2> HIDE DEF z, y
  <2>3. 2 * (z * y) = z * (2 * y)
    BY <2>1
  <2>4. QED BY <2>1, <2>2, <2>3 DEF z
<1> HIDE DEF S
<1>3. \A k \in Nat : k \in S
  BY <1>1, <1>2, AllNumbers
<1>4. QED BY <1>3 DEF S

(* Multiplying by a positive number keeps the order, and keeps numbers     *)
(* apart by that number.                                                   *)
LEMMA TimesMonotone ==
  ASSUME NEW q \in Nat \ {0}, NEW i \in Int, NEW j \in Int
  PROVE  /\ q * i \in Int
         /\ i <= j <=> q * i <= q * j
         /\ i < j <=> q * i < q * j
         /\ i < j => q * i + q <= q * j
<1>1. q * i \in Int /\ q * j \in Int
  OBVIOUS
<1>2. i <= j => q * i <= q * j
  OBVIOUS
<1>3. i < j => q * i + q <= q * j
  OBVIOUS
<1>4. QED BY <1>1, <1>2, <1>3

(* A power of two divides those above it, and they are at least twice it.  *)
LEMMA TwoToApart ==
  ASSUME NEW a \in Nat, NEW b \in Nat
  PROVE  /\ a <= b => /\ TwoTo[b - a] \in Nat \ {0} /\ TwoTo[b] = TwoTo[a] * TwoTo[b - a]
                      /\ TwoTo[a] <= TwoTo[b]
         /\ a < b => 2 * TwoTo[a] <= TwoTo[b]
<1>1. ASSUME NEW c \in Nat, NEW d \in Nat, c <= d
      PROVE  /\ TwoTo[d - c] \in Nat \ {0} /\ TwoTo[d] = TwoTo[c] * TwoTo[d - c]
             /\ TwoTo[c] <= TwoTo[d]
  <2>1. d - c \in Nat /\ c + (d - c) = d
    BY <1>1
  <2>2. TwoTo[d] = TwoTo[c] * TwoTo[d - c]
    BY <2>1, TwoToSum
  <2> DEFINE z == TwoTo[c]  y == TwoTo[d - c]
  <2>3. z \in Nat \ {0} /\ y \in Nat \ {0}
    BY <2>1, TwoToTyped
  <2> HIDE DEF z, y
  <2>4. z <= z * y
    BY <2>3, TimesMonotone
  <2>5. QED BY <2>2, <2>3, <2>4 DEF z, y
<1>2. ASSUME a < b PROVE 2 * TwoTo[a] <= TwoTo[b]
  <2>1. TwoTo[a + 1] = 2 * TwoTo[a] /\ a + 1 \in Nat /\ a + 1 <= b
    BY <1>2, TwoToStep
  <2>2. QED BY <1>1, <2>1
<1>3. QED BY <1>1, <1>2

-----------------------------------------------------------------------------
(* Rounding.                                                               *)

(* Division, and that its results are the only ones.                       *)
LEMMA DivFacts ==
  ASSUME NEW a \in Nat, NEW q \in Nat \ {0}
  PROVE  /\ a \div q \in Nat /\ a % q \in Nat /\ a % q < q
         /\ a = q * (a \div q) + (a % q)
  OBVIOUS

LEMMA DivUnique ==
  ASSUME NEW a \in Nat, NEW q \in Nat \ {0}, NEW d \in Int, NEW r \in Nat,
         r < q, a = q * d + r
  PROVE  a \div q = d /\ a % q = r
<1> DEFINE e == a \div q  s == a % q
<1>1. e \in Nat /\ s \in Nat /\ s < q /\ a = q * e + s
  BY DivFacts
<1> HIDE DEF e, s
<1>2. ~(d < e)
  BY <1>1, TimesMonotone
<1>3. ~(e < d)
  BY <1>1, TimesMonotone
<1>4. e = d
  BY <1>1, <1>2, <1>3
<1>5. QED BY <1>1, <1>4 DEF e, s

(* The multiple of q that a is rounded to.                                 *)
Quotient(a, q) ==
  (a \div q) + IF \/ 2 * (a % q) > q
                  \/ 2 * (a % q) = q /\ (a \div q) % 2 = 1
               THEN 1 ELSE 0

(* Nearest rounds a negative number as its magnitude.                      *)
LEMMA NearestNat ==
  ASSUME NEW a \in Nat, NEW q \in Nat \ {0}
  PROVE  /\ Quotient(a, q) \in Nat
         /\ Nearest(a, q) = q * Quotient(a, q)
         /\ Nearest(-a, q) = -(q * Quotient(a, q))
<1> DEFINE d == a \div q  s == a % q
           up == 2 * s > q \/ (2 * s = q /\ d % 2 = 1)
           k == d + IF up THEN 1 ELSE 0
<1>1. d \in Nat /\ s \in Nat /\ a = q * d + s
  BY DivFacts
<1>2. Quotient(a, q) = k /\ k \in Nat
  BY <1>1 DEF Quotient
<1>3. Magnitude(a) = a /\ Magnitude(-a) = a
  BY DEF Magnitude
<1>4. Nearest(a, q) = Signum(a) * q * k /\ Nearest(-a, q) = Signum(-a) * q * k
  BY <1>3 DEF Nearest
<1>5. a = 0 => k = 0
  <2>1. ASSUME a = 0 PROVE d = 0 /\ s = 0
    <3>1. a = q * 0 + 0 /\ 0 < q
      BY <2>1
    <3>2. QED BY <3>1, DivUnique
  <2>2. QED BY <2>1
<1> HIDE DEF k
<1>6. CASE a = 0
  <2>1. Signum(a) = 1 /\ Signum(-a) = 1 /\ k = 0
    BY <1>5, <1>6 DEF Signum
  <2>2. QED BY <1>2, <1>4, <2>1
<1>7. CASE a # 0
  <2>1. Signum(a) = 1 /\ Signum(-a) = -1
    BY <1>7 DEF Signum
  <2>2. QED BY <1>2, <1>4, <2>1
<1>8. QED BY <1>6, <1>7

(* Rounding passes no multiple of q.                                       *)
LEMMA QuotientBounds ==
  ASSUME NEW a \in Nat, NEW q \in Nat \ {0}, NEW j \in Int
  PROVE  /\ q * j <= a => j <= Quotient(a, q)
         /\ a <= q * j => Quotient(a, q) <= j
<1> DEFINE d == a \div q  s == a % q
<1>1. d \in Nat /\ s \in Nat /\ s < q /\ a = q * d + s
  BY DivFacts
<1> HIDE DEF d, s
<1>2. /\ Quotient(a, q) \in {d, d + 1}
      /\ s = 0 => Quotient(a, q) = d
  BY <1>1 DEF Quotient, d, s
<1>3. ASSUME q * j <= a PROVE j <= d
  BY <1>1, <1>3, TimesMonotone
<1>4. ASSUME a <= q * j PROVE Quotient(a, q) <= j
  <2>1. CASE s = 0
    BY <1>1, <1>2, <1>4, <2>1, TimesMonotone
  <2>2. CASE s # 0
    <3>1. q * d < q * j
      BY <1>1, <1>4, <2>2
    <3>2. d < j
      BY <1>1, <3>1, TimesMonotone
    <3>3. QED BY <1>1, <1>2, <3>2
  <2>3. QED BY <2>1, <2>2
<1>5. QED BY <1>1, <1>2, <1>3, <1>4

LEMMA QuotientMonotone ==
  ASSUME NEW a \in Nat, NEW b \in Nat, a <= b, NEW q \in Nat \ {0}
  PROVE  Quotient(a, q) <= Quotient(b, q)
<1> DEFINE d == a \div q  s == a % q  e == b \div q  t == b % q
<1>1. /\ d \in Nat /\ s \in Nat /\ s < q /\ a = q * d + s
      /\ e \in Nat /\ t \in Nat /\ t < q /\ b = q * e + t
  BY DivFacts
<1> HIDE DEF d, s, e, t
<1>2. d <= e
  BY <1>1, TimesMonotone
<1>3. /\ Quotient(a, q) = d + IF 2 * s > q \/ (2 * s = q /\ d % 2 = 1) THEN 1 ELSE 0
      /\ Quotient(b, q) = e + IF 2 * t > q \/ (2 * t = q /\ e % 2 = 1) THEN 1 ELSE 0
  BY DEF Quotient, d, s, e, t
<1>4. CASE d = e
  <2>1. s <= t
    BY <1>1, <1>4
  <2>2. QED BY <1>1, <1>3, <1>4, <2>1
<1>5. CASE d < e
  BY <1>1, <1>3, <1>5
<1>6. QED BY <1>1, <1>2, <1>4, <1>5

LEMMA WidthFacts ==
  /\ LongBits \in Nat /\ IntBits \in Nat /\ Precision \in Nat
  /\ IntBits >= 2 /\ Precision >= 2 /\ IntBits <= Precision /\ Precision + 2 <= LongBits
  /\ One \in Nat \ {0} /\ Significands \in Nat \ {0} /\ Significands = 2 * One
<1>1. /\ LongBits \in Nat /\ IntBits \in Nat /\ Precision \in Nat
      /\ IntBits >= 2 /\ Precision >= 2 /\ IntBits <= Precision /\ Precision + 2 <= LongBits
  BY WidthsAssumption
<1>2. Precision - 1 \in Nat /\ Precision = (Precision - 1) + 1
  BY <1>1
<1>3. Significands = 2 * One
  BY <1>2, TwoToStep DEF One, Significands
<1>4. One \in Nat \ {0}
  BY <1>2, TwoToTyped DEF One
<1>5. QED BY <1>1, <1>3, <1>4

(* The exponent of a number that is not negative.                          *)
Scaled(a, e) ==
  /\ e \in Nat
  /\ a < Significands * TwoTo[e]
  /\ e > 0 => a >= Significands * TwoTo[e - 1]

(* Each number has a scale: the least power of two for which the bits of a *)
(* double suffice.                                                         *)
LEMMA ScaledExists ==
  ASSUME NEW a \in Nat
  PROVE  \E e \in 0 .. a : Scaled(a, e)
<1> DEFINE T == {e \in Nat : a < Significands * TwoTo[e]}
<1>1. a \in T
  <2> DEFINE z == TwoTo[a]
  <2>1. z \in Nat /\ a < z /\ Significands \in Nat /\ Significands >= 1
    BY TwoToTyped, WidthFacts
  <2> HIDE DEF z
  <2>2. z <= z * Significands /\ z * Significands = Significands * z
    BY <2>1, TimesMonotone
  <2>3. a < Significands * z
    BY <2>1, <2>2
  <2>4. QED BY <2>3 DEF z
<1> DEFINE l == Min(T)
<1>2. l \in T /\ \A y \in T : l <= y
  <2> HIDE DEF T
  <2>1. T \subseteq Nat
    BY DEF T
  <2>2. QED BY <1>1, <2>1, MinFacts
<1> HIDE DEF l
<1>3. l \in Nat /\ a < Significands * TwoTo[l] /\ l <= a
  BY <1>1, <1>2
<1>4. ASSUME l > 0 PROVE a >= Significands * TwoTo[l - 1]
  <2>1. l - 1 \in Nat /\ l - 1 \notin T
    BY <1>2, <1>3, <1>4
  <2> DEFINE z == TwoTo[l - 1]
  <2>2. z \in Nat /\ Significands \in Nat
    BY <2>1, TwoToTyped, WidthFacts
  <2>3. ~(a < Significands * z)
    BY <2>1
  <2> HIDE DEF z
  <2>4. a >= Significands * z
    BY <2>2, <2>3
  <2>5. QED BY <2>4 DEF z
<1>5. QED BY <1>3, <1>4 DEF Scaled

Exponent(a) == CHOOSE e \in Nat : Scaled(a, e)

LEMMA ExponentFacts ==
  ASSUME NEW a \in Nat
  PROVE  Scaled(a, Exponent(a))
<1>1. \E e \in Nat : Scaled(a, e)
  BY ScaledExists
<1>2. QED BY <1>1 DEF Exponent

(* A number at or below one of a smaller scale is of no larger one.        *)
LEMMA ScaledMonotone ==
  ASSUME NEW a \in Nat, NEW b \in Nat, a <= b, NEW e, NEW f, Scaled(a, e), Scaled(b, f)
  PROVE  e <= f
<1>1. e \in Nat /\ f \in Nat
  BY DEF Scaled
<1>2. SUFFICES ASSUME f < e PROVE FALSE
  BY <1>1
<1>3. e - 1 \in Nat /\ f <= e - 1 /\ e > 0
  BY <1>1, <1>2
<1> DEFINE z == TwoTo[f]  y == TwoTo[e - 1]  s == Significands
<1>4. z \in Nat /\ y \in Nat /\ z <= y /\ s \in Nat \ {0}
  BY <1>1, <1>3, TwoToTyped, TwoToApart, WidthFacts
<1>5. b < s * z /\ a >= s * y
  BY <1>3 DEF Scaled
<1> HIDE DEF z, y, s
<1>6. s * z <= s * y
  BY <1>4, TimesMonotone
<1>7. s * z \in Int /\ s * y \in Int
  BY <1>4
<1>8. QED BY <1>5, <1>6, <1>7

LEMMA ScaledOnce ==
  ASSUME NEW a \in Nat, NEW e, Scaled(a, e)
  PROVE  Exponent(a) = e
<1>1. e <= Exponent(a) /\ Exponent(a) <= e
  BY ExponentFacts, ScaledMonotone
<1>2. QED BY <1>1, ExponentFacts DEF Scaled

(* Half of a number has the exponent below.                                *)
LEMMA HalfScaled ==
  ASSUME NEW a \in Nat, a >= Significands
  PROVE  a \div 2 \in Nat /\ a \div 2 < a /\ TwoTo[Exponent(a)] = 2 * TwoTo[Exponent(a \div 2)]
<1> DEFINE h == a \div 2  r == a % 2  e == Exponent(a)  S == Significands
<1>1. h \in Nat /\ r \in Nat /\ r < 2 /\ a = 2 * h + r /\ S \in Nat \ {0}
  BY DivFacts, WidthFacts
<1> HIDE DEF h, r, S
<1>2. e \in Nat /\ a < S * TwoTo[e] /\ (e > 0 => a >= S * TwoTo[e - 1])
  BY ExponentFacts DEF Scaled, S
<1> HIDE DEF e
<1>3. e > 0 /\ e - 1 \in Nat /\ (e - 1) + 1 = e
  <2>1. TwoTo[0] = 1 /\ a >= S
    BY TwoToStep DEF S
  <2>2. QED BY <1>1, <1>2, <2>1
<1> DEFINE z == TwoTo[e - 1]
<1>4. z \in Nat /\ TwoTo[e] = 2 * z
  BY <1>3, TwoToTyped, TwoToStep
<1>5. S * z \in Nat /\ S * TwoTo[e] = 2 * (S * z)
  <2> HIDE DEF z
  <2>1. QED BY <1>1, <1>4
<1>6. h < S * z
  <2> HIDE DEF z
  <2>1. QED BY <1>1, <1>2, <1>4, <1>5
<1>7. ASSUME e - 1 > 0 PROVE h >= S * TwoTo[(e - 1) - 1]
  <2> DEFINE y == TwoTo[(e - 1) - 1]
  <2>1. (e - 1) - 1 \in Nat /\ ((e - 1) - 1) + 1 = e - 1
    BY <1>3, <1>7
  <2>2. y \in Nat /\ z = 2 * y
    BY <2>1, TwoToTyped, TwoToStep
  <2> HIDE DEF z, y
  <2>3. S * y \in Nat /\ S * z = 2 * (S * y)
    BY <1>1, <2>2
  <2>4. a >= S * z
    BY <1>2, <1>3 DEF z
  <2>5. h >= S * y
    BY <1>1, <2>3, <2>4
  <2>6. QED BY <2>5 DEF y
<1>8. Scaled(h, e - 1)
  BY <1>3, <1>6, <1>7 DEF Scaled, S, z
<1>9. Exponent(h) = e - 1
  BY <1>1, <1>8, ScaledOnce
<1>10. h < a
  BY <1>1, WidthFacts DEF S
<1>11. QED BY <1>1, <1>4, <1>9, <1>10 DEF h, e, z

(* So the powers with these exponents solve the equation of Ulp, which is  *)
(* all that its definition asks for,                                       *)
LEMMA UlpUnfolds ==
  \A a \in Nat : Ulp[a] = IF a < Significands THEN 1 ELSE 2 * Ulp[a \div 2]
<1> DEFINE f == [a \in Nat |-> TwoTo[Exponent(a)]]
<1>1. ASSUME NEW a \in Nat
      PROVE  f[a] = IF a < Significands THEN 1 ELSE 2 * f[a \div 2]
  <2>1. CASE a < Significands
    <3>1. Scaled(a, 0)
      BY <2>1, TwoToStep, WidthFacts DEF Scaled
    <3>2. Exponent(a) = 0
      BY <3>1, ScaledOnce
    <3>3. QED BY <2>1, <3>2, TwoToStep
  <2>2. CASE ~(a < Significands)
    <3>1. a >= Significands
      BY <2>2, WidthFacts
    <3>2. a \div 2 \in Nat /\ TwoTo[Exponent(a)] = 2 * TwoTo[Exponent(a \div 2)]
      BY <3>1, HalfScaled
    <3>3. QED BY <2>2, <3>2
  <2>3. QED BY <2>1, <2>2
<1>2. f = [a \in Nat |-> IF a < Significands THEN 1 ELSE 2 * f[a \div 2]]
  BY <1>1
<1> HIDE DEF f
<1>3. \E g : g = [a \in Nat |-> IF a < Significands THEN 1 ELSE 2 * g[a \div 2]]
  BY <1>2
<1>4. Ulp = [a \in Nat |-> IF a < Significands THEN 1 ELSE 2 * Ulp[a \div 2]]
  BY <1>3 DEF Ulp
<1>5. QED BY <1>4

(* and there is no other solution.                                         *)
LEMMA UlpPower ==
  ASSUME NEW a \in Nat
  PROVE  Ulp[a] = TwoTo[Exponent(a)]
<1> DEFINE T == {b \in Nat : Ulp[b] # TwoTo[Exponent(b)]}
<1>1. SUFFICES ASSUME T # {} PROVE FALSE
  OBVIOUS
<1> DEFINE l == Min(T)
<1>2. l \in T /\ \A b \in T : l <= b
  <2> HIDE DEF T
  <2>1. T \subseteq Nat
    BY DEF T
  <2>2. QED BY <1>1, <2>1, MinFacts
<1> HIDE DEF l
<1>3. l \in Nat /\ Ulp[l] # TwoTo[Exponent(l)]
  BY <1>2
<1>4. CASE l < Significands
  <2>1. Scaled(l, 0)
    BY <1>3, <1>4, TwoToStep, WidthFacts DEF Scaled
  <2>2. Exponent(l) = 0 /\ Ulp[l] = 1
    BY <1>3, <1>4, <2>1, ScaledOnce, UlpUnfolds
  <2>3. QED BY <1>3, <2>2, TwoToStep
<1>5. CASE ~(l < Significands)
  <2>1. l >= Significands
    BY <1>3, <1>5, WidthFacts
  <2>2. /\ l \div 2 \in Nat /\ l \div 2 < l
        /\ TwoTo[Exponent(l)] = 2 * TwoTo[Exponent(l \div 2)]
    BY <1>3, <2>1, HalfScaled
  <2>3. Ulp[l] = 2 * Ulp[l \div 2]
    BY <1>3, <1>5, UlpUnfolds
  <2> DEFINE h == l \div 2
  <2> HIDE DEF h
  <2>4. h \in Nat /\ h < l
    BY <2>2 DEF h
  <2>5. h \notin T
    <3> HIDE DEF T
    <3>1. QED BY <1>2, <1>3, <2>4
  <2>6. Ulp[h] = TwoTo[Exponent(h)]
    BY <2>4, <2>5
  <2>7. QED BY <1>3, <2>2, <2>3, <2>6 DEF h
<1>6. QED BY <1>4, <1>5

(* Its double, if it is not negative.                                      *)
Up(a) == TwoTo[Exponent(a)] * Quotient(a, TwoTo[Exponent(a)])

(* A double is rounded as its magnitude.                                   *)
LEMMA RoundedNat ==
  ASSUME NEW a \in Nat
  PROVE  Up(a) \in Nat /\ Rounded(a) = Up(a) /\ Rounded(-a) = -Up(a)
<1>1. Exponent(a) \in Nat
  BY ExponentFacts DEF Scaled
<1> DEFINE q == TwoTo[Exponent(a)]
<1>2. q \in Nat \ {0}
  BY <1>1, TwoToTyped
<1>3. Rounded(a) = Nearest(a, q) /\ Rounded(-a) = Nearest(-a, q)
  <2>1. Magnitude(a) = a /\ Magnitude(-a) = a
    BY DEF Magnitude
  <2>2. QED BY <2>1, UlpPower DEF Rounded
<1> HIDE DEF q
<1>4. q * Quotient(a, q) \in Nat
  BY <1>2, NearestNat
<1>5. Rounded(a) = q * Quotient(a, q) /\ Rounded(-a) = -(q * Quotient(a, q))
  BY <1>2, <1>3, NearestNat
<1>6. QED BY <1>4, <1>5 DEF Up, q

(* Rounding passes no multiple of the scale, and stays in its bounds.      *)
LEMMA UpBounds ==
  ASSUME NEW a \in Nat, NEW q, q = TwoTo[Exponent(a)], NEW j \in Int
  PROVE  /\ q * j <= a => q * j <= Up(a)
         /\ a <= q * j => Up(a) <= q * j
<1>1. q \in Nat \ {0}
  BY ExponentFacts, TwoToTyped DEF Scaled
<1> DEFINE k == Quotient(a, q)
<1>2. k \in Nat /\ Up(a) = q * k
  BY <1>1, NearestNat DEF Up
<1>3. (q * j <= a => j <= k) /\ (a <= q * j => k <= j)
  BY <1>1, QuotientBounds
<1> HIDE DEF k
<1>4. (j <= k => q * j <= q * k) /\ (k <= j => q * k <= q * j)
  BY <1>1, <1>2, TimesMonotone
<1>5. QED BY <1>2, <1>3, <1>4

(* Rounding keeps the order, across scales as well.                        *)
LEMMA UpMonotone ==
  ASSUME NEW a \in Nat, NEW b \in Nat, a <= b
  PROVE  Up(a) <= Up(b)
<1> DEFINE e == Exponent(a)  f == Exponent(b)  p == TwoTo[e]  q == TwoTo[f]
<1>1. e \in Nat /\ f \in Nat /\ Scaled(a, e) /\ Scaled(b, f) /\ e <= f
  BY ExponentFacts, ScaledMonotone DEF Scaled
<1>2. p \in Nat \ {0} /\ q \in Nat \ {0} /\ One \in Nat \ {0} /\ Significands = 2 * One
  BY <1>1, TwoToTyped, WidthFacts
<1>3. CASE e = f
  <2> HIDE DEF e, f, p, q
  <2>1. Quotient(a, p) <= Quotient(b, p) /\ Quotient(a, p) \in Nat /\ Quotient(b, p) \in Nat
    BY <1>2, QuotientMonotone, NearestNat
  <2>2. p * Quotient(a, p) <= p * Quotient(b, p)
    BY <1>2, <2>1, TimesMonotone
  <2>3. Up(a) = p * Quotient(a, p) /\ Up(b) = p * Quotient(b, p)
    BY <1>3 DEF Up, e, f, p
  <2>4. QED BY <2>2, <2>3
<1>4. CASE e < f
  <2>1. a < Significands * p
    BY <1>1 DEF Scaled
  <2>2. f - 1 \in Nat /\ e <= f - 1 /\ f = (f - 1) + 1 /\ f > 0
    BY <1>1, <1>4
  <2> DEFINE r == TwoTo[f - 1]
  <2>3. r \in Nat \ {0} /\ q = 2 * r /\ p <= r
    <3> HIDE DEF e, f
    <3>1. TwoTo[(f - 1) + 1] = 2 * r
      BY <2>2, TwoToStep
    <3>2. r \in Nat \ {0} /\ p <= r
      BY <1>1, <2>2, TwoToTyped, TwoToApart
    <3>3. QED BY <2>2, <3>1, <3>2
  <2>4. b >= Significands * r
    BY <1>1, <2>2 DEF Scaled
  <2>5. /\ p * Significands <= r * Significands /\ p * Significands = Significands * p
        /\ r * Significands = q * One /\ r * Significands = Significands * r
    <3> HIDE DEF e, f, p, q, r
    <3>1. Significands \in Nat \ {0}
      BY <1>2
    <3>2. Significands * p <= Significands * r
      BY <1>2, <2>3, <3>1, TimesMonotone
    <3>3. r * (2 * One) = (2 * r) * One
      BY <1>2, <2>3
    <3>4. p * Significands = Significands * p /\ r * Significands = Significands * r
      BY <1>2, <2>3, <3>1
    <3>5. QED BY <1>2, <2>3, <3>2, <3>3, <3>4
  <2>6. a <= p * Significands /\ q * One <= b
    <3> HIDE DEF e, f, p, q, r
    <3>1. p * Significands \in Int /\ q * One \in Int
      BY <1>2
    <3>2. QED BY <2>1, <2>4, <2>5, <3>1
  <2>7. Up(a) <= p * Significands /\ q * One <= Up(b)
    BY <1>2, <2>6, UpBounds
  <2> HIDE DEF e, f, p, q, r
  <2>8. Up(a) \in Nat /\ Up(b) \in Nat /\ p * Significands \in Int /\ q * One \in Int
    BY <1>2, RoundedNat
  <2>9. QED BY <2>5, <2>7, <2>8
<1>5. QED BY <1>1, <1>3, <1>4

LEMMA PowerFacts ==
  ASSUME NEW m \in Nat
  PROVE  /\ Significands * TwoTo[m] = TwoTo[Precision + m]
         /\ One * TwoTo[m] = TwoTo[Precision - 1 + m]
         /\ Precision + m \in Nat /\ Precision - 1 + m \in Nat /\ Precision - 1 \in Nat
<1>1. Precision \in Nat /\ Precision - 1 \in Nat
  BY WidthFacts
<1>2. QED BY <1>1, TwoToSum DEF Significands, One

(* No rounding where the bits suffice.                                     *)
LEMMA UpExact ==
  ASSUME NEW k \in Nat, k <= Significands, NEW m \in Nat
  PROVE  /\ k * TwoTo[m] \in Nat
         /\ Up(k * TwoTo[m]) = k * TwoTo[m]
<1> DEFINE z == TwoTo[m]  a == k * z  e == Exponent(a)  q == TwoTo[e]
<1>1. z \in Nat \ {0} /\ a \in Nat /\ Significands \in Nat \ {0} /\ One \in Nat \ {0}
      /\ Significands = 2 * One
  BY TwoToTyped, WidthFacts
<1>2. e \in Nat /\ Scaled(a, e)
  <2> HIDE DEF a
  <2>1. QED BY <1>1, ExponentFacts DEF Scaled
<1>3. q \in Nat \ {0}
  BY <1>2, TwoToTyped
<1>4. \E j \in Int : a = q * j
  <2>1. CASE e <= m
    <3> DEFINE y == TwoTo[m - e]
    <3>1. y \in Nat /\ z = q * y
      <4> HIDE DEF e
      <4>1. QED BY <1>2, <2>1, TwoToApart
    <3> HIDE DEF z, q, y
    <3>2. a = q * (k * y) /\ k * y \in Int
      <4>1. k * (q * y) = q * (k * y)
        BY <1>3, <3>1
      <4>2. QED BY <3>1, <4>1
    <3>3. QED BY <3>2
  <2>2. CASE e > m
    <3> HIDE DEF e
    <3>1. e - 1 \in Nat /\ m <= e - 1 /\ e > 0 /\ e = (e - 1) + 1
      BY <1>2, <2>2
    <3> DEFINE r == TwoTo[e - 1]
    <3>2. r \in Nat \ {0} /\ z <= r /\ q = 2 * r
      <4>1. TwoTo[(e - 1) + 1] = 2 * r
        BY <3>1, TwoToStep
      <4>2. r \in Nat \ {0} /\ z <= r
        BY <3>1, TwoToTyped, TwoToApart
      <4>3. QED BY <3>1, <4>1, <4>2
    <3>3. a >= Significands * r
      BY <1>2, <3>1 DEF Scaled
    <3> HIDE DEF z, q, r
    <3>4. a <= Significands * z
      <4>1. z * k <= z * Significands
        BY <1>1, TimesMonotone
      <4>2. z * k = k * z /\ z * Significands = Significands * z
        BY <1>1
      <4>3. QED BY <4>1, <4>2
    <3>5. Significands * z <= Significands * r /\ Significands * z \in Int
          /\ Significands * r \in Int
      BY <1>1, <3>2, TimesMonotone
    <3>6. a = Significands * r
      <4> HIDE DEF a
      <4>1. QED BY <1>1, <3>3, <3>4, <3>5
    <3>7. (2 * One) * r = (2 * r) * One
      BY <1>1, <3>2
    <3>8. a = q * One /\ One \in Int
      <4> HIDE DEF a
      <4>1. QED BY <1>1, <3>2, <3>6, <3>7
    <3>9. QED BY <3>8
  <2>3. QED BY <1>2, <2>1, <2>2
<1>5. PICK j \in Int : a = q * j
  BY <1>4
<1> HIDE DEF a
<1>6. q * j <= Up(a) /\ Up(a) <= q * j
  <2>1. q * j <= a /\ a <= q * j
    BY <1>1, <1>5
  <2>2. QED BY <1>1, <2>1, UpBounds
<1>7. Up(a) = a
  BY <1>1, <1>5, <1>6, RoundedNat
<1>8. QED BY <1>1, <1>7 DEF a, z

(* A power of two, and 0, are doubles.                                     *)
LEMMA UpPower ==
  ASSUME NEW m \in Nat
  PROVE  Up(TwoTo[m]) = TwoTo[m]
<1> DEFINE z == TwoTo[m]
<1>1. z \in Nat /\ 1 * z = z /\ 1 <= Significands
  BY TwoToTyped, WidthFacts
<1>2. Up(1 * z) = 1 * z
  BY <1>1, UpExact
<1>3. QED BY <1>1, <1>2

LEMMA UpZero == Up(0) = 0
<1> DEFINE z == TwoTo[0]
<1>1. z \in Nat /\ 0 * z = 0
  BY TwoToTyped
<1>2. Up(0 * z) = 0 * z
  BY WidthFacts, UpExact
<1>3. QED BY <1>1, <1>2

(* The number below a power of two with more bits than a double has, is    *)
(* rounded up to that power.                                               *)
LEMMA UpAlmostPower ==
  ASSUME NEW m \in Nat, m > Precision
  PROVE  /\ (TwoTo[m] - 1) * One \in Nat
         /\ Up((TwoTo[m] - 1) * One) = TwoTo[m] * One
<1>0. m - 1 \in Nat /\ Precision <= m - 1 /\ m = (m - 1) + 1 /\ Precision \in Nat
  BY WidthFacts
<1> DEFINE q == TwoTo[m - 1]  a == (TwoTo[m] - 1) * One
<1>1. q \in Nat \ {0} /\ TwoTo[m] = 2 * q /\ Significands <= q
      /\ (m - 1 > Precision => 2 * Significands <= q)
  <2>1. TwoTo[(m - 1) + 1] = 2 * q
    BY <1>0, TwoToStep
  <2>2. q \in Nat \ {0} /\ Significands <= q /\ (Precision < m - 1 => 2 * Significands <= q)
    BY <1>0, TwoToTyped, TwoToApart DEF Significands
  <2>3. QED BY <1>0, <2>1, <2>2
<1>2. One \in Nat \ {0} /\ Significands = 2 * One
  BY WidthFacts
<1> HIDE DEF q
<1>3. a = q * (Significands - 1) + (q - One) /\ a = q * Significands - One
      /\ (2 * q) * One = q * Significands /\ q * Significands \in Nat
  <2>1. a = (2 * q - 1) * One
    BY <1>1
  <2>2. (2 * q - 1) * One = (2 * q) * One - One /\ (2 * q) * One = q * (2 * One)
    BY <1>1, <1>2
  <2>3. q * (Significands - 1) = q * Significands - q /\ q * Significands \in Nat
    BY <1>1, <1>2
  <2>4. QED BY <1>1, <1>2, <2>1, <2>2, <2>3
<1>4. One < q /\ q - One \in Nat /\ q - One < q
  BY <1>1, <1>2
<1>5. a \in Nat
  <2>1. q * 1 <= q * Significands
    BY <1>1, <1>2, TimesMonotone
  <2> HIDE DEF a
  <2>2. QED BY <1>1, <1>2, <1>3, <1>4, <2>1
<1> HIDE DEF a
<1>6. Exponent(a) = m - 1
  <2>1. a < Significands * TwoTo[m - 1]
    <3>1. Significands * q = q * Significands
      BY <1>1, <1>2
    <3>2. QED BY <1>2, <1>3, <3>1 DEF q
  <2>2. ASSUME m - 1 > 0 PROVE a >= Significands * TwoTo[m - 1 - 1]
    <3> DEFINE r == TwoTo[m - 1 - 1]
    <3>1. m - 1 - 1 \in Nat /\ (m - 1 - 1) + 1 = m - 1
      BY <1>0, <2>2
    <3>2. r \in Nat \ {0} /\ q = 2 * r
      <4>1. TwoTo[(m - 1 - 1) + 1] = 2 * r
        BY <3>1, TwoToStep
      <4>2. QED BY <3>1, <4>1, TwoToTyped DEF q
    <3> HIDE DEF r
    <3>3. q * Significands = 2 * (Significands * r) /\ Significands * r \in Nat
      BY <1>2, <3>2
    <3>4. Significands * r >= One
      <4>1. Significands * 1 <= Significands * r
        BY <1>2, <3>2, TimesMonotone
      <4>2. QED BY <1>2, <3>3, <4>1
    <3>5. a >= Significands * r
      BY <1>2, <1>3, <3>3, <3>4
    <3>6. QED BY <3>5 DEF r
  <2>3. Scaled(a, m - 1)
    BY <1>0, <2>1, <2>2 DEF Scaled
  <2>4. QED BY <1>5, <2>3, ScaledOnce
<1>7. a \div q = Significands - 1 /\ a % q = q - One
  <2> DEFINE d == Significands - 1  r == q - One
  <2>1. d \in Int /\ r \in Nat /\ r < q /\ a = q * d + r
    BY <1>2, <1>3, <1>4
  <2> HIDE DEF d, r
  <2>2. a \div q = d /\ a % q = r
    BY <1>1, <1>5, <2>1, DivUnique
  <2>3. QED BY <2>2 DEF d, r
<1>8. Quotient(a, q) = Significands
  <2>1. 2 * (q - One) = 2 * q - Significands
    BY <1>1, <1>2
  <2>2. (Significands - 1) % 2 = 1
    BY <1>2
  <2>3. CASE m - 1 > Precision
    BY <1>1, <1>2, <1>7, <2>1, <2>3 DEF Quotient
  <2>4. CASE m - 1 = Precision
    <3>1. q = Significands
      BY <2>4 DEF q, Significands
    <3>2. QED BY <1>1, <1>2, <1>7, <2>1, <2>2, <3>1 DEF Quotient
  <2>5. QED BY <1>0, <2>3, <2>4
<1>9. Up(a) = q * Significands
  BY <1>6, <1>8 DEF Up, q
<1>10. QED BY <1>1, <1>3, <1>5, <1>9 DEF a

(* Doubles above a power of two are apart.                                 *)
LEMMA DoublesApart ==
  ASSUME NEW m \in Nat, m >= Precision, NEW a \in Nat, Up(a) = a, a > TwoTo[m]
  PROVE  a >= TwoTo[m] + TwoTo[m - Precision + 1]
<1> DEFINE e == Exponent(a)  q == TwoTo[e]  g == m - Precision + 1  y == TwoTo[m]  z == TwoTo[g]
<1>1. e \in Nat /\ Scaled(a, e) /\ Precision \in Nat /\ Precision >= 1
      /\ g \in Nat /\ g <= m /\ g - 1 \in Nat /\ g > 0
  BY ExponentFacts, WidthFacts DEF Scaled
<1>2. q \in Nat \ {0} /\ y \in Nat \ {0} /\ z \in Nat \ {0} /\ z <= y
  BY <1>1, TwoToTyped, TwoToApart, SMTT(20)
<1> DEFINE k == Quotient(a, q)
<1>3. k \in Nat /\ a = q * k
  BY <1>2, NearestNat DEF Up
<1>4. e >= g
  <2>1. SUFFICES ASSUME e <= g - 1 PROVE FALSE
    BY <1>1
  <2>2. Significands * TwoTo[e] <= y /\ a < Significands * TwoTo[e]
    <3>1. Precision + e <= m /\ Precision + e \in Nat
      BY <1>1, <2>1
    <3>2. TwoTo[Precision + e] <= y
      BY <3>1, TwoToApart
    <3>3. QED BY <1>1, <3>2, PowerFacts DEF Scaled
  <2>3. a <= y /\ ~(a <= y)
    <3>1. Significands * TwoTo[e] \in Int
      BY <1>2, WidthFacts
    <3>2. QED BY <1>2, <2>2, <3>1
  <2>4. QED BY <2>3
<1>5. z <= q
  BY <1>1, <1>4, TwoToApart
<1>6. CASE e <= m
  <2> DEFINE w == TwoTo[m - e]
  <2>1. w \in Nat /\ y = q * w
    BY <1>1, <1>6, TwoToApart
  <2> HIDE DEF e, q, y, z, k, w, g
  <2>2. w < k
    <3>1. q * w < q * k
      BY <1>3, <2>1 DEF y
    <3>2. QED BY <1>2, <1>3, <2>1, <3>1, TimesMonotone
  <2>3. q * w + q <= q * k
    BY <1>2, <1>3, <2>1, <2>2, TimesMonotone
  <2>4. a >= y + z
    BY <1>2, <1>3, <1>5, <2>1, <2>3
  <2>5. QED BY <2>4 DEF y, z, g
<1>7. CASE e > m
  <2> HIDE DEF e, q, y, z, k, g
  <2>1. 2 * y <= q
    BY <1>1, <1>7, TwoToApart DEF y, q
  <2>2. k >= 1
    <3>1. k # 0
      <4>1. q * 0 = 0
        BY <1>2
      <4>2. QED BY <1>2, <1>3, <4>1 DEF y
    <3>2. QED BY <1>3, <3>1
  <2>3. q * 1 <= q * k
    BY <1>2, <1>3, <2>2, TimesMonotone
  <2>4. a >= y + z
    BY <1>2, <1>3, <2>1, <2>3
  <2>5. QED BY <2>4 DEF y, z, g
<1>8. QED BY <1>1, <1>6, <1>7

(* The same of negative numbers.                                           *)
LEMMA RoundedTyped ==
  ASSUME NEW n \in Int
  PROVE  /\ Rounded(n) \in Int
         /\ n >= 0 => Rounded(n) = Up(n) /\ Rounded(n) >= 0
         /\ n <= 0 => Rounded(n) = -Up(-n) /\ Rounded(n) <= 0
<1>1. CASE n >= 0
  <2>1. n \in Nat /\ (n = 0 => -n = n)
    BY <1>1
  <2>2. Up(n) \in Nat /\ Rounded(n) = Up(n)
    BY <2>1, RoundedNat
  <2>3. n = 0 => Up(n) = 0
    BY UpZero
  <2>4. QED BY <1>1, <2>1, <2>2, <2>3
<1>2. CASE n < 0
  <2>1. -n \in Nat /\ -(-n) = n
    BY <1>2
  <2>2. Up(-n) \in Nat /\ Rounded(-(-n)) = -Up(-n)
    BY <2>1, RoundedNat
  <2>3. QED BY <1>2, <2>1, <2>2
<1>3. QED BY <1>1, <1>2

LEMMA RoundedMonotone ==
  ASSUME NEW m \in Int, NEW n \in Int, m <= n
  PROVE  Rounded(m) <= Rounded(n)
<1>1. CASE m >= 0
  <2>1. m \in Nat /\ n \in Nat
    BY <1>1
  <2>2. Up(m) <= Up(n)
    BY <2>1, UpMonotone
  <2>3. QED BY <1>1, <2>1, <2>2, RoundedTyped
<1>2. CASE m < 0 /\ n >= 0
  BY <1>2, RoundedTyped
<1>3. CASE m < 0 /\ n < 0
  <2>1. -m \in Nat /\ -n \in Nat /\ -n <= -m
    BY <1>3
  <2>2. Up(-n) <= Up(-m) /\ Up(-n) \in Nat /\ Up(-m) \in Nat
    BY <2>1, UpMonotone, RoundedNat
  <2>3. Rounded(m) = -Up(-m) /\ Rounded(n) = -Up(-n)
    BY <1>3, RoundedTyped
  <2>4. QED BY <2>2, <2>3
<1>4. QED BY <1>1, <1>2, <1>3

(* The double of an integer.                                               *)
OfInteger(i) == Rounded(i * One)

(* Conversion to double keeps the order.                                   *)
LEMMA OfIntegerFacts ==
  /\ \A i \in Int : /\ i * One \in Int /\ OfInteger(i) \in Int
                    /\ ToDouble(i) = Finite(OfInteger(i))
  /\ \A i, j \in Int : i <= j => OfInteger(i) <= OfInteger(j)
<1>1. One \in Nat \ {0}
  BY WidthFacts
<1>2. \A i \in Int : i * One \in Int
  BY <1>1
<1>3. \A i \in Int : OfInteger(i) \in Int /\ ToDouble(i) = Finite(OfInteger(i))
  BY <1>2, RoundedTyped DEF OfInteger, ToDouble
<1>4. ASSUME NEW i \in Int, NEW j \in Int, i <= j PROVE OfInteger(i) <= OfInteger(j)
  <2>1. i * One <= j * One
    <3>1. One * i <= One * j
      BY <1>1, <1>4, TimesMonotone
    <3>2. One * i = i * One /\ One * j = j * One
      BY <1>1
    <3>3. QED BY <3>1, <3>2
  <2>2. QED BY <1>2, <2>1, RoundedMonotone DEF OfInteger
<1>5. QED BY <1>2, <1>3, <1>4

(* Conversion to double is exact where the bits suffice.                   *)
LEMMA OfIntegerExact ==
  ASSUME NEW i \in Int, -Significands <= i, i <= Significands
  PROVE  OfInteger(i) = i * One
<1>1. Precision - 1 \in Nat /\ One = TwoTo[Precision - 1] /\ One \in Nat \ {0}
  BY WidthFacts DEF One
<1>2. CASE i >= 0
  <2>1. i \in Nat
    BY <1>2
  <2>2. i * One \in Nat /\ Up(i * One) = i * One
    BY <1>1, <2>1, UpExact
  <2>3. QED BY <2>2, RoundedTyped DEF OfInteger
<1>3. CASE i < 0
  <2>1. -i \in Nat /\ -i <= Significands
    BY <1>3, WidthFacts
  <2>2. (-i) * One \in Nat /\ Up((-i) * One) = (-i) * One
    BY <1>1, <2>1, UpExact
  <2>3. (-i) * One = -(i * One) /\ i * One \in Int
    BY <1>1
  <2>4. i * One <= 0 /\ -(i * One) = (-i) * One
    BY <2>2, <2>3
  <2>5. QED BY <2>2, <2>3, <2>4, RoundedTyped DEF OfInteger
<1>4. QED BY <1>2, <1>3

(* The limits of the integers, by powers of two.                           *)
Long == TwoTo[LongBits - 1]
Word32 == TwoTo[IntBits - 1]

(* The limits, and how the widths of the types are related.                *)
LEMMA LimitFacts ==
  /\ Long \in Nat \ {0} /\ Word32 \in Nat \ {0} /\ 4 * Word32 <= Long
  /\ Word32 >= 2 /\ 2 * Word32 <= Significands /\ Significands >= 4
  /\ LongMin = -Long /\ LongMax = Long - 1 /\ UlongMax = 2 * Long - 1
  /\ IntMin = -Word32 /\ IntMax = Word32 - 1 /\ UintMax = 2 * Word32 - 1
  /\ TwoTo[LongBits] = 2 * Long
<1>1. /\ LongBits \in Nat /\ IntBits \in Nat /\ Precision \in Nat
      /\ IntBits >= 2 /\ Precision >= 2 /\ IntBits <= Precision /\ Precision + 2 <= LongBits
  BY WidthFacts
<1>2. LongBits - 1 \in Nat /\ IntBits - 1 \in Nat /\ (LongBits - 1) + 1 = LongBits
      /\ (IntBits - 1) + 1 = IntBits
  BY <1>1
<1>3. TwoTo[LongBits] = 2 * Long /\ TwoTo[IntBits] = 2 * Word32
  <2>1. TwoTo[(LongBits - 1) + 1] = 2 * Long
    BY <1>2, TwoToStep DEF Long
  <2>2. TwoTo[(IntBits - 1) + 1] = 2 * Word32
    BY <1>2, TwoToStep DEF Word32
  <2>3. QED BY <1>2, <2>1, <2>2
<1>4. Long \in Nat \ {0} /\ Word32 \in Nat \ {0}
  BY <1>2, TwoToTyped DEF Long, Word32
<1>5. 2 * Word32 <= Significands
  BY <1>1, <1>3, TwoToApart DEF Significands
<1>6. 2 * Significands <= Long
  BY <1>1, <1>2, TwoToApart DEF Significands, Long
<1>7. Word32 >= 2
  <2>1. IntBits - 1 > 0 /\ 0 \in Nat
    BY <1>1
  <2>2. 2 * TwoTo[0] <= Word32
    BY <1>2, <2>1, TwoToApart DEF Word32
  <2>3. QED BY <2>2, TwoToStep
<1>8. Significands \in Nat
  BY WidthFacts
<1>9. /\ LongMin = -Long /\ LongMax = Long - 1 /\ UlongMax = 2 * Long - 1
      /\ IntMin = -Word32 /\ IntMax = Word32 - 1 /\ UintMax = 2 * Word32 - 1
  BY <1>3 DEF LongMin, LongMax, UlongMax, IntMin, IntMax, UintMax, Long, Word32
<1>10. QED BY <1>3, <1>4, <1>5, <1>6, <1>7, <1>8, <1>9

(* What the bounds of in_range are as doubles: exact, or one above.        *)
LEMMA OfLimits ==
  /\ OfInteger(0) = 0
  /\ OfInteger(LongMin) = -(Long * One) /\ OfInteger(LongMax) = Long * One
  /\ OfInteger(UlongMax) = (2 * Long) * One
  /\ OfInteger(Long) = Long * One /\ OfInteger(2 * Long) = (2 * Long) * One
<1>1. LongBits - 1 \in Nat /\ LongBits \in Nat /\ LongBits - 1 > Precision /\ LongBits > Precision
      /\ One \in Nat \ {0}
  BY WidthFacts
<1>2. /\ Long \in Nat \ {0} /\ LongMin = -Long /\ LongMax = Long - 1 /\ UlongMax = 2 * Long - 1
      /\ TwoTo[LongBits] = 2 * Long /\ Long = TwoTo[LongBits - 1]
  BY LimitFacts DEF Long
<1>3. Up(Long * One) = Long * One /\ Up((2 * Long) * One) = (2 * Long) * One
  <2>1. /\ One * Long = TwoTo[Precision - 1 + (LongBits - 1)]
        /\ Precision - 1 + (LongBits - 1) \in Nat
        /\ One * (2 * Long) = TwoTo[Precision - 1 + LongBits] /\ Precision - 1 + LongBits \in Nat
    BY <1>1, <1>2, PowerFacts
  <2>2. Up(One * Long) = One * Long /\ Up(One * (2 * Long)) = One * (2 * Long)
    BY <2>1, UpPower
  <2>3. One * Long = Long * One /\ One * (2 * Long) = (2 * Long) * One
    BY <1>1, <1>2
  <2>4. QED BY <2>2, <2>3
<1>4. Long * One \in Nat /\ (2 * Long) * One \in Nat /\ -(Long * One) = (-Long) * One
      /\ (-Long) * One <= 0 /\ 0 * One = 0 /\ -((-Long) * One) = Long * One
  BY <1>1, <1>2
<1>5. OfInteger(Long) = Long * One /\ OfInteger(2 * Long) = (2 * Long) * One /\ OfInteger(0) = 0
  BY <1>3, <1>4, UpZero, RoundedTyped DEF OfInteger
<1>6. OfInteger(-Long) = -(Long * One)
  <2>1. (-Long) * One \in Int
    BY <1>4
  <2>2. QED BY <1>3, <1>4, <2>1, RoundedTyped DEF OfInteger
<1>7. (Long - 1) * One \in Nat /\ Up((Long - 1) * One) = Long * One
  BY <1>1, <1>2, UpAlmostPower
<1>8. (2 * Long - 1) * One \in Nat /\ Up((2 * Long - 1) * One) = (2 * Long) * One
  BY <1>1, <1>2, UpAlmostPower
<1>9. OfInteger(Long - 1) = Long * One /\ OfInteger(2 * Long - 1) = (2 * Long) * One
  BY <1>7, <1>8, RoundedTyped DEF OfInteger
<1>10. QED BY <1>2, <1>5, <1>6, <1>9

(* in_range tells the integers of int and of unsigned int from the others. *)
LEMMA IntsInRange ==
  ASSUME NEW i \in Int
  PROVE  /\ in_range(ToDouble(i), IntMin, IntMax) <=> i \in IntMin .. IntMax
         /\ in_range(ToDouble(i), 0, UintMax) <=> i \in 0 .. UintMax
<1>1. /\ Word32 \in Nat /\ Word32 >= 2 /\ 2 * Word32 <= Significands /\ Significands \in Nat
      /\ IntMin = -Word32 /\ IntMax = Word32 - 1 /\ UintMax = 2 * Word32 - 1
      /\ One \in Nat \ {0}
  BY LimitFacts, WidthFacts
<1>2. ASSUME NEW lo \in Int, NEW hi \in Int, -Significands < lo, lo <= hi, hi < Significands
      PROVE  in_range(ToDouble(i), lo, hi) <=> i \in lo .. hi
  <2> DEFINE f(k) == OfInteger(k)
  <2>1. \A k \in Int : f(k) \in Int /\ ToDouble(k) = Finite(f(k))
    BY OfIntegerFacts
  <2>2. \A j, k \in Int : j <= k => f(j) <= f(k)
    BY OfIntegerFacts
  <2>3. /\ f(lo) = lo * One /\ f(hi) = hi * One
        /\ f(lo - 1) = (lo - 1) * One /\ f(hi + 1) = (hi + 1) * One
    <3>1. lo - 1 \in Int /\ hi + 1 \in Int /\ -Significands <= lo - 1 /\ lo - 1 <= Significands
          /\ -Significands <= hi + 1 /\ hi + 1 <= Significands
      BY <1>1, <1>2
    <3>2. -Significands <= lo /\ lo <= Significands /\ -Significands <= hi /\ hi <= Significands
      BY <1>1, <1>2
    <3>3. QED BY <3>1, <3>2, OfIntegerExact
  <2> HIDE DEF f
  <2>4. in_range(ToDouble(i), lo, hi) <=> f(lo) <= f(i) /\ f(i) <= f(hi)
    BY <2>1 DEF in_range, Finite
  <2>5. (lo - 1) * One < lo * One /\ hi * One < (hi + 1) * One
    BY <1>1
  <2>6. i < lo => f(i) < f(lo)
    <3>1. i < lo => f(i) <= f(lo - 1)
      BY <2>2
    <3>2. QED BY <2>1, <2>3, <2>5, <3>1
  <2>7. i > hi => f(i) > f(hi)
    <3>1. i > hi => f(hi + 1) <= f(i)
      BY <2>2
    <3>2. QED BY <2>1, <2>3, <2>5, <3>1
  <2>8. i \in lo .. hi => f(lo) <= f(i) /\ f(i) <= f(hi)
    BY <2>2
  <2>9. QED BY <2>1, <2>4, <2>6, <2>7, <2>8
<1>3. in_range(ToDouble(i), IntMin, IntMax) <=> i \in IntMin .. IntMax
  <2>1. IntMin \in Int /\ IntMax \in Int /\ -Significands < IntMin /\ IntMin <= IntMax
        /\ IntMax < Significands
    BY <1>1
  <2>2. QED BY <1>2, <2>1
<1>4. in_range(ToDouble(i), 0, UintMax) <=> i \in 0 .. UintMax
  <2>1. UintMax \in Int /\ -Significands < 0 /\ 0 <= UintMax /\ UintMax < Significands
    BY <1>1
  <2>2. QED BY <1>2, <2>1
<1>5. QED BY <1>3, <1>4

(* What a cast leaves of a double.                                         *)
LEMMA TruncatedBounds ==
  ASSUME NEW n \in Int, NEW c \in Nat
  PROVE  /\ Truncated(n) \in Int
         /\ c * One <= n => c <= Truncated(n)
         /\ n < c * One => Truncated(n) < c \/ (c = 0 /\ Truncated(n) <= 0)
         /\ -(c * One) <= n => -c <= Truncated(n)
         /\ n <= -(c * One) => Truncated(n) <= -c
<1>1. One \in Nat \ {0} /\ c * One = One * c /\ One * c \in Nat
  BY WidthFacts
<1> DEFINE a == Magnitude(n)  d == a \div One  r == a % One
<1>2. a \in Nat /\ (n >= 0 => a = n) /\ (n < 0 => a = -n)
  BY DEF Magnitude
<1>3. d \in Nat /\ r \in Nat /\ r < One /\ a = One * d + r
  <2> HIDE DEF a
  <2>1. QED BY <1>1, <1>2, DivFacts
<1>4. Truncated(n) = IF n < 0 THEN -d ELSE d
  <2>1. Truncated(n) = Signum(n) * d
    BY DEF Truncated
  <2>2. (n < 0 => Signum(n) = -1) /\ (n >= 0 => Signum(n) = 1)
    BY DEF Signum
  <2> HIDE DEF d, a
  <2>3. QED BY <1>3, <2>1, <2>2
<1> HIDE DEF a, d, r
<1>5. One * c <= a => c <= d
  BY <1>1, <1>3, TimesMonotone
<1>6. a < One * c => d < c
  <2>1. One * d <= a
    BY <1>1, <1>3
  <2>2. a < One * c => One * d < One * c
    BY <1>1, <1>2, <1>3, <2>1
  <2>3. QED BY <1>1, <1>3, <2>2, TimesMonotone
<1>7. a <= One * c => d <= c
  <2>1. One * d <= a
    BY <1>1, <1>3
  <2>2. a <= One * c => One * d <= One * c
    BY <1>1, <1>2, <1>3, <2>1
  <2>3. QED BY <1>1, <1>3, <2>2, TimesMonotone
<1>8. CASE n >= 0
  BY <1>1, <1>2, <1>3, <1>4, <1>5, <1>6, <1>7, <1>8
<1>9. CASE n < 0
  BY <1>1, <1>2, <1>3, <1>4, <1>5, <1>6, <1>7, <1>9
<1>10. QED BY <1>8, <1>9

(* A cast gets an integer back.                                            *)
LEMMA TruncatedInteger ==
  ASSUME NEW i \in Int
  PROVE  Truncated(i * One) = i
<1>1. One \in Nat \ {0} /\ i * One \in Int
  BY WidthFacts
<1>2. CASE i >= 0
  <2>1. i \in Nat /\ i + 1 \in Nat /\ i * One <= i * One /\ i * One < (i + 1) * One
    BY <1>1, <1>2
  <2>2. i <= Truncated(i * One) /\ Truncated(i * One) < i + 1 /\ Truncated(i * One) \in Int
    BY <1>1, <1>2, <2>1, TruncatedBounds
  <2>3. QED BY <2>2
<1>3. CASE i < 0
  <2>1. -i \in Nat /\ -((-i) * One) = i * One
    BY <1>1, <1>3
  <2>2. -((-i) * One) <= i * One /\ i * One <= -((-i) * One)
    BY <1>1, <2>1
  <2>3. -(-i) <= Truncated(i * One) /\ Truncated(i * One) <= -(-i) /\ Truncated(i * One) \in Int
    BY <1>1, <2>1, <2>2, TruncatedBounds
  <2>4. QED BY <2>3
<1>4. QED BY <1>2, <1>3

(* A double that is below -Long is so by as much as the cast drops.        *)
LEMMA DoubleBelowLong ==
  ASSUME NEW n \in Int, n = Rounded(n), n < -(Long * One)
  PROVE  n <= -((Long + 1) * One)
<1> DEFINE m == Precision - 1 + (LongBits - 1)
<1>1. /\ LongBits - 1 \in Nat /\ Precision - 1 \in Nat /\ Precision - 1 <= LongBits - 1
      /\ One \in Nat \ {0} /\ Long \in Nat \ {0} /\ m \in Nat /\ m >= Precision
      /\ m - Precision + 1 = LongBits - 1
  BY WidthFacts, LimitFacts
<1>2. TwoTo[m] = Long * One
  <2>1. One * TwoTo[LongBits - 1] = TwoTo[m]
    BY <1>1, PowerFacts
  <2>2. One * Long = Long * One
    BY <1>1
  <2>3. QED BY <2>1, <2>2 DEF Long
<1>3. One <= Long
  BY <1>1, TwoToApart DEF One, Long
<1> DEFINE a == -n
<1>4. a \in Nat /\ Up(a) = a /\ a > Long * One
  <2>1. Long * One \in Nat
    BY <1>1
  <2>2. n <= 0 /\ -n \in Nat
    BY <2>1
  <2>3. n = -Up(-n) /\ Up(-n) \in Nat
    BY <2>2, RoundedTyped, RoundedNat
  <2>4. QED BY <2>1, <2>2, <2>3
<1> HIDE DEF m
<1>5. a >= TwoTo[m] + TwoTo[m - Precision + 1]
  <2> HIDE DEF a
  <2>1. QED BY <1>1, <1>2, <1>4, DoublesApart
<1>6. a >= Long * One + Long
  BY <1>1, <1>2, <1>5 DEF Long
<1>7. (Long + 1) * One = Long * One + One
  BY <1>1
<1>8. QED BY <1>1, <1>3, <1>6, <1>7

-----------------------------------------------------------------------------
(* Conversions of numbers.                                                 *)

(* The number a Value is converted from, and what a cast leaves of it.     *)
LEMMA NumberFacts ==
  ASSUME NEW u, InType(u), isNumeric(u)
  PROVE  /\ isInteger(u) => \E i \in LongMin .. UlongMax :
              /\ Number(u) = Finite(i * One) /\ Truncated(Number(u).n) = i
              /\ Rounded(Number(u).n) = OfInteger(i)
              /\ u.type = "SignedInt" => u.SignedInt = i /\ i <= LongMax
              /\ u.type = "UnsignedInt" => u.UnsignedInt = i /\ i >= 0
         /\ u.type = "Float" =>
              /\ Number(u) = u.Float
              /\ u.Float.kind = "finite" => u.Float.n \in Int /\ u.Float.n = Rounded(u.Float.n)
<1>1. /\ Long \in Nat \ {0} /\ LongMin = -Long /\ LongMax = Long - 1 /\ UlongMax = 2 * Long - 1
  BY LimitFacts
<1>2. CASE u.type = "SignedInt"
  <2>1. u.SignedInt \in LongMin .. LongMax /\ Number(u) = Finite(u.SignedInt * One)
    BY <1>2 DEF InType, Number
  <2>2. u.SignedInt \in Int /\ u.SignedInt \in LongMin .. UlongMax /\ u.SignedInt <= LongMax
    BY <1>1, <2>1
  <2>3. Number(u).n = u.SignedInt * One
    BY <2>1 DEF Finite
  <2>4. QED BY <1>2, <2>1, <2>2, <2>3, TruncatedInteger DEF OfInteger
<1>3. CASE u.type = "UnsignedInt"
  <2>1. u.UnsignedInt \in 0 .. UlongMax /\ Number(u) = Finite(u.UnsignedInt * One)
    BY <1>3 DEF InType, Number
  <2>2. u.UnsignedInt \in Int /\ u.UnsignedInt \in LongMin .. UlongMax /\ u.UnsignedInt >= 0
    BY <1>1, <2>1
  <2>3. Number(u).n = u.UnsignedInt * One
    BY <2>1 DEF Finite
  <2>4. QED BY <1>3, <2>1, <2>2, <2>3, TruncatedInteger DEF OfInteger
<1>4. CASE u.type = "Float"
  <2>1. Number(u) = u.Float
    BY <1>4 DEF Number
  <2>2. u.Float.kind = "finite" => u.Float.n \in Int /\ u.Float.n = Rounded(u.Float.n)
    BY <1>4 DEF InType, IsDouble, Special
  <2>3. QED BY <1>4, <2>1, <2>2 DEF isInteger
<1>5. QED BY <1>2, <1>3, <1>4 DEF isNumeric, isInteger


(* A double converted to 64 bits is what fits, or at the edge something    *)
(* that no int and no unsigned int can be.                                 *)
LEMMA FloatToLong ==
  ASSUME NEW u, InType(u), u.type = "Float", NEW c
  PROVE  LET i == FloatAsLong(c, u.Float)
         IN  \/ i = WhatFits(u, LongMin, LongMax)
             \/ AtEdge(u, LongMax) /\ i \in {0, LongMax, LongMin}
<1> DEFINE d == u.Float  i == FloatAsLong(c, d)  t == Truncated(d.n)
<1>1. /\ Long \in Nat \ {0} /\ LongMin = -Long /\ LongMax = Long - 1 /\ One \in Nat \ {0}
      /\ LongMin \in Int /\ LongMax \in Int
  BY LimitFacts, WidthFacts
<1>2. /\ Number(u) = d
      /\ d.kind = "finite" => d.n \in Int /\ d.n = Rounded(d.n)
  BY NumberFacts DEF isNumeric
<1>3. WhatFits(u, LongMin, LongMax) =
        IF d.kind = "finite" /\ LongMin <= t /\ t <= LongMax THEN t ELSE 0
  BY <1>2 DEF WhatFits
<1>4. AtEdge(u, LongMax) <=>
        d.kind = "finite" /\ t > LongMax /\ Rounded(d.n) = (LongMax + 1) * One
  BY <1>2 DEF AtEdge
<1>5. in_range(d, LongMin, LongMax) <=>
        d.kind = "finite" /\ -(Long * One) <= d.n /\ d.n <= Long * One
  <2>1. ToDouble(LongMin).n = -(Long * One) /\ ToDouble(LongMax).n = Long * One
    BY <1>1, OfIntegerFacts, OfLimits DEF Finite
  <2>2. QED BY <2>1 DEF in_range
<1> DEFINE good == in_range(d, LongMin, LongMax)  fits == t \in LongMin .. LongMax
<1>10. /\ ~good => i = 0
       /\ good /\ fits => i = t
  <2> HIDE DEF good, fits
  <2>1. /\ ~in_range(d, LongMin, LongMax) <=> ~good
        /\ Truncated(d.n) \in LongMin .. LongMax <=> fits
    BY Zenon DEF good, fits
  <2>2. QED BY <2>1 DEF FloatAsLong, Cast
<1>6. CASE d.kind # "finite"
  BY <1>3, <1>5, <1>6, <1>10
<1>7. CASE d.kind = "finite" /\ ~in_range(d, LongMin, LongMax)
  <2>1. i = 0
    BY <1>7, <1>10
  <2>2. Long * One \in Nat /\ d.n \in Int /\ t \in Int
    BY <1>1, <1>2, <1>7, TruncatedBounds
  <2>3. CASE d.n < -(Long * One)
    <3>1. d.n <= -((Long + 1) * One) /\ Long + 1 \in Nat
      BY <1>1, <1>2, <1>7, <2>3, DoubleBelowLong
    <3>2. t <= -(Long + 1)
      BY <2>2, <3>1, TruncatedBounds
    <3>3. ~(LongMin <= t)
      BY <1>1, <2>2, <3>2
    <3>4. QED BY <1>3, <2>1, <3>3
  <2>4. CASE d.n > Long * One
    <3>1. Long <= t
      BY <1>1, <2>2, <2>4, TruncatedBounds
    <3>2. ~(t <= LongMax)
      BY <1>1, <2>2, <3>1
    <3>3. QED BY <1>3, <2>1, <3>2
  <2>5. QED BY <1>5, <1>7, <2>2, <2>3, <2>4
<1>8. CASE d.kind = "finite" /\ in_range(d, LongMin, LongMax)
  <2>1. d.n \in Int /\ -(Long * One) <= d.n /\ d.n <= Long * One /\ t \in Int
    BY <1>1, <1>2, <1>5, <1>8, TruncatedBounds
  <2>2. LongMin <= t
    BY <1>1, <2>1, TruncatedBounds
  <2>3. CASE t <= LongMax
    <3>1. t \in LongMin .. LongMax
      BY <1>1, <2>1, <2>2, <2>3
    <3>2. i = t
      BY <1>8, <1>10, <3>1
    <3>3. QED BY <1>3, <1>8, <2>2, <2>3, <3>2
  <2>4. CASE t > LongMax
    <3>1. d.n = Long * One
      <4>1. SUFFICES ASSUME d.n < Long * One PROVE FALSE
        BY <1>1, <2>1
      <4>2. t < Long
        BY <1>1, <2>1, <4>1, TruncatedBounds
      <4>3. QED BY <1>1, <2>1, <2>4, <4>2
    <3>2. AtEdge(u, LongMax)
      BY <1>1, <1>2, <1>4, <1>8, <2>4, <3>1
    <3>3. i \in {LongMax, LongMin}
      <4>1. t \notin LongMin .. LongMax
        BY <1>1, <2>1, <2>4
      <4>2. QED BY <1>8, <4>1 DEF FloatAsLong, Cast
    <3>4. QED BY <3>2, <3>3
  <2>5. QED BY <1>1, <2>1, <2>3, <2>4
<1>9. QED BY <1>6, <1>7, <1>8

LEMMA FloatToUlong ==
  ASSUME NEW u, InType(u), u.type = "Float", NEW c
  PROVE  LET i == FloatAsUlong(c, u.Float)
         IN  \/ i = WhatFits(u, 0, UlongMax)
             \/ AtEdge(u, UlongMax) /\ i \in {0, UlongMax}
<1> DEFINE d == u.Float  i == FloatAsUlong(c, d)  t == Truncated(d.n)  H == 2 * Long
<1>1. /\ H \in Nat \ {0} /\ UlongMax = H - 1 /\ One \in Nat \ {0} /\ UlongMax \in Int
  BY LimitFacts, WidthFacts
<1>2. /\ Number(u) = d
      /\ d.kind = "finite" => d.n \in Int /\ d.n = Rounded(d.n)
  BY NumberFacts DEF isNumeric
<1>3. WhatFits(u, 0, UlongMax) =
        IF d.kind = "finite" /\ 0 <= t /\ t <= UlongMax THEN t ELSE 0
  BY <1>2 DEF WhatFits
<1>4. AtEdge(u, UlongMax) <=>
        d.kind = "finite" /\ t > UlongMax /\ Rounded(d.n) = (UlongMax + 1) * One
  BY <1>2 DEF AtEdge
<1>5. in_range(d, 0, UlongMax) <=>
        d.kind = "finite" /\ 0 <= d.n /\ d.n <= H * One
  <2>1. ToDouble(0).n = 0 /\ ToDouble(UlongMax).n = H * One
    BY <1>1, OfIntegerFacts, OfLimits DEF Finite
  <2>2. QED BY <2>1 DEF in_range
<1> HIDE DEF H
<1> DEFINE good == in_range(d, 0, UlongMax)  fits == t \in 0 .. UlongMax
<1>10. /\ ~good => i = 0
       /\ good /\ fits => i = t
  <2> HIDE DEF good, fits
  <2>1. (~in_range(d, 0, UlongMax) <=> ~good) /\ (Truncated(d.n) \in 0 .. UlongMax <=> fits)
    BY Zenon DEF good, fits
  <2>2. QED BY <2>1 DEF FloatAsUlong, Cast
<1>6. CASE d.kind # "finite"
  BY <1>3, <1>5, <1>6, <1>10
<1>7. CASE d.kind = "finite" /\ ~in_range(d, 0, UlongMax)
  <2>1. i = 0
    BY <1>7, <1>10
  <2>2. H * One \in Nat /\ d.n \in Int /\ t \in Int
    BY <1>1, <1>2, <1>7, TruncatedBounds
  <2>3. CASE d.n < 0
    <3>1. d.n <= -(0 * One) /\ 0 \in Nat
      BY <1>1, <2>2, <2>3
    <3>2. t <= -0
      BY <2>2, <3>1, TruncatedBounds
    <3>3. 0 <= t => t = 0
      BY <2>2, <3>2
    <3>4. QED BY <1>3, <2>1, <3>3
  <2>4. CASE d.n > H * One
    <3>1. H <= t
      BY <1>1, <2>2, <2>4, TruncatedBounds
    <3>2. ~(t <= UlongMax)
      BY <1>1, <2>2, <3>1
    <3>3. QED BY <1>3, <2>1, <3>2
  <2>5. QED BY <1>5, <1>7, <2>2, <2>3, <2>4
<1>8. CASE d.kind = "finite" /\ in_range(d, 0, UlongMax)
  <2>1. d.n \in Int /\ 0 <= d.n /\ d.n <= H * One /\ t \in Int
    BY <1>1, <1>2, <1>5, <1>8, TruncatedBounds
  <2>2. 0 <= t
    <3>1. 0 * One <= d.n /\ 0 \in Nat
      BY <1>1, <2>1
    <3>2. QED BY <2>1, <3>1, TruncatedBounds
  <2>3. CASE t <= UlongMax
    <3>1. t \in 0 .. UlongMax
      BY <1>1, <2>1, <2>2, <2>3
    <3>2. i = t
      BY <1>8, <1>10, <3>1
    <3>3. QED BY <1>3, <1>8, <2>2, <2>3, <3>2
  <2>4. CASE t > UlongMax
    <3>1. d.n = H * One
      <4>1. SUFFICES ASSUME d.n < H * One PROVE FALSE
        BY <1>1, <2>1
      <4>2. t < H
        BY <1>1, <2>1, <4>1, TruncatedBounds
      <4>3. QED BY <1>1, <2>1, <2>4, <4>2
    <3>2. AtEdge(u, UlongMax)
      BY <1>1, <1>2, <1>4, <1>8, <2>4, <3>1
    <3>3. i \in {0, UlongMax}
      <4>1. t \notin 0 .. UlongMax
        BY <1>1, <2>1, <2>4
      <4>2. QED BY <1>8, <4>1 DEF FloatAsUlong, Cast
    <3>4. QED BY <3>2, <3>3
  <2>5. QED BY <1>1, <2>1, <2>3, <2>4
<1>9. QED BY <1>6, <1>7, <1>8

(* Three quarters of the range of an unsigned long long are a double, so   *)
(* the numbers next to LongMax + 1 stay below them.                        *)
LEMMA NextToLong ==
  ASSUME NEW n \in Int, OfInteger(n) <= Long * One
  PROVE  n < 2 * Long - Word32
<1>1. /\ Long \in Nat \ {0} /\ Word32 \in Nat /\ 4 * Word32 <= Long /\ Significands >= 4
      /\ Significands \in Nat /\ One \in Nat \ {0} /\ LongBits - 2 \in Nat /\ LongBits \in Nat
  BY LimitFacts, WidthFacts
<1> DEFINE h == TwoTo[LongBits - 2]
<1>2. h \in Nat \ {0} /\ Long = 2 * h
  <2>1. TwoTo[(LongBits - 2) + 1] = 2 * h /\ (LongBits - 2) + 1 = LongBits - 1
    BY <1>1, TwoToStep
  <2>2. QED BY <1>1, <2>1, TwoToTyped DEF Long
<1>3. OfInteger(3 * h) = (3 * h) * One
  <2> DEFINE m == Precision - 1 + (LongBits - 2)
  <2>1. m \in Nat /\ One * h = TwoTo[m]
    BY <1>1, PowerFacts
  <2>2. 3 * TwoTo[m] \in Nat /\ Up(3 * TwoTo[m]) = 3 * TwoTo[m]
    BY <1>1, <2>1, UpExact
  <2> HIDE DEF h, m
  <2>3. (3 * h) * One = 3 * TwoTo[m]
    BY <1>1, <1>2, <2>1
  <2>4. QED BY <2>2, <2>3, RoundedTyped DEF OfInteger
<1> HIDE DEF h
<1>4. SUFFICES ASSUME n >= 2 * Long - Word32 PROVE FALSE
  BY <1>1
<1>5. 3 * h \in Int /\ 3 * h <= n
  BY <1>1, <1>2, <1>4
<1>6. OfInteger(3 * h) <= OfInteger(n) /\ OfInteger(n) \in Int
  BY <1>5, OfIntegerFacts
<1>7. Long * One < (3 * h) * One
  <2>1. (3 * h) * One = (2 * h) * One + h * One /\ h * One > 0
    BY <1>1, <1>2
  <2>2. QED BY <1>1, <1>2, <2>1
<1>8. Long * One \in Int /\ (3 * h) * One \in Int
  BY <1>1, <1>2
<1>9. QED BY <1>3, <1>6, <1>7, <1>8

(* An unsigned number becomes a long long.                                 *)
LEMMA UnsignedToLong ==
  ASSUME NEW u, InType(u), u.type = "UnsignedInt", NEW c
  PROVE  LET i == asInt64(c, u)
         IN  \/ i = WhatFits(u, LongMin, LongMax)
             \/ AtEdge(u, LongMax) /\ i \in Int /\ i < IntMin
<1> DEFINE n == u.UnsignedInt  i == asInt64(c, u)
<1>1. /\ Long \in Nat \ {0} /\ LongMin = -Long /\ LongMax = Long - 1 /\ UlongMax = 2 * Long - 1
      /\ One \in Nat \ {0} /\ TwoTo[LongBits] = 2 * Long
      /\ Word32 \in Nat /\ IntMin = -Word32
  BY LimitFacts, WidthFacts
<1>2. /\ Number(u) = Finite(n * One) /\ Truncated(Number(u).n) = n
      /\ Rounded(Number(u).n) = OfInteger(n) /\ n \in 0 .. UlongMax /\ n \in Int
  <2>1. n \in 0 .. UlongMax /\ isInteger(u) /\ isNumeric(u)
    BY DEF InType, isInteger, isNumeric
  <2>2. PICK k \in LongMin .. UlongMax :
          /\ Number(u) = Finite(k * One) /\ Truncated(Number(u).n) = k
          /\ Rounded(Number(u).n) = OfInteger(k) /\ n = k
    BY <2>1, NumberFacts
  <2> HIDE DEF n
  <2>3. n \in Int
    BY <1>1, <2>1
  <2>4. QED BY <2>1, <2>2, <2>3
<1>3. WhatFits(u, LongMin, LongMax) = IF LongMin <= n /\ n <= LongMax THEN n ELSE 0
  BY <1>2 DEF WhatFits, Finite
<1>4. AtEdge(u, LongMax) <=> n > LongMax /\ OfInteger(n) = (LongMax + 1) * One
  BY <1>2 DEF AtEdge, Finite
<1>5. in_range(ToDouble(n), LongMin, LongMax) <=>
        -(Long * One) <= OfInteger(n) /\ OfInteger(n) <= Long * One
  <2>1. ToDouble(LongMin).n = -(Long * One) /\ ToDouble(LongMax).n = Long * One
    BY <1>1, OfIntegerFacts, OfLimits DEF Finite
  <2>2. ToDouble(n) = Finite(OfInteger(n))
    BY <1>2, OfIntegerFacts
  <2>3. QED BY <2>1, <2>2 DEF in_range, Finite
<1>6. i = IF in_range(ToDouble(n), LongMin, LongMax) THEN AsLong(n) ELSE 0
  BY DEF asInt64
<1>7. AsLong(n) = IF n < Long THEN n ELSE n - 2 * Long
  <2>1. n - LongMin = n + Long /\ n + Long \in Nat /\ 2 * Long \in Nat \ {0}
    BY <1>1, <1>2
  <2>2. AsLong(n) = ((n + Long) % (2 * Long)) - Long
    BY <1>1, <2>1 DEF AsLong
  <2> HIDE DEF n
  <2>3. CASE n < Long
    <3>1. n + Long < 2 * Long /\ n + Long = (2 * Long) * 0 + (n + Long)
      BY <1>1, <1>2, <2>3
    <3>2. (n + Long) % (2 * Long) = n + Long
      BY <2>1, <3>1, DivUnique
    <3>3. QED BY <1>1, <1>2, <2>2, <2>3, <3>2
  <2>4. CASE n >= Long
    <3>1. n - Long \in Nat /\ n - Long < 2 * Long /\ n + Long = (2 * Long) * 1 + (n - Long)
      BY <1>1, <1>2, <2>4
    <3>2. (n + Long) % (2 * Long) = n - Long
      BY <2>1, <3>1, DivUnique
    <3>3. QED BY <1>1, <1>2, <2>2, <2>4, <3>2
  <2>5. QED BY <1>1, <1>2, <2>3, <2>4
<1>8. OfInteger(n) \in Int /\ Long * One \in Nat
  BY <1>1, <1>2, OfIntegerFacts
<1> HIDE DEF n, i
<1>9. CASE n < Long
  <2>1. 0 <= n /\ n <= LongMax /\ LongMin <= n
    BY <1>1, <1>2, <1>9
  <2>2. OfInteger(0) <= OfInteger(n) /\ OfInteger(n) <= OfInteger(LongMax)
    BY <1>1, <1>2, <2>1, OfIntegerFacts
  <2>3. in_range(ToDouble(n), LongMin, LongMax)
    BY <1>5, <1>8, <2>2, OfLimits
  <2>4. i = n
    BY <1>6, <1>7, <1>9, <2>3
  <2>5. QED BY <1>3, <2>1, <2>4 DEF i
<1>10. CASE n >= Long
  <2>1. ~(n <= LongMax) /\ n > LongMax /\ LongMax + 1 = Long
    BY <1>1, <1>2, <1>10
  <2>2. WhatFits(u, LongMin, LongMax) = 0
    BY <1>3, <2>1
  <2>3. CASE ~in_range(ToDouble(n), LongMin, LongMax)
    BY <1>6, <2>2, <2>3 DEF i
  <2>4. CASE in_range(ToDouble(n), LongMin, LongMax)
    <3>1. OfInteger(Long) <= OfInteger(n)
      BY <1>1, <1>2, <1>10, OfIntegerFacts
    <3>2. OfInteger(n) = Long * One
      BY <1>5, <1>8, <2>4, <3>1, OfLimits
    <3>3. AtEdge(u, LongMax)
      BY <1>4, <2>1, <3>2
    <3>4. i = n - 2 * Long
      BY <1>1, <1>2, <1>6, <1>7, <1>10, <2>4
    <3>5. n < 2 * Long - Word32
      <4>1. OfInteger(n) <= Long * One
        BY <1>8, <3>2
      <4>2. QED BY <1>2, <4>1, NextToLong
    <3>6. i \in Int /\ i < IntMin
      BY <1>1, <1>2, <3>4, <3>5
    <3>7. QED BY <3>3, <3>6 DEF i
  <2>5. QED BY <2>3, <2>4
<1>11. QED BY <1>1, <1>2, <1>9, <1>10

(* A signed number becomes an unsigned long long.                          *)
LEMMA SignedToUlong ==
  ASSUME NEW u, InType(u), u.type = "SignedInt", NEW c
  PROVE  asUint64(c, u) = WhatFits(u, 0, UlongMax)
<1> DEFINE n == u.SignedInt  i == asUint64(c, u)
<1>1. /\ Long \in Nat \ {0} /\ LongMin = -Long /\ LongMax = Long - 1 /\ UlongMax = 2 * Long - 1
      /\ One \in Nat \ {0} /\ TwoTo[LongBits] = 2 * Long /\ Significands >= 4
      /\ Significands \in Nat
  BY LimitFacts, WidthFacts
<1>2. /\ Number(u) = Finite(n * One) /\ Truncated(Number(u).n) = n
      /\ n \in LongMin .. LongMax /\ n \in Int
  <2>1. n \in LongMin .. LongMax /\ isInteger(u) /\ isNumeric(u)
    BY DEF InType, isInteger, isNumeric
  <2>2. QED BY <1>1, <2>1, NumberFacts
<1>3. WhatFits(u, 0, UlongMax) = IF 0 <= n /\ n <= UlongMax THEN n ELSE 0
  BY <1>2 DEF WhatFits, Finite
<1>4. in_range(ToDouble(n), 0, UlongMax) <=>
        0 <= OfInteger(n) /\ OfInteger(n) <= (2 * Long) * One
  <2>1. ToDouble(0).n = 0 /\ ToDouble(UlongMax).n = (2 * Long) * One
    BY <1>1, OfIntegerFacts, OfLimits DEF Finite
  <2>2. ToDouble(n) = Finite(OfInteger(n))
    BY <1>2, OfIntegerFacts
  <2>3. QED BY <2>1, <2>2 DEF in_range, Finite
<1>5. i = IF in_range(ToDouble(n), 0, UlongMax) THEN AsUlong(n) ELSE 0
  BY DEF asUint64
<1>6. OfInteger(n) \in Int
  BY <1>2, OfIntegerFacts
<1> HIDE DEF n, i
<1>7. CASE n >= 0
  <2>1. 0 <= n /\ n <= UlongMax /\ n < 2 * Long /\ n \in Nat
    BY <1>1, <1>2, <1>7
  <2>2. OfInteger(0) <= OfInteger(n) /\ OfInteger(n) <= OfInteger(UlongMax)
    BY <1>1, <1>2, <2>1, OfIntegerFacts
  <2>3. in_range(ToDouble(n), 0, UlongMax)
    BY <1>4, <1>6, <2>2, OfLimits
  <2>4. AsUlong(n) = n
    <3>1. n = (2 * Long) * 0 + n /\ 2 * Long \in Nat \ {0}
      BY <1>1, <2>1
    <3>2. n % (2 * Long) = n
      BY <2>1, <3>1, DivUnique
    <3>3. QED BY <1>1, <3>2 DEF AsUlong
  <2>5. QED BY <1>3, <1>5, <2>1, <2>3, <2>4 DEF i
<1>8. CASE n < 0
  <2>1. OfInteger(n) <= OfInteger(-1) /\ OfInteger(-1) = (-1) * One
    <3>1. n <= -1 /\ -1 \in Int /\ -Significands <= -1 /\ -1 <= Significands
      BY <1>1, <1>2, <1>8
    <3>2. QED BY <1>2, <3>1, OfIntegerFacts, OfIntegerExact
  <2>2. OfInteger(n) < 0
    BY <1>1, <1>6, <2>1
  <2>3. ~in_range(ToDouble(n), 0, UlongMax)
    BY <1>4, <1>6, <2>2
  <2>4. ~(0 <= n)
    BY <1>2, <1>8
  <2>5. QED BY <1>3, <1>5, <2>3, <2>4 DEF i
<1>9. QED BY <1>2, <1>7, <1>8

-----------------------------------------------------------------------------
(* A conversion to 64 bits gives what fits or, at the edge, 0 or a number  *)
(* that no int is.                                                         *)
LEMMA ToLong ==
  ASSUME NEW u, InType(u), isNumeric(u), NEW c
  PROVE  /\ asInt64(c, u) \in Int
         /\ \/ asInt64(c, u) = WhatFits(u, LongMin, LongMax)
            \/ /\ AtEdge(u, LongMax)
               /\ asInt64(c, u) # 0 => asInt64(c, u) \notin IntMin .. IntMax
<1>1. /\ Long \in Nat \ {0} /\ LongMin = -Long /\ LongMax = Long - 1
      /\ Word32 \in Nat /\ Word32 >= 2 /\ 4 * Word32 <= Long
      /\ IntMin = -Word32 /\ IntMax = Word32 - 1
  BY LimitFacts
<1>2. Number(u).kind = "finite" => Truncated(Number(u).n) \in Int
  <2>1. CASE isInteger(u)
    <3>1. \A k \in LongMin .. UlongMax : k \in Int
      BY <1>1, LimitFacts
    <3>2. QED BY <2>1, <3>1, NumberFacts
  <2>2. CASE u.type = "Float"
    <3>1. Number(u).kind = "finite" => Number(u).n \in Int
      BY <2>2, NumberFacts
    <3>2. QED BY <3>1, TruncatedBounds, WidthFacts
  <2>3. QED BY <2>1, <2>2 DEF isNumeric
<1>3. WhatFits(u, LongMin, LongMax) \in Int
  BY <1>2 DEF WhatFits
<1>4. CASE u.type = "SignedInt"
  <2>1. asInt64(c, u) = u.SignedInt
    BY <1>4 DEF asInt64
  <2>2. u.SignedInt \in LongMin .. LongMax
    BY <1>4 DEF InType
  <2>3. Number(u).kind = "finite" /\ Truncated(Number(u).n) = u.SignedInt
    BY <1>4, NumberFacts DEF Finite, isInteger
  <2>4. LongMin <= u.SignedInt /\ u.SignedInt <= LongMax
    BY <1>1, <2>2
  <2>5. asInt64(c, u) = WhatFits(u, LongMin, LongMax)
    BY <2>1, <2>3, <2>4 DEF WhatFits
  <2>6. QED BY <1>3, <2>5
<1>5. CASE u.type = "UnsignedInt"
  <2>1. CASE asInt64(c, u) = WhatFits(u, LongMin, LongMax)
    BY <1>3, <2>1
  <2>2. CASE AtEdge(u, LongMax) /\ asInt64(c, u) \in Int /\ asInt64(c, u) < IntMin
    <3>1. asInt64(c, u) \notin IntMin .. IntMax
      BY <1>1, <2>2
    <3>2. QED BY <2>2, <3>1
  <2>3. QED BY <1>5, <2>1, <2>2, UnsignedToLong
<1>6. CASE u.type = "Float"
  <2>1. asInt64(c, u) = FloatAsLong(c, u.Float)
    BY <1>6 DEF asInt64
  <2>2. CASE FloatAsLong(c, u.Float) = WhatFits(u, LongMin, LongMax)
    BY <1>3, <2>1, <2>2
  <2>3. CASE AtEdge(u, LongMax) /\ FloatAsLong(c, u.Float) \in {0, LongMax, LongMin}
    <3>1. /\ LongMax \in Int /\ LongMin \in Int
          /\ LongMax \notin IntMin .. IntMax /\ LongMin \notin IntMin .. IntMax
      BY <1>1
    <3>2. QED BY <2>1, <2>3, <3>1
  <2>4. QED BY <1>6, <2>2, <2>3, FloatToLong
<1>7. QED BY <1>4, <1>5, <1>6 DEF isNumeric, isInteger

LEMMA ToUlong ==
  ASSUME NEW u, InType(u), isNumeric(u), NEW c
  PROVE  /\ asUint64(c, u) \in Int
         /\ \/ asUint64(c, u) = WhatFits(u, 0, UlongMax)
            \/ /\ AtEdge(u, UlongMax)
               /\ asUint64(c, u) # 0 => asUint64(c, u) \notin 0 .. UintMax
<1>1. /\ Long \in Nat \ {0} /\ UlongMax = 2 * Long - 1 /\ LongMin = -Long
      /\ Word32 \in Nat /\ Word32 >= 2 /\ 4 * Word32 <= Long /\ UintMax = 2 * Word32 - 1
  BY LimitFacts
<1>2. Number(u).kind = "finite" => Truncated(Number(u).n) \in Int
  <2>1. CASE isInteger(u)
    <3>1. \A k \in LongMin .. UlongMax : k \in Int
      BY <1>1
    <3>2. QED BY <2>1, <3>1, NumberFacts
  <2>2. CASE u.type = "Float"
    <3>1. Number(u).kind = "finite" => Number(u).n \in Int
      BY <2>2, NumberFacts
    <3>2. QED BY <3>1, TruncatedBounds, WidthFacts
  <2>3. QED BY <2>1, <2>2 DEF isNumeric
<1>3. WhatFits(u, 0, UlongMax) \in Int
  BY <1>2 DEF WhatFits
<1>4. CASE u.type = "UnsignedInt"
  <2>1. asUint64(c, u) = u.UnsignedInt
    BY <1>4 DEF asUint64
  <2>2. u.UnsignedInt \in 0 .. UlongMax
    BY <1>4 DEF InType
  <2>3. Number(u).kind = "finite" /\ Truncated(Number(u).n) = u.UnsignedInt
    BY <1>4, NumberFacts DEF Finite, isInteger
  <2>4. 0 <= u.UnsignedInt /\ u.UnsignedInt <= UlongMax
    BY <1>1, <2>2
  <2>5. asUint64(c, u) = WhatFits(u, 0, UlongMax)
    BY <2>1, <2>3, <2>4 DEF WhatFits
  <2>6. QED BY <1>3, <2>5
<1>5. CASE u.type = "SignedInt"
  BY <1>3, <1>5, SignedToUlong
<1>6. CASE u.type = "Float"
  <2>1. asUint64(c, u) = FloatAsUlong(c, u.Float)
    BY <1>6 DEF asUint64
  <2>2. CASE FloatAsUlong(c, u.Float) = WhatFits(u, 0, UlongMax)
    BY <1>3, <2>1, <2>2
  <2>3. CASE AtEdge(u, UlongMax) /\ FloatAsUlong(c, u.Float) \in {0, UlongMax}
    <3>1. UlongMax \in Int /\ UlongMax \notin 0 .. UintMax
      BY <1>1
    <3>2. QED BY <2>1, <2>3, <3>1
  <2>4. QED BY <1>6, <2>2, <2>3, FloatToUlong
<1>7. QED BY <1>4, <1>5, <1>6 DEF isNumeric, isInteger

(* A narrower range keeps of what fits what fits there.                    *)
LEMMA NarrowerFits ==
  ASSUME NEW u, NEW lo \in Int, NEW hi \in Int, NEW min \in Int, NEW max \in Int,
         lo <= min, min <= 0, 0 <= max, max <= hi,
         Number(u).kind = "finite" => Truncated(Number(u).n) \in Int
  PROVE  /\ WhatFits(u, min, max) =
              IF WhatFits(u, lo, hi) \in min .. max THEN WhatFits(u, lo, hi) ELSE 0
         /\ AtEdge(u, hi) => WhatFits(u, min, max) = 0
<1> DEFINE finite == Number(u).kind = "finite"  t == Truncated(Number(u).n)
<1>1. \A a, b : WhatFits(u, a, b) = IF finite /\ a <= t /\ t <= b THEN t ELSE 0
  BY DEF WhatFits
<1>2. AtEdge(u, hi) => finite /\ t > hi
  BY DEF AtEdge
<1>3. finite => t \in Int
  OBVIOUS
<1> HIDE DEF finite, t
<1>4. CASE finite
  BY <1>1, <1>2, <1>3, <1>4
<1>5. CASE ~finite
  BY <1>1, <1>2, <1>5
<1>6. QED BY <1>4, <1>5

(* A number is converted to what the documentation says.                   *)
LEMMA NumberConverts ==
  ASSUME NEW u, InType(u), isNumeric(u), NEW c
  PROVE  /\ asInt64(c, u) = WhatFits(u, LongMin, LongMax) \/ AtEdge(u, LongMax)
         /\ asUint64(c, u) = WhatFits(u, 0, UlongMax) \/ AtEdge(u, UlongMax)
         /\ asInt(c, u) = WhatFits(u, IntMin, IntMax)
         /\ asUint(c, u) = WhatFits(u, 0, UintMax)
<1>1. /\ LongMin \in Int /\ LongMax \in Int /\ UlongMax \in Int
      /\ IntMin \in Int /\ IntMax \in Int /\ UintMax \in Int
      /\ LongMin <= IntMin /\ IntMin <= 0 /\ 0 <= IntMax /\ IntMax <= LongMax
      /\ 0 <= UintMax /\ UintMax <= UlongMax
  BY LimitFacts
<1>2. Number(u).kind = "finite" => Truncated(Number(u).n) \in Int
  <2>1. CASE isInteger(u)
    <3>1. \A k \in LongMin .. UlongMax : k \in Int
      BY <1>1
    <3>2. QED BY <2>1, <3>1, NumberFacts
  <2>2. CASE u.type = "Float"
    <3>1. Number(u).kind = "finite" => Number(u).n \in Int
      BY <2>2, NumberFacts
    <3>2. QED BY <3>1, TruncatedBounds, WidthFacts
  <2>3. QED BY <2>1, <2>2 DEF isNumeric
<1>3. asInt(c, u) = WhatFits(u, IntMin, IntMax)
  <2> DEFINE i == asInt64(c, u)
  <2>1. i \in Int /\ (\/ i = WhatFits(u, LongMin, LongMax)
                      \/ AtEdge(u, LongMax) /\ (i # 0 => i \notin IntMin .. IntMax))
    BY ToLong
  <2>2. asInt(c, u) = IF i \in IntMin .. IntMax THEN i ELSE 0
    BY <2>1, IntsInRange DEF asInt
  <2>3. /\ WhatFits(u, IntMin, IntMax) =
             IF WhatFits(u, LongMin, LongMax) \in IntMin .. IntMax
             THEN WhatFits(u, LongMin, LongMax) ELSE 0
        /\ AtEdge(u, LongMax) => WhatFits(u, IntMin, IntMax) = 0
    BY <1>1, <1>2, NarrowerFits
  <2> HIDE DEF i
  <2>4. QED BY <2>1, <2>2, <2>3
<1>4. asUint(c, u) = WhatFits(u, 0, UintMax)
  <2> DEFINE i == asUint64(c, u)
  <2>1. i \in Int /\ (\/ i = WhatFits(u, 0, UlongMax)
                      \/ AtEdge(u, UlongMax) /\ (i # 0 => i \notin 0 .. UintMax))
    BY ToUlong
  <2>2. asUint(c, u) = IF i \in 0 .. UintMax THEN i ELSE 0
    BY <2>1, IntsInRange DEF asUint
  <2>3. /\ WhatFits(u, 0, UintMax) =
             IF WhatFits(u, 0, UlongMax) \in 0 .. UintMax
             THEN WhatFits(u, 0, UlongMax) ELSE 0
        /\ AtEdge(u, UlongMax) => WhatFits(u, 0, UintMax) = 0
    BY <1>1, <1>2, NarrowerFits
  <2> HIDE DEF i
  <2>4. QED BY <2>1, <2>2, <2>3
<1>5. QED BY <1>3, <1>4, ToLong, ToUlong

(* The Value looked for never changes.                                     *)
LEMMA LookedForStays ==
  /\ SearchInit => x \in Values
  /\ x \in Values /\ [SearchNext]_searchVars => (x \in Values)'
<1>1. SearchInit => x \in Values
  BY DEF SearchInit
<1>2. ASSUME x \in Values, [SearchNext]_searchVars PROVE x' \in Values
  <2>1. x' = x
    BY <1>2 DEF SearchNext, searchVars, Begin, Test, Advance, Dangle, LeaveAlone, Replace,
                Push, RemoveInBody, RemoveOutside, Changed
  <2>2. QED BY <1>2, <2>1
<1>3. QED BY <1>1, <1>2

(* value.hpp of asInt, asInt64 and their like: converting a number gives   *)
(* it without its fraction when that fits and 0 otherwise, for all widths  *)
(* of the types, but for the numbers next to one above the 64-bit limits.  *)
THEOREM ConversionsFit == SearchSpec => []ConvertsWhatFits
<1>1. x \in Values => ConvertsWhatFits
  BY ValuesAssumption, NumberConverts DEF ConvertsWhatFits
<1>2. QED BY <1>1, LookedForStays, PTL DEF SearchSpec
=============================================================================
