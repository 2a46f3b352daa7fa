---------------------------- MODULE ValueSearch ----------------------------
(***************************************************************************)
(* Searching Values (src/value.cpp), and a range for over one with         *)
(* value_iterator (include/iterator.hpp).                                  *)
(***************************************************************************)
EXTENDS ValueConversions, SequencesExt

CONSTANTS
  IsEqual(_, _),     (* operator==: Equal, of ValueEquality                *)
  Values,            (* what the caller searches and looks for             *)
  Replacements       (* what the body of a loop may assign to the Value    *)

(* An Array holds a sequence, a Map a function with finitely many keys.    *)
Shaped(u) ==
  /\ u.type = "Array" => u = ArrayValue(u.Array) /\ u.Array \in Seq(Range(u.Array))
  /\ u.type = "Map" => /\ u = MapValue([k \in DOMAIN u.Map |-> u.Map[k]])
                       /\ IsFiniteSet(DOMAIN u.Map)

(* A number is one of its type.                                            *)
IsDouble(d) ==
  \/ d \in Special
  \/ d = Finite(d.n) /\ d.n \in Int /\ d.n = Rounded(d.n)

InType(u) ==
  /\ u.type = "SignedInt" => u.SignedInt \in LongMin .. LongMax
  /\ u.type = "UnsignedInt" => u.UnsignedInt \in 0 .. UlongMax
  /\ u.type = "Float" => IsDouble(u.Float)

ASSUME ValuesAssumption == \A u \in Values \cup Replacements : Shaped(u) /\ InType(u)

VARIABLES
  v, x,              (* the Value the caller holds, the one it looks for   *)
  cast,              (* what the build makes of a double that does not fit *)
  loop,              (* the loop's iterators and where it is               *)
  seen,              (* the elements its body was given                    *)
  did                (* history: what the body did to v                    *)

searchVars == <<v, x, cast, loop, seen, did>>

-----------------------------------------------------------------------------
(* Searching.                                                              *)

(* Where find_if or the map finds y in u.                                  *)
Matches(u, y) ==
  CASE u.type = "Array" -> {i \in DOMAIN u.Array : IsEqual(y, u.Array[i])}
    [] u.type = "Map"   -> {asString(y)} \cap DOMAIN u.Map
    [] OTHER            -> {}

(* find on a const Map takes the string out of y with the conversion       *)
(* operator, which throws for another type; contains calls it.             *)
ConstFindThrows(u, y) == u.type = "Map" /\ ~CanCast(y, "String")

contains(u, y) == Matches(u, y) # {}

(* Mutant: every element that matches goes.                                *)
RemovedAll(u, y) ==
  CASE u.type = "Array" -> ArrayValue(SelectSeq(u.Array, LAMBDA e : ~IsEqual(y, e)))
    [] u.type = "Map"   -> MapValue([k \in DOMAIN u.Map \ Matches(u, y) |-> u.Map[k]])
    [] OTHER            -> u

(* remove takes away the first of an array, or the key y reads as.         *)
Removed(u, y) ==
  CASE u.type = "Array" /\ Matches(u, y) # {} ->
         ArrayValue(RemoveAt(u.Array, Min(Matches(u, y))))
    [] u.type = "Map" ->
         MapValue([k \in DOMAIN u.Map \ Matches(u, y) |-> u.Map[k]])
    [] OTHER -> u

-----------------------------------------------------------------------------
(* for(auto& e : v) body                                                   *)

isContainer(u) == u.type \in {"Array", "Map"}

(* The elements in the order an iterator passes them: a map has any order. *)
Orders(u) ==
  CASE u.type = "Array" -> {[i \in DOMAIN u.Array |-> i]}
    [] u.type = "Map"   -> SetToSeqs(DOMAIN u.Map)
    [] OTHER            -> {<<>>}

(* made: the type v had, which says which member of the iterator is set;   *)
(* ahead: the element it is at and those that follow; valid: whether the   *)
(* container it and end() were taken from is still there, unmoved.         *)
Idle == loop.stage \in {"off", "done"}

Begin ==
  /\ Idle
  /\ \E order \in Orders(v) :
       loop' = [stage |-> "test", made |-> v.type, ahead |-> order, valid |-> TRUE]
  /\ seen' = <<>>
  /\ did' = {}
  /\ UNCHANGED <<v, x, cast>>

(* Mutant: the iterator goes by the type its parent had.                   *)
DanglesAsMade == isContainer([type |-> loop.made]) /\ (v.type # loop.made \/ ~loop.valid)

(* The iterator goes by the type its parent has now: a member that is not  *)
(* set, or one that points into a container that is gone or has moved.     *)
Dangles == isContainer(v) /\ (v.type # loop.made \/ ~loop.valid)

(* Mutant: one element too early.                                          *)
AtLast == ~isContainer(v) \/ Len(loop.ahead) <= 1

AtEnd == ~isContainer(v) \/ loop.ahead = <<>>

Test ==
  /\ loop.stage = "test" /\ ~Dangles
  /\ IF AtEnd
     THEN loop' = [loop EXCEPT !.stage = "done"] /\ UNCHANGED seen
     ELSE loop' = [loop EXCEPT !.stage = "body"] /\ seen' = Append(seen, Head(loop.ahead))
  /\ UNCHANGED <<v, x, cast, did>>

Advance ==
  /\ loop.stage = "next" /\ ~Dangles
  /\ loop' = [loop EXCEPT !.stage = "test",
                          !.ahead = IF isContainer(v) THEN Tail(@) ELSE @]
  /\ UNCHANGED <<v, x, cast, seen, did>>

Dangle ==
  /\ loop.stage \in {"test", "next"} /\ Dangles
  /\ loop' = [loop EXCEPT !.stage = "undefined"]
  /\ UNCHANGED <<v, x, cast, seen, did>>

(* What the body may do to v, by the name the history gives it.            *)
Changed(what, u, ahead, valid) ==
  /\ loop.stage = "body"
  /\ v' = u
  /\ did' = did \cup {what}
  /\ loop' = [loop EXCEPT !.stage = "next", !.ahead = ahead, !.valid = valid]
  /\ UNCHANGED <<x, cast, seen>>

LeaveAlone == Changed("nothing", v, loop.ahead, loop.valid)

Replace ==
  \E u \in Replacements :
    Changed(IF isContainer(u) THEN "replaced" ELSE "cleared", u, loop.ahead, FALSE)

Push == Changed("pushed", PushBack(v, x), loop.ahead, FALSE)

(* erase moves the elements of a vector up; in a map only the iterators at *)
(* the element erased are gone.                                            *)
RemoveInBody ==
  LET gone == Matches(v, x)
  IN  /\ loop.stage = "body"
      /\ IF v.type = "Map" /\ Head(loop.ahead) \notin gone
         THEN Changed("removedAnother", Removed(v, x),
                      RemoveFirst(loop.ahead, asString(x)), loop.valid)
         ELSE Changed("removed", Removed(v, x), loop.ahead, loop.valid /\ gone = {})

(* A call of remove outside of a loop.                                     *)
RemoveOutside ==
  /\ loop.stage = "off"
  /\ v' = Removed(v, x)
  /\ UNCHANGED <<x, cast, loop, seen, did>>

SearchInit ==
  /\ v \in Values /\ x \in Values
  /\ cast \in {"saturates", "indefinite"}
  /\ loop = [stage |-> "off", made |-> "Null", ahead |-> <<>>, valid |-> FALSE]
  /\ seen = <<>>
  /\ did = {}

SearchNext ==
  \/ Begin \/ Test \/ Advance \/ Dangle
  \/ LeaveAlone \/ Replace \/ Push \/ RemoveInBody
  \/ RemoveOutside

SearchSpec == SearchInit /\ [][SearchNext]_searchVars

-----------------------------------------------------------------------------
(* Properties.                                                             *)

(* What value.hpp says of asInt64 and its like: a number that fits is      *)
(* returned, without its fraction, and 0 for any other.                    *)
WhatFits(u, min, max) ==
  LET d == Number(u)
      i == Truncated(d.n)
  IN  IF d.kind = "finite" /\ min <= i /\ i <= max THEN i ELSE 0

(* The number is above max, the double next to it is max + 1, to which the *)
(* bound is rounded too.                                                   *)
AtEdge(u, max) ==
  /\ Number(u).kind = "finite" /\ Truncated(Number(u).n) > max
  /\ Rounded(Number(u).n) = (max + 1) * One

(* Converting a number gives what the documentation says but for the       *)
(* numbers just above the range of the 64-bit integers, and nothing passes *)
(* for one that is not finite, whatever the type it is stored with.        *)
ConvertsWhatFits ==
  isNumeric(x) =>
    /\ asInt64(cast, x) = WhatFits(x, LongMin, LongMax) \/ AtEdge(x, LongMax)
    /\ asUint64(cast, x) = WhatFits(x, 0, UlongMax) \/ AtEdge(x, UlongMax)
    /\ asInt(cast, x) = WhatFits(x, IntMin, IntMax)
    /\ asUint(cast, x) = WhatFits(x, 0, UintMax)

(* remove and contains agree: what contains does not see, remove leaves    *)
(* alone; what it sees loses one element, of an array one that is equal,   *)
(* and the others stay in place.  On a map, where contains throws for all  *)
(* but a string, remove takes the key that reads like its argument.        *)
RemoveAgreesWithContains ==
  LET u == Removed(v, x)
  IN  /\ ~ConstFindThrows(v, x) => (contains(v, x) <=> u # v)
      /\ v.type = "Array" /\ u # v =>
           \E i \in DOMAIN v.Array : IsEqual(x, v.Array[i]) /\ u.Array = RemoveAt(v.Array, i)
      /\ v.type = "Map" =>
           \A k \in DOMAIN v.Map : k \in DOMAIN u.Map \/ k = asString(x)

(* A loop that ends has seen every element that is left, each once, in the *)
(* order of an array, unless its body made a scalar of the container.      *)
LoopSeesAll ==
  loop.stage = "done" /\ "cleared" \notin did =>
    /\ IsInjective(seen)
    /\ v.type = "Array" => seen = [i \in DOMAIN v.Array |-> i]
    /\ v.type = "Map" => DOMAIN v.Map \subseteq Range(seen)

(* A loop uses an iterator that is no good only when its body adds to the  *)
(* container, takes an element of a vector or the one it is at, or puts    *)
(* another container in its place.  When v becomes a scalar the loop ends. *)
LoopDefined ==
  loop.stage = "undefined" => did \cap {"pushed", "removed", "replaced"} # {}

SearchTypeOK ==
  /\ cast \in {"saturates", "indefinite"}
  /\ loop.stage \in {"off", "test", "body", "next", "done", "undefined"}
  /\ loop.valid \in BOOLEAN
  /\ \A u \in {v, x} :
       /\ asInt64(cast, u) \in LongMin .. LongMax /\ asUint64(cast, u) \in 0 .. UlongMax
       /\ asInt(cast, u) \in IntMin .. IntMax /\ asUint(cast, u) \in 0 .. UintMax
       /\ asBool(u) \in BOOLEAN
       /\ LET d == asFloat(u) IN d.kind = "finite" => d.n = Rounded(d.n)
=============================================================================
