--------------------------- MODULE MCValueSearch ---------------------------
(***************************************************************************)
(* ValueSearch with a 5-bit long long, a 3-bit int and a double of 3 bits: *)
(* every integer, every double up to twice the unsigned ones, and what is  *)
(* not finite; one Value of each other type, arrays and maps of them.      *)
(* What the loops work on is printed as well.                              *)
(***************************************************************************)
EXTENDS ValueSearch, ValueEquality, ValuePrinter

Doubles ==
  {Finite(n) : n \in {d \in -130 .. 130 : d = Rounded(d)}} \cup Special

Numbers ==
  {SignedValue(n) : n \in LongMin .. LongMax}
  \cup {UnsignedValue(n) : n \in 0 .. UlongMax}
  \cup {FloatValue(d) : d \in Doubles}

Strings == {Numeral(-2), Numeral(1), Numeral(40), Fixed(-6), Word(1), Word(2)}

Scalars ==
  {NullValue, BoolValue(TRUE), BoolValue(FALSE), BinaryValue(1)}
  \cup {CharValue(c) : c \in {-1, 0, 7}}
  \cup {StringValue(s) : s \in Strings}

S(n) == SignedValue(n)
U(n) == UnsignedValue(n)
F(n) == FloatValue(Finite(n))
NotANumber == FloatValue([kind |-> "nan", n |-> 0])

Containers ==
  {ArrayValue(a) : a \in {<<>>, <<U(1)>>, <<S(1), U(1)>>, <<S(-1), S(-2), F(0)>>,
                          <<NotANumber, NullValue>>, <<ArrayValue(<<F(4)>>), S(1)>>}}
  \cup {MapValue(m) : m \in {<<>>, Numeral(1) :> S(1), Numeral(1) :> F(4),
                             Word(1) :> NullValue @@ Numeral(1) :> U(1),
                             Word(1) :> MapValue(Numeral(1) :> ArrayValue(<<U(1)>>))
                               @@ Numeral(-2) :> NotANumber,
                             Word(2) :> ArrayValue(<<StringValue(Word(2))>>)}}

MCValues == Numbers \cup Scalars \cup Containers

MCReplacements == {NullValue, S(1), ArrayValue(<<S(1)>>), MapValue(Numeral(1) :> S(1))}

(* Of the characters, 7 stands for those that print.                       *)
MCNeedsEscape(u) == IF u.type = "Char" THEN u.Char # 7 ELSE u.String = Word(2)

(* Numbers are equal when the doubles nearest to them are within epsilon,  *)
(* in whatever types they are stored: an integer above 2^53, or above the  *)
(* greatest long long, equals itself and its neighbours as a double would. *)
(* Negative integers are left out: ConversionsDocumented shows what        *)
(* becomes of them.                                                        *)
EqualNumbers ==
  LET Negative(u) == isInteger(u) /\ Number(u).n < 0
  IN  isNumeric(v) /\ isNumeric(x) /\ ~Negative(v) /\ ~Negative(x) =>
        (Equal(v, x) <=> Close(NearestDouble(v), NearestDouble(x)))

(* Comparing does not depend on the order of the operands, nested ones     *)
(* included, relates only Values isComparableWith each other, and a Value  *)
(* equals itself unless a double in it is not finite.                      *)
EqualIsSymmetric ==
  /\ Equal(v, x) <=> Equal(x, v)
  /\ ~isComparableWith(v, x) => ~Equal(v, x)
  /\ Equal(v, v) <=> AllFinite(v)

(* What the loop leaves, and what it works on, is printed with the         *)
(* brackets, commas and colons of a JSON text for it, so it is one as soon *)
(* as each scalar and key in it is printed as JSON spells it.  AlwaysJson  *)
(* shows that not all are.                                                 *)
PunctuatedAsJson == AllSpelled(v) => IsJsonFor(v)

(* Its pretty form is indented by the containers that are open.            *)
IndentIsDepth == IndentedByDepth(v)

-----------------------------------------------------------------------------
(* What the documents of the project say, and the code does not do.  Each  *)
(* has a run that shows how.                                               *)

(* value.hpp:353, 365 and 377: asInt64, asUint64 and asFloat return a      *)
(* number that fits, 0 for any other; every number here fits a double.     *)
AsDocumented(u) ==
  /\ asInt64(cast, u) = WhatFits(u, LongMin, LongMax)
  /\ asUint64(cast, u) = WhatFits(u, 0, UlongMax)
  /\ asFloat(u) = NearestDouble(u)

(* Just above the long longs, just above the unsigned ones, and negative.  *)
HardNumbers == {ArrayValue(<<U(LongMax + 1), F((UlongMax + 1) * One), S(-1)>>)}

(* Of these three numbers at least one is converted as documented: a state *)
(* where this is false shows what becomes of each of them.                 *)
ConversionsDocumented == \E i \in DOMAIN x.Array : AsDocumented(x.Array[i])

(* README.md:123 of to_ostream: it always outputs a valid JSON document.   *)
AlwaysJson == IsJsonFor(v)
=============================================================================
