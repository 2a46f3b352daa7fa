-------------------------- MODULE ValueConversions --------------------------
(***************************************************************************)
(* The types of a Value and its conversions (src/value.cpp).               *)
(*                                                                         *)
(* long long, int and double keep their limits but not their width: a      *)
(* double has Precision bits, and is counted in units of                   *)
(* numeric_limits<double>::epsilon(), of which One make 1.0.  As in the    *)
(* code, a long long has more bits than a double, an int no more.  What a  *)
(* std::string reads as decides its conversions, so it is its form and     *)
(* the number in it.                                                       *)
(***************************************************************************)
EXTENDS UbjsonValue, FiniteSets

CONSTANTS LongBits, IntBits, Precision,
  Decimal            (* the last digit of std::to_string(double), in the   *)
                     (* units of a double                                  *)

ASSUME WidthsAssumption ==
  /\ LongBits \in Nat /\ IntBits \in Nat \ {0, 1} /\ Precision \in Nat
  /\ IntBits - 1 < Precision /\ Precision < LongBits - 1
  /\ Decimal \in Nat \ {0}

-----------------------------------------------------------------------------
(* Numbers.                                                                *)

TwoTo[n \in Nat] == IF n = 0 THEN 1 ELSE 2 * TwoTo[n - 1]

Magnitude(n) == IF n < 0 THEN -n ELSE n
Signum(n) == IF n < 0 THEN -1 ELSE 1

LongMin == -TwoTo[LongBits - 1]
LongMax == TwoTo[LongBits - 1] - 1
UlongMax == TwoTo[LongBits] - 1
IntMin == -TwoTo[IntBits - 1]
IntMax == TwoTo[IntBits - 1] - 1
UintMax == TwoTo[IntBits] - 1

AsLong(n) == ((n - LongMin) % TwoTo[LongBits]) + LongMin
AsUlong(n) == n % TwoTo[LongBits]

One == TwoTo[Precision - 1]
Significands == TwoTo[Precision]
Finite(n) == [kind |-> "finite", n |-> n]
Special == {[kind |-> "nan", n |-> 0], [kind |-> "inf", n |-> 1], [kind |-> "inf", n |-> -1]}

(* The multiple of q nearest to n, half way the even one.                  *)
Nearest(n, q) ==
  LET m == Magnitude(n)
      up == \/ 2 * (m % q) > q
            \/ 2 * (m % q) = q /\ (m \div q) % 2 = 1
  IN  Signum(n) * q * ((m \div q) + IF up THEN 1 ELSE 0)

(* The unit in the last place of a double of magnitude m.                  *)
Ulp[m \in Nat] == IF m < Significands THEN 1 ELSE 2 * Ulp[m \div 2]

(* The nearest double.                                                     *)
Rounded(n) == Nearest(n, Ulp[Magnitude(n)])

ToDouble(i) == Finite(Rounded(i * One))
Truncated(n) == Signum(n) * (Magnitude(n) \div One)

(* The bounds are converted to double as well, LongMax up to LongMax + 1.  *)
in_range(d, min, max) ==
  d.kind = "finite" /\ ToDouble(min).n <= d.n /\ d.n <= ToDouble(max).n

-----------------------------------------------------------------------------
(* Types.                                                                  *)

isString(u) == u.type = "String"
isInteger(u) == u.type \in {"SignedInt", "UnsignedInt"}
isNumeric(u) == isInteger(u) \/ u.type = "Float"
isComparableWith(u, w) == u.type = w.type \/ (isNumeric(u) /\ isNumeric(w))

size(u) ==
  CASE u.type = "Null"  -> 0
    [] u.type = "Array" -> Len(u.Array)
    [] u.type = "Map"   -> Cardinality(DOMAIN u.Map)
    [] OTHER            -> 1

(* The conversion operators: the member, or bad_value_cast.                *)
CanCast(u, type) == u.type = type

(* stoll and its like read the integer a string begins with.               *)
Numeral(n) == [form |-> "int", n |-> n]
Fixed(n) == [form |-> "fixed", n |-> n]
Word(n) == [form |-> "word", n |-> n]

Read(s) ==
  CASE s.form = "int"   -> s.n
    [] s.form = "fixed" -> Truncated(s.n)
    [] OTHER            -> 0

stoll(s) == IF Read(s) \in LongMin .. LongMax THEN Read(s) ELSE 0
(* Mutant: a minus sign is kept.                                           *)
stoullSigned(s) == IF Magnitude(Read(s)) <= UlongMax THEN Read(s) ELSE 0

(* strtoull reads a minus sign as well, and wraps round.                   *)
stoull(s) == IF Magnitude(Read(s)) <= UlongMax THEN AsUlong(Read(s)) ELSE 0

stod(s) ==
  CASE s.form = "int"   -> ToDouble(s.n)
    [] s.form = "fixed" -> Finite(Rounded(s.n))
    [] OTHER            -> Finite(0)

-----------------------------------------------------------------------------
(* Conversions.  cast is what the build makes of a double that no long     *)
(* long can hold.                                                          *)

(* Out of range a cast is undefined: a compiler that folds it saturates,   *)
(* giving the nearest bound; the instruction gives its indefinite value.   *)
Cast(cast, n, min, max, indefinite) ==
  IF n \in min .. max THEN n
  ELSE IF cast = "indefinite" THEN indefinite
  ELSE IF n < min THEN min ELSE max

(* Mutant: only what is not finite is kept out.                            *)
FloatAsLongUnchecked(cast, d) ==
  IF d.kind = "finite" THEN Cast(cast, Truncated(d.n), LongMin, LongMax, LongMin) ELSE 0

FloatAsLong(cast, d) ==
  IF in_range(d, LongMin, LongMax) THEN Cast(cast, Truncated(d.n), LongMin, LongMax, LongMin)
  ELSE 0

FloatAsUlong(cast, d) ==
  IF in_range(d, 0, UlongMax) THEN Cast(cast, Truncated(d.n), 0, UlongMax, 0) ELSE 0

asInt64(cast, u) ==
  CASE u.type = "SignedInt"   -> u.SignedInt
    [] u.type = "UnsignedInt" ->
         IF in_range(ToDouble(u.UnsignedInt), LongMin, LongMax)
         THEN AsLong(u.UnsignedInt) ELSE 0
    [] u.type = "Float"       -> FloatAsLong(cast, u.Float)
    [] u.type = "Char"        -> u.Char
    [] u.type = "Bool"        -> IF u.Bool THEN 1 ELSE 0
    [] u.type = "String"      -> stoll(u.String)
    [] OTHER                  -> size(u)

asUint64(cast, u) ==
  CASE u.type = "UnsignedInt" -> u.UnsignedInt
    [] u.type = "SignedInt"   ->
         IF in_range(ToDouble(u.SignedInt), 0, UlongMax)
         THEN AsUlong(u.SignedInt) ELSE 0
    [] u.type = "Float"       -> FloatAsUlong(cast, u.Float)
    [] u.type = "Char"        -> AsUlong(u.Char)
    [] u.type = "Bool"        -> IF u.Bool THEN 1 ELSE 0
    [] u.type = "String"      -> stoull(u.String)
    [] OTHER                  -> size(u)

(* Mutant: the smaller of the two conversions.                             *)
asFloatSmaller(u) ==
  CASE u.type = "Float"  -> u.Float
    [] u.type = "String" -> stod(u.String)
    [] OTHER -> LET k1 == ToDouble(asUint64("saturates", u))
                    k2 == ToDouble(asInt64("saturates", u))
                IN  IF k1.n > k2.n THEN k2 ELSE k1

(* The larger of the two conversions: nothing of a negative integer.  They *)
(* cast no double here, whatever it gives.                                 *)
asFloat(u) ==
  CASE u.type = "Float"  -> u.Float
    [] u.type = "String" -> stod(u.String)
    [] OTHER -> LET k1 == ToDouble(asUint64("saturates", u))
                    k2 == ToDouble(asInt64("saturates", u))
                IN  IF k1.n > k2.n THEN k1 ELSE k2

asBool(u) ==
  CASE u.type = "Bool"        -> u.Bool
    [] u.type = "UnsignedInt" -> u.UnsignedInt # 0
    [] u.type = "SignedInt"   -> u.SignedInt # 0
    [] u.type = "Float"       -> u.Float # Finite(0)
    [] u.type = "Char"        -> u.Char # 0
    [] OTHER                  -> size(u) # 0

asInt(cast, u) ==
  LET i == asInt64(cast, u)
  IN  IF in_range(ToDouble(i), IntMin, IntMax) THEN i ELSE 0

asUint(cast, u) ==
  LET i == asUint64(cast, u)
  IN  IF in_range(ToDouble(i), 0, UintMax) THEN i ELSE 0

asString(u) ==
  CASE u.type = "String"      -> u.String
    [] u.type = "Bool"        -> [form |-> "bool", n |-> IF u.Bool THEN 1 ELSE 0]
    [] u.type = "Char"        -> [form |-> "char", n |-> u.Char]
    [] u.type = "SignedInt"   -> Numeral(u.SignedInt)
    [] u.type = "UnsignedInt" -> Numeral(u.UnsignedInt)
    [] u.type = "Float"       -> IF u.Float \in Special
                                 THEN [form |-> u.Float.kind, n |-> u.Float.n]
                                 ELSE Fixed(Nearest(u.Float.n, Decimal))
    [] OTHER                  -> [form |-> "empty", n |-> 0]

(* The number of a numeric Value, in units of epsilon.                     *)
Number(u) ==
  CASE u.type = "SignedInt"   -> Finite(u.SignedInt * One)
    [] u.type = "UnsignedInt" -> Finite(u.UnsignedInt * One)
    [] u.type = "Float"       -> u.Float
=============================================================================
