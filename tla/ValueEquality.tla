--------------------------- MODULE ValueEquality ---------------------------
(***************************************************************************)
(* operator== of two Values (src/value.cpp), which goes down into arrays   *)
(* and maps by calling itself.                                             *)
(***************************************************************************)
EXTENDS ValueConversions

(* |a - b| <= epsilon(); inf - inf is not a number.                        *)
Close(a, b) ==
  a.kind = "finite" /\ b.kind = "finite" /\ Magnitude(Rounded(a.n - b.n)) <= 1

RECURSIVE Equal(_, _)

(* Mutant: the sizes of maps are not compared.                             *)
EqualKeys(l, r) ==
  IF isNumeric(l) /\ isNumeric(r) THEN Close(asFloat(l), asFloat(r))
  ELSE /\ l.type = r.type
       /\ CASE r.type = "Array" ->
                 /\ Len(l.Array) = Len(r.Array)
                 /\ \A i \in DOMAIN l.Array : Equal(l.Array[i], r.Array[i])
            [] r.type = "Map"   ->
                 \A k \in DOMAIN l.Map : k \in DOMAIN r.Map /\ Equal(l.Map[k], r.Map[k])
            [] OTHER            -> l = r

Equal(l, r) ==
  IF isNumeric(l) /\ isNumeric(r) THEN Close(asFloat(l), asFloat(r))
  ELSE /\ l.type = r.type
       /\ CASE r.type = "Array" ->
                 /\ Len(l.Array) = Len(r.Array)
                 /\ \A i \in DOMAIN l.Array : Equal(l.Array[i], r.Array[i])
            [] r.type = "Map"   ->
                 /\ size(l) = size(r)
                 /\ \A k \in DOMAIN l.Map : k \in DOMAIN r.Map /\ Equal(l.Map[k], r.Map[k])
            [] OTHER            -> l = r

-----------------------------------------------------------------------------
(* What it is measured by.                                                 *)

(* The double nearest to a number.                                         *)
NearestDouble(u) == [Number(u) EXCEPT !.n = Rounded(@)]

(* No double in u is NaN or infinite.                                      *)
RECURSIVE AllFinite(_)
AllFinite(u) ==
  CASE u.type = "Float" -> u.Float.kind = "finite"
    [] u.type = "Array" -> \A i \in DOMAIN u.Array : AllFinite(u.Array[i])
    [] u.type = "Map"   -> \A k \in DOMAIN u.Map : AllFinite(u.Map[k])
    [] OTHER            -> TRUE
=============================================================================
