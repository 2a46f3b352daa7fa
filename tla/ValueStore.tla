----------------------------- MODULE ValueStore -----------------------------
(***************************************************************************)
(* What the operations of ubjson::Value (src/value.cpp) do to Values, with *)
(* no cells, tags or ownership: a variable of the caller holds a value of  *)
(* UbjsonValue, an operand is a place in one, and a call is asked, then    *)
(* answered with one of a set of results.  The operands may be one place,  *)
(* or a place inside the other; what then happens is part of the promise.  *)
(***************************************************************************)
EXTENDS UbjsonValue, SequencesExt

CONSTANTS
  Roots,             (* the variables of the caller                        *)
  Keys, Data

VARIABLES
  store,             (* their values                                       *)
  asked              (* the call in progress                               *)

NoCall == [op |-> "none"]

(* A place is a variable and the indices and keys that lead on from it.    *)
Elements(v) ==
  CASE v.type = "Array" -> v.Array
    [] v.type = "Map"   -> v.Map
    [] OTHER            -> <<>>

WithElements(v, f) == IF v.type = "Array" THEN ArrayValue(f) ELSE MapValue(f)

RECURSIVE At(_, _)
At(f, p) ==
  IF Len(p) = 1 THEN f[p[1]] ELSE At(Elements(f[p[1]]), Tail(p))

RECURSIVE Put(_, _, _)
Put(f, p, x) ==
  [f EXCEPT ![p[1]] =
     IF Len(p) = 1 THEN x ELSE WithElements(@, Put(Elements(@), Tail(p), x))]

RECURSIVE PlacesIn(_)
PlacesIn(f) ==
  UNION {{<<i>>} \cup {<<i>> \o p : p \in PlacesIn(Elements(f[i]))} : i \in DOMAIN f}

Inside(q, p) == IsStrictPrefix(p, q)

Clear(s, p) == Put(s, p, NullValue)

-----------------------------------------------------------------------------
(* The results of each operation; the last ones of a set are for the       *)
(* memory running out, and an empty set leaves the call undefined.         *)

(* A target is emptied before the source is copied.                        *)
Copy(p, q) ==
  CASE p = q        -> {store}
    [] Inside(q, p) -> {}
    [] OTHER        -> {Put(store, p, At(Clear(store, p), q)), Clear(store, p)}

(* A Value moved into one inside it is lost, with what it is moved into.   *)
Move(p, q) ==
  CASE Inside(q, p) -> {}
    [] Inside(p, q) -> {Clear(store, q)}
    [] OTHER        -> {Clear(Put(store, p, At(store, q)), q)}

(* What is left of a Value that push_back was to make an array of.         *)
Opened(v) ==
  CASE v.type = "Array" -> v
    [] v.type = "Null"  -> ArrayValue(<<>>)
    [] OTHER            -> NullValue

Open(s, p) == Put(s, p, Opened(At(s, p)))

PushCopy(p, q) ==
  LET x == At(IF Inside(q, p) THEN store ELSE Open(store, p), q)
  IN  {Put(store, p, PushBack(At(store, p), x)), Open(store, p)}

PushMove(p, q) ==
  LET v == At(store, p)
      taken == Clear(store, q)
  IN  CASE p = q ->
             {Open(store, p)} \cup
             IF v.type \in {"Null", "Array"} THEN {}
             ELSE {Put(store, p, PushBack(v, NullValue))}
        [] Inside(p, q) -> {taken, Open(store, p)}
        [] OTHER ->
             {Put(taken, p, PushBack(At(taken, p), At(store, q))),
              Open(store, p), Open(taken, p)}

(* One of the two is lost when it is inside the other.                     *)
Swap(p, q) ==
  LET v == At(store, p)
      w == At(store, q)
  IN  CASE p = q        -> {store}
        [] Inside(q, p) -> {Put(store, p, w)}
        [] Inside(p, q) -> {Put(store, q, v)}
        [] OTHER        -> {Put(Put(store, p, w), q, v)}

(* Copies of what is listed, whatever place it is in.                      *)
List(p, list) ==
  LET values == [i \in DOMAIN list |-> At(store, list[i])]
  IN  {Put(store, p, IF Len(list) = 1 THEN values[1] ELSE ArrayValue(values)), store}

Index(p, k) ==
  LET v == At(store, p)
  IN  IF ~Indexable(v) \/ (v.type = "Map" /\ k \in DOMAIN Elements(v)) THEN {store}
      ELSE {Put(store, p, AssignKey(v, k, NullValue)),
            Put(store, p, MapValue(Elements(v)))}

Removed(p, i) ==
  LET f == Elements(At(store, p))
  IN  {Put(store, p, WithElements(At(store, p),
         IF At(store, p).type = "Array" THEN RemoveAt(f, i)
         ELSE [k \in DOMAIN f \ {i} |-> f[k]]))}

Results ==
  LET p == asked.to
      q == asked.from
  IN  CASE asked.op = "new"       -> {Put(store, p, q)}
        [] asked.op = "copy"      -> Copy(p, q)
        [] asked.op = "move"      -> Move(p, q)
        [] asked.op = "push_copy" -> PushCopy(p, q)
        [] asked.op = "push_move" -> PushMove(p, q)
        [] asked.op = "swap"      -> Swap(p, q)
        [] asked.op = "list"      -> List(p, q)
        [] asked.op = "index"     -> Index(p, q)
        [] asked.op = "remove"    -> Removed(p, q)

-----------------------------------------------------------------------------
Operations == {"copy", "move", "push_copy", "push_move", "swap"}

Ask ==
  /\ asked = NoCall
  /\ \E p \in PlacesIn(store) :
       \/ \E op \in Operations, q \in PlacesIn(store) :
            asked' = [op |-> op, to |-> p, from |-> q]
       \/ \E x \in {NullValue} \cup {StringValue(d) : d \in Data} :
            asked' = [op |-> "new", to |-> p, from |-> x]
       \/ \E q, r \in PlacesIn(store) : \E list \in {<<q>>, <<q, r>>} :
            asked' = [op |-> "list", to |-> p, from |-> list]
       \/ \E k \in Keys : asked' = [op |-> "index", to |-> p, from |-> k]
       \/ \E i \in DOMAIN Elements(At(store, p)) :
            asked' = [op |-> "remove", to |-> p, from |-> i]
  /\ UNCHANGED store

Answer ==
  /\ asked # NoCall
  /\ store' \in Results
  /\ asked' = NoCall

StoreInit == store = [r \in Roots |-> NullValue] /\ asked = NoCall

StoreSpec == StoreInit /\ [][Ask \/ Answer]_<<store, asked>>
=============================================================================
