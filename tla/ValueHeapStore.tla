--------------------------- MODULE ValueHeapStore ---------------------------
(***************************************************************************)
(* The cells of ValueHeap implement the values of ValueStore: a variable   *)
(* holds the tree its cell owns, and the operands of a call are the places *)
(* where their cells are.  In the middle of a call the trees are taken     *)
(* apart, so two history variables keep the values and places the call     *)
(* began with, until it returns.                                           *)
(***************************************************************************)
EXTENDS ValueHeap, UbjsonValue

VARIABLES
  stored,            (* the value of each variable, between two calls      *)
  asked              (* the call in progress, with places for cells        *)

RECURSIVE ValueOf(_)
ValueOf(a) ==
  LET f == member[a].items
      values == [i \in DOMAIN f |-> ValueOf(f[i])]
  IN  CASE tag[a] = "Null"   -> NullValue
        [] tag[a] = "String" -> StringValue(CHOOSE d \in member[a].data : TRUE)
        [] tag[a] = "Array"  -> ArrayValue(values)
        [] tag[a] = "Map"    -> MapValue(values)

Values == [r \in Roots |-> ValueOf(r)]

RECURSIVE PlaceOf(_)
PlaceOf(a) ==
  IF a \in Roots THEN <<a>>
  ELSE LET c == CHOOSE x \in Reachable : a \in Holds(x)
       IN  Append(PlaceOf(c), CHOOSE i \in DOMAIN member[c].items :
                                member[c].items[i] = a)

(* The request of a call.                                                  *)
Request(c) ==
  [op |-> c.op, to |-> PlaceOf(c.to),
   from |-> CASE c.op = "new"  -> IF c.from = None THEN NullValue
                                  ELSE StringValue(CHOOSE d \in c.from.data : TRUE)
              [] c.op = "list" -> [i \in DOMAIN c.from |-> PlaceOf(c.from[i])]
              [] c.op \in {"index", "remove"} -> c.from
              [] OTHER -> PlaceOf(c.from)]

VInit == HInit /\ stored = Values /\ asked = NoCall

VNext ==
  /\ HNext
  /\ stored' = IF idle' THEN Values' ELSE stored
  /\ asked' = IF idle' THEN NoCall ELSE IF idle THEN Request(call') ELSE asked

VSpec == VInit /\ [][VNext]_<<hvars, stored, asked>>

(* Every call does to the values what ValueStore says of its operation,    *)
(* for every way its operands overlap and wherever the memory runs out.    *)
Store == INSTANCE ValueStore
           WITH Roots <- Roots, Keys <- Keys, Data <- Data,
                store <- stored, asked <- asked

StoreImplemented == Store!StoreSpec
=============================================================================
