----------------------- MODULE ValueReferenceProofs -----------------------
(***************************************************************************)
(* Proofs about the references that a caller of ubjson::Value holds: which *)
(* calls keep them, and which may read a Value that is gone.               *)
(***************************************************************************)
EXTENDS ValueHeapProofs

-----------------------------------------------------------------------------
(* The invariant.                                                          *)

(* The calls that destroy a Value that was there, and those that push one. *)
Freeing == {"copy", "move", "new", "list", "remove"}
Pushing == {"push_copy", "push_move"}

(* The elements of a member, and those of a, whatever its tag.             *)
Items(f) == {f[i] : i \in DOMAIN f}
Elements(m) == Items(m.items)
Own(a) == Elements(member[a])

(* The cells that the call may free, or that were free when it began.      *)
Loose == Heap \ call.kept

CallOK ==
  /\ call.op \in Freeing \cup Pushing \cup {"swap", "index"}
  /\ call.kept \in SUBSET Heap
  /\ call.to \in Roots \cup call.kept

(* push_back may lose what it was called on.                               *)
Excused == call.op \in Pushing /\ outcome = "bad_alloc"

(* What a call frees is in cells it may free.                              *)
LooseClosed ==
  /\ doomed \subseteq Loose
  /\ \A x \in Loose \cup {Tmp, Copied} : Own(x) \subseteq Loose
  /\ (\E n \in 1 .. Len(todo) : todo[n].do = "destruct") => Own(call.to) \subseteq Loose

CopiesOK ==
  /\ copying # {} => doomed = {} /\ \A c \in copying : c[1] \in Loose \cup {Copied}
  /\ call.op \in {"swap", "index"} => copying = {}
  /\ call.op = "index" => Own(Copied) = {}

(* The t of this moment, or a take before step n, makes x a Null, and      *)
(* nothing puts a Value into it in between.                                *)
EmptyAt(t, x, p, n) ==
  \E m \in 0 .. n - 1 :
    /\ IF m = 0 THEN t[x] = "Null" ELSE p[m].do = "take" /\ p[m].from = x
    /\ \A j \in m + 1 .. n - 1 : p[j].to # x

(* The steps of which the program of a call c consists.                    *)
StepOK(c, t, p, n) ==
  /\ c.op \in Freeing =>
       \/ p[n].do = "destruct" /\ p[n].to = c.to
       \/ p[n].do = "take" /\ p[n].to = c.to /\ n = Len(p)
       \/ p[n].do = "copy"
       \/ p[n].do \in {"take", "emplace"} /\ p[n].to = Tmp /\ p[n].from = Copied
       \/ p[n].do \in {"Array", "Map", "tag"} /\ p[n].to = Tmp
  /\ c.op \in Pushing => p[n].do \notin {"destruct", "key"}
  /\ c.op = "swap" =>
       \/ p[n].do = "take"
       \/ p[n].do = "destruct" /\ EmptyAt(t, p[n].to, p, n)
  /\ c.op = "index" => p[n].do \in {"Map", "tag", "key"} /\ p[n].to = c.to

(* What may construct another member in x, or leave none.                  *)
Alters(t, x) ==
  \/ t.do = "take" /\ x \in {t.to, t.from}
  \/ t.do \in {"destruct", "Array", "Map"} /\ x = t.to
  \/ t.do = "emplace" /\ x = t.from /\ x # t.to

(* The member of x is of that type in step n, by its kind k of this moment *)
(* or by a step that constructs it.                                        *)
BuiltAt(k, x, type, p, n) ==
  \E m \in 0 .. n - 1 :
    /\ IF m = 0 THEN k = type ELSE p[m].do = type /\ p[m].to = x
    /\ \A j \in m + 1 .. n - 1 : ~Alters(p[j], x)

(* A container is added to when it is there.                               *)
GrowOK(c, s, p, n) ==
  /\ p[n].do \in {"emplace", "key"} => p[n].to \in {Tmp, c.to}
  /\ p[n].do = "emplace" => BuiltAt(s[p[n].to].kind, p[n].to, "Array", p, n)
  /\ p[n].do = "key" => BuiltAt(s[p[n].to].kind, p[n].to, "Map", p, n)
  /\ p[n].do = "emplace" /\ p[n].from = p[n].to => c.op = "push_move" /\ c.kin = "same"

(* What is read is kept, or is read before anything is destroyed.          *)
ReadOK(c, cells, gone, p, n) ==
  p[n].do \in {"take", "copy"} /\ p[n].from \in Heap =>
    \/ p[n].from \in c.kept
    \/ p[n].from \in cells /\ gone = {} /\ \A m \in 1 .. n - 1 : p[m].do # "destruct"
    \/ c.op \in {"copy", "move"} /\ c.kin = "below"

Plan(c, t, s, cells, gone, p) ==
  \A n \in 1 .. Len(p) :
    StepOK(c, t, p, n) /\ GrowOK(c, s, p, n) /\ ReadOK(c, cells, gone, p, n)

Planned == Plan(call, tag, member, live, doomed, todo)

RunInv ==
  /\ CallOK
  /\ Excused \/ call.kept \subseteq live
  /\ IF call.op \in Freeing THEN LooseClosed ELSE doomed = {} \/ Excused
  /\ CopiesOK
  /\ Planned
  /\ outcome = "bad_alloc" => todo = <<>> /\ copying = {}
  /\ UndefinedOnlyFromInside

RInv == IF idle THEN outcome = "ok" ELSE RunInv

-----------------------------------------------------------------------------
(* What is inside what.                                                    *)

(* What a destructor reaches is owned.                                     *)
LEMMA HoldsOwn ==
  ASSUME NEW a
  PROVE  /\ Holds(a) \subseteq Own(a)
         /\ tag[a] # "Null" => Holds(a) = Own(a)
         /\ tag[a] = "Null" => Holds(a) = {}
  BY DEF Holds, Own, Elements, Items

(* An element is in a cell that is allocated, and has one owner.           *)
LEMMA OwnFacts ==
  ASSUME Cells, NEW a \in Addr
  PROVE  /\ Own(a) \subseteq live \ doomed /\ Own(a) \subseteq Heap
         /\ Own(a) \subseteq Addr
         /\ \A c \in Addr : c # a => Own(a) \cap Own(c) = {}
<1>1. Own(a) \subseteq live \ doomed
  BY DEF Own, Elements, Items, Cells, Fits, ItemsIn
<1>2. ASSUME NEW c \in Addr, NEW x \in Own(a), x \in Own(c)
      PROVE  c = a
  <2>1. PICK i \in DOMAIN member[a].items : x = member[a].items[i]
    BY DEF Own, Elements, Items
  <2>2. PICK j \in DOMAIN member[c].items : x = member[c].items[j]
    BY <1>2 DEF Own, Elements, Items
  <2>3. OneOwner(member)
    BY DEF Cells, Fits
  <2>4. member[a].items[i] = member[c].items[j]
    BY <2>1, <2>2
  <2>5. QED BY <2>3, <2>4, <2>1, <2>2 DEF OneOwner
<1>3. QED BY <1>1, <1>2, AddrFacts DEF Cells

(* Below is closed, on the heap, and allocated; what is in it is held by   *)
(* something in it, or by what it is below of.                             *)
LEMMA BelowFacts ==
  ASSUME Cells, NEW a \in Addr
  PROVE  /\ Below(a) \subseteq live /\ Below(a) \subseteq Heap
         /\ Encloses(Below(a), a)
         /\ \A y \in Below(a) : \E z \in {a} \cup Below(a) : y \in Holds(z)
<1>1. \A x \in Addr : Holds(x) \subseteq live
  BY HoldsOwn, OwnFacts
<1>2. Encloses(live, a) /\ live \in SUBSET Heap
  BY <1>1, AddrFacts DEF Encloses, Cells
<1>3. Below(a) \subseteq live /\ Below(a) \subseteq Heap
  BY <1>2 DEF Below
<1>4. Encloses(Below(a), a)
  <2>1. Holds(a) \subseteq Below(a)
    <3>1. Holds(a) \subseteq Heap
      BY <1>1, <1>2
    <3>2. QED BY <3>1 DEF Below, Encloses
  <2>2. ASSUME NEW x \in Below(a) PROVE Holds(x) \subseteq Below(a)
    <3>1. Holds(x) \subseteq Heap
      BY <1>1, <1>2, <1>3, AddrFacts
    <3>2. \A S \in SUBSET Heap : Encloses(S, a) => Holds(x) \subseteq S
      BY DEF Below, Encloses
    <3>3. QED BY <3>1, <3>2 DEF Below
  <2>3. QED BY <2>1, <2>2 DEF Encloses
<1>5. ASSUME NEW y \in Below(a), \A z \in {a} \cup Below(a) : y \notin Holds(z)
      PROVE  FALSE
  <2> DEFINE S == Below(a) \ {y}
  <2>1. Encloses(S, a)
    BY <1>4, <1>5 DEF Encloses
  <2>2. S \in SUBSET Heap
    BY <1>3
  <2>3. y \in S
    BY <2>1, <2>2 DEF Below
  <2>4. QED BY <2>3
<1>6. QED BY <1>3, <1>4, <1>5

(* When every Value is in reach, what owns an element is in reach too, and *)
(* its tag says so.                                                        *)
LEMMA OwnersInReach ==
  ASSUME Cells, live \subseteq Reachable, NEW x \in Addr, Own(x) # {}
  PROVE  x \in Roots \cup live /\ tag[x] # "Null"
<1>1. PICK y : y \in Own(x)
  OBVIOUS
<1>2. y \in Reachable /\ y \in Heap
  BY <1>1, OwnFacts
<1>3. PICK r \in Roots : y \in {r} \cup Below(r)
  BY <1>2 DEF Reachable
<1>4. r \in Addr /\ y \in Below(r)
  BY <1>2, <1>3, AddrFacts, HeapAssumption
<1>5. PICK z \in {r} \cup Below(r) : y \in Holds(z)
  BY <1>4, BelowFacts
<1>6. z \in Roots \cup live /\ z \in Addr /\ y \in Own(z) /\ tag[z] # "Null"
  BY <1>4, <1>5, BelowFacts, HoldsOwn, AddrFacts DEF Cells
<1>7. z = x
  BY <1>1, <1>6, OwnFacts
<1>8. QED BY <1>6, <1>7

(* Then no Values hold each other in a circle that nothing else holds.     *)
LEMMA NoCircle ==
  ASSUME Cells, live \subseteq Reachable, NEW U \in SUBSET live, U # {}
  PROVE  \E x \in U : \E y \in Addr \ U : x \in Holds(y)
<1>1. SUFFICES ASSUME \A x \in U : \A y \in Addr : x \in Holds(y) => y \in U
               PROVE  FALSE
  OBVIOUS
<1>2. PICK x \in U : TRUE
  OBVIOUS
<1>3. PICK r \in Roots : x \in {r} \cup Below(r)
  BY DEF Reachable
<1>4. r \in Addr /\ x \in Below(r) /\ r \notin U
  BY <1>3, AddrFacts, HeapAssumption DEF Cells
<1> DEFINE S == Below(r) \ U
<1>5. Below(r) \subseteq Addr /\ Below(r) \subseteq Heap
  BY <1>4, BelowFacts, AddrFacts
<1>6. Encloses(S, r)
  <2>1. Encloses(Below(r), r)
    BY <1>4, BelowFacts
  <2>2. \A z \in {r} \cup S : z \in Addr /\ z \notin U
    BY <1>4, <1>5
  <2>3. QED BY <1>1, <2>1, <2>2 DEF Encloses
<1>7. x \in S
  BY <1>4, <1>5, <1>6 DEF Below
<1>8. QED BY <1>7

(* Nor does one hold itself.                                               *)
LEMMA NotBelowItself ==
  ASSUME Cells, live \subseteq Reachable, NEW a \in Addr
  PROVE  a \notin Below(a)
<1>1. SUFFICES ASSUME a \in Below(a) PROVE FALSE
  OBVIOUS
<1>2. PICK x \in Below(a) : \E y \in Addr \ Below(a) : x \in Holds(y)
  BY <1>1, BelowFacts, NoCircle
<1>3. PICK y \in Addr \ Below(a) : x \in Holds(y)
  BY <1>2
<1>4. PICK z \in {a} \cup Below(a) : x \in Holds(z)
  BY BelowFacts
<1>5. z \in Below(a) /\ z \in Addr
  BY <1>1, <1>4, BelowFacts, AddrFacts
<1>6. x \in Own(y) /\ x \in Own(z)
  BY <1>3, <1>4, HoldsOwn
<1>7. QED BY <1>3, <1>5, <1>6, OwnFacts

-----------------------------------------------------------------------------
(* What each step does to a cell.                                          *)

(* A Null, and an empty container, have no elements.                       *)
LEMMA NoElements ==
  /\ Elements(None) = {} /\ None.kind = "Null"
  /\ \A type \in {"Array", "Map"} : Elements(Container(type, <<>>)) = {}
  BY NoneOK, ContainerOK DEF Elements, Items, None

(* The member of x once that of s has moved into a.                        *)
After(a, s, x) ==
  IF tag[s] = "Null" THEN member[x]
  ELSE IF x = s THEN None ELSE IF x = a THEN member[s] ELSE member[x]

LEMMA MovedEffect ==
  ASSUME Cells, NEW a \in Addr, NEW s \in Addr
  PROVE  /\ \A x \in Addr : Moved(member, a, s)[x] = After(a, s, x)
         /\ \A x \in Addr : Passed(a, s)[x] =
              IF x = s THEN "Null" ELSE IF x = a THEN tag[s] ELSE tag[x]
<1>1. member = [x \in Addr |-> member[x]] /\ tag \in [Addr -> Types]
  BY DEF Cells, Fits, Table
<1>2. \A x \in Addr : Moved(member, a, s)[x] = After(a, s, x)
  BY <1>1 DEF Moved, After
<1>3. QED BY <1>1, <1>2 DEF Passed

(* move_from.                                                              *)
LEMMA TakeEffect ==
  ASSUME HInv, DoTake
  PROVE  /\ \A x \in Addr : member'[x] = After(to, from, x)
         /\ \A x \in Addr : tag'[x] =
              IF x = from THEN "Null" ELSE IF x = to THEN tag[from] ELSE tag[x]
         /\ to \in Addr /\ from \in Addr
<1>1. Cells /\ to \in Addr /\ from \in Addr
  BY CellsParts, HeadFacts DEF HInv, DoTake, Ready
<1>2. member' = Moved(member, to, from) /\ tag' = Passed(to, from)
  BY DEF DoTake, Passed
<1>3. QED BY <1>1, <1>2, MovedEffect

(* ~Value, and its elements next.                                          *)
LEMMA UnwindEffect ==
  ASSUME NEW gone, Unwind(gone)
  PROVE  /\ \A x \in Addr : member'[x] = IF x \in gone /\ tag[x] # "Null" THEN None
                                        ELSE member[x]
         /\ \A x \in Addr : tag'[x] = IF x \in gone THEN "Null" ELSE tag[x]
         /\ doomed' = UNION {Holds(x) : x \in gone}
         /\ \A x \in Addr : Own(x)' \subseteq Own(x)
<1>1. \A x \in Addr : member'[x] = IF x \in gone /\ tag[x] # "Null" THEN None
                                    ELSE member[x]
  BY DEF Unwind
<1>2. \A x \in Addr : Own(x)' \subseteq Own(x)
  BY <1>1, NoElements DEF Own
<1>3. QED BY <1>1, <1>2 DEF Unwind

(* The destructors of the elements.                                        *)
LEMMA DestroyEffect ==
  ASSUME DestroyElements
  PROVE  /\ \A x \in Addr : member'[x] = IF x \in doomed THEN None ELSE member[x]
         /\ \A x \in Addr : tag'[x] = IF x \in doomed THEN "Null" ELSE tag[x]
         /\ \A x \in Addr : Own(x)' \subseteq Own(x)
<1>1. \A x \in Addr : member'[x] = IF x \in doomed THEN None ELSE member[x]
  BY DEF DestroyElements
<1>2. \A x \in Addr : Own(x)' \subseteq Own(x)
  BY <1>1, NoElements DEF Own
<1>3. QED BY <1>1, <1>2 DEF DestroyElements

(* construct_fromArray, construct_fromMap.                                 *)
LEMMA BuildEffect ==
  ASSUME HInv, DoBuild
  PROVE  /\ \A x \in Addr : x # to => member'[x] = member[x]
         /\ member'[to].kind = Head(todo).do /\ Elements(member'[to]) = {}
         /\ to \in Addr /\ tag' = tag
<1>1. Cells /\ to \in Addr
  BY CellsParts, HeadFacts DEF HInv, DoBuild, Ready
<1>2. Head(todo).do \in {"Array", "Map"}
  BY DEF DoBuild, Ready
<1>3. member' = Replace(member, to, Container(Head(todo).do, <<>>)) /\ tag' = tag
  BY DEF DoBuild, Replace
<1>4. /\ \A x \in Addr : x # to => member'[x] = member[x]
      /\ member'[to] = Container(Head(todo).do, <<>>)
  BY <1>1, <1>3 DEF Replace, Cells, Fits, Table
<1> DEFINE n == Container(Head(todo).do, <<>>)
<1>5. Elements(n) = {} /\ n.kind = Head(todo).do /\ member'[to] = n
  BY <1>2, <1>4, NoElements, ContainerOK
<1> HIDE DEF n
<1>6. Elements(member'[to]) = {} /\ member'[to].kind = Head(todo).do
  BY <1>5 DEF Own
<1>7. QED BY <1>1, <1>3, <1>4, <1>6

(* The elements of a sequence that has got one more.                       *)
LEMMA AppendElements ==
  ASSUME NEW S, NEW f \in Seq(S), NEW c \in S
  PROVE  Items(Append(f, c)) = Items(f) \cup {c}
<1> DEFINE g == Append(f, c)
<1>1. /\ Len(f) \in Nat /\ DOMAIN f = 1 .. Len(f) /\ DOMAIN g = 1 .. Len(f) + 1
      /\ \A i \in 1 .. Len(f) : g[i] = f[i]
      /\ g[Len(f) + 1] = c
  BY SMT
<1> HIDE DEF g
<1>2. ASSUME NEW i \in DOMAIN g
      PROVE  \/ i = Len(f) + 1 /\ g[i] = c
             \/ i \in DOMAIN f /\ g[i] = f[i]
  <2>1. CASE i = Len(f) + 1
    BY <1>1, <2>1
  <2>2. CASE i # Len(f) + 1
    <3>1. i \in 1 .. Len(f)
      BY <1>1, <2>2
    <3>2. QED BY <1>1, <3>1
  <2>3. QED BY <2>1, <2>2
<1>3. Len(f) + 1 \in DOMAIN g /\ \A i \in DOMAIN f : i \in DOMAIN g
  BY <1>1
<1>4. Items(g) = Items(f) \cup {c}
  <2>1. \A x \in Items(g) : x \in Items(f) \cup {c}
    BY <1>2 DEF Items
  <2>2. \A x \in Items(f) : x \in Items(g)
    BY <1>1, <1>3 DEF Items
  <2>3. c \in Items(g)
    BY <1>1, <1>3 DEF Items
  <2>4. QED BY <2>1, <2>2, <2>3
<1>5. QED BY <1>4 DEF g

(* emplace_back.                                                           *)
LEMMA EmplaceEffect ==
  ASSUME HInv, DoEmplace
  PROVE  /\ \A x \in Addr : x # to => member'[x] = After(Fresh, from, x)
         /\ member[to].kind = "Array" /\ member'[to].kind = "Array"
         /\ Elements(member'[to]) = Own(to) \cup {Fresh}
         /\ \A x \in Addr : tag'[x] =
              IF x = from THEN "Null" ELSE IF x = Fresh THEN tag[from] ELSE tag[x]
         /\ to \in Addr /\ from \in Addr /\ Fresh \in Heap \ live
         /\ to # Fresh /\ (from # to \/ tag[to] = "Null")
<1>1. Cells /\ to \in Addr /\ from \in Addr
  BY CellsParts, HeadFacts DEF HInv, DoEmplace, Ready
<1>2. ~ArrayGone /\ Fresh \in Heap \ live /\ Fresh \in Addr
  BY FreshFacts, AddrFacts DEF DoEmplace
<1>3. to # Fresh /\ member[to].kind = "Array" /\ (from # to \/ tag[to] = "Null")
  BY <1>2 DEF ArrayGone, Dead
<1> DEFINE m == Moved(member, Fresh, from)
           f == Append(member[to].items, Fresh)
           n == [member[to] EXCEPT !.items = f]
<1>4. \A x \in Addr : m[x] = After(Fresh, from, x)
  BY <1>1, <1>2, MovedEffect
<1>5. m[to] = member[to]
  BY <1>1, <1>3, <1>4 DEF After
<1>6. m = [x \in Addr |-> m[x]]
  BY <1>1, <1>2, MovedFacts DEF Fits, Table
<1> HIDE DEF m
<1>7. member' = Replace(m, to, n) /\ tag' = Passed(Fresh, from)
  BY <1>5 DEF DoEmplace, Holding, Passed, Replace, m
<1>8. MemberOK(member[to]) /\ member[to].items \in Seq(Heap)
  BY <1>1, <1>3 DEF Cells, Fits, Table, MemberOK
<1>9. n = [kind |-> member[to].kind, data |-> member[to].data, items |-> f]
  BY <1>8, HoldingFacts
<1>10. Items(f) = Own(to) \cup {Fresh}
  BY <1>2, <1>8, AppendElements DEF Own, Elements
<1> HIDE DEF f, n
<1>11. member'[to] = n /\ \A x \in Addr : x # to => member'[x] = m[x]
  BY <1>1, <1>6, <1>7 DEF Replace
<1>12. Elements(member'[to]) = Own(to) \cup {Fresh} /\ member'[to].kind = "Array"
  <2>1. n.items = f /\ n.kind = "Array"
    BY <1>3, <1>9
  <2>2. Elements(n) = Items(f)
    BY <2>1 DEF Elements
  <2>3. QED BY <1>10, <1>11, <2>1, <2>2 DEF Own
<1>13. QED BY <1>1, <1>2, <1>3, <1>4, <1>7, <1>11, <1>12, MovedEffect

(* map::operator[].                                                        *)
LEMMA KeyEffect ==
  ASSUME HInv, DoEmplaceKey
  PROVE  /\ \A x \in Addr : x # to => member'[x] = member[x]
         /\ member[to].kind = "Map" /\ member'[to].kind = "Map"
         /\ Elements(member'[to]) \subseteq Own(to) \cup {Fresh}
         /\ from \notin DOMAIN member[to].items => Elements(member'[to]) = Own(to) \cup {Fresh}
         /\ to \in Addr /\ from \in Keys /\ Fresh \in Heap \ live
         /\ to # Fresh /\ tag' = tag
<1>1. Cells /\ to \in Addr /\ from \in Keys
  BY CellsParts, HeadFacts DEF HInv, DoEmplaceKey, Ready
<1>2. ~MapGone /\ Fresh \in Heap \ live /\ tag' = tag
  BY FreshFacts DEF DoEmplaceKey
<1>3. to # Fresh /\ member[to].kind = "Map"
  BY <1>2 DEF MapGone, Dead
<1> DEFINE f == With(member[to].items, from, Fresh)
           n == [member[to] EXCEPT !.items = f]
<1>4. member' = Replace(member, to, n)
  BY DEF DoEmplaceKey, Holding, Replace
<1>5. n = [kind |-> member[to].kind, data |-> member[to].data, items |-> f]
  BY <1>1, HoldingFacts DEF Cells, Fits, Table
<1>6. /\ DOMAIN f = DOMAIN member[to].items \cup {from}
      /\ \A j \in DOMAIN f : f[j] = IF j = from THEN Fresh ELSE member[to].items[j]
  BY DEF With
<1> HIDE DEF f, n
<1>7. member'[to] = n /\ \A x \in Addr : x # to => member'[x] = member[x]
  BY <1>1, <1>4 DEF Replace, Cells, Fits, Table
<1>8. Elements(member'[to]) = Items(f) /\ member'[to].kind = "Map"
  <2>1. n.items = f /\ n.kind = "Map"
    BY <1>3, <1>5
  <2>2. Elements(n) = Items(f)
    BY <2>1 DEF Elements
  <2>3. QED BY <1>7, <2>1, <2>2 DEF Own
<1>9. /\ Elements(member'[to]) \subseteq Own(to) \cup {Fresh}
      /\ from \notin DOMAIN member[to].items => Elements(member'[to]) = Own(to) \cup {Fresh}
  BY <1>6, <1>8 DEF Own, Elements, Items
<1>10. QED BY <1>1, <1>2, <1>3, <1>7, <1>8, <1>9

(* One Value of a copy: c is what is copied, g are the cells it gets.      *)
CopyStep(c, g) ==
  LET f == IF tag[c[2]] = "Null" THEN <<>> ELSE member[c[2]].items
  IN  /\ c \in copying /\ c[1] \in Addr /\ c[2] \in Addr
      /\ g \in [DOMAIN f -> Heap \ live]
      /\ \A i, j \in DOMAIN f : g[i] = g[j] => i = j
      /\ \A x \in Addr : x # c[1] => member'[x] = member[x] /\ tag'[x] = tag[x]
      /\ tag'[c[1]] = tag[c[2]]
      /\ IF tag[c[2]] = "Null" THEN member'[c[1]] = member[c[1]]
         ELSE Elements(member'[c[1]]) = {g[i] : i \in DOMAIN f}
      /\ live' = live \cup {g[i] : i \in DOMAIN f}
      /\ copying' = (copying \ {c}) \cup {<<g[i], f[i]>> : i \in DOMAIN f}

LEMMA CopyEffect ==
  ASSUME HInv, CopyValue
  PROVE  \E c, g : CopyStep(c, g)
<1> DEFINE c == CHOOSE p \in copying : TRUE
           f == IF tag[c[2]] = "Null" THEN <<>> ELSE member[c[2]].items
           g == CHOOSE x \in Places(f) : TRUE
           n == [member[c[2]] EXCEPT !.items = g]
<1>1. Cells
  BY CellsParts DEF HInv
<1>2. c \in copying /\ c[1] \in Addr /\ c[2] \in Addr
  BY DEF CopyValue, HInv, HTypeOK
<1>3. /\ Places(f) # {}
      /\ tag' = [tag EXCEPT ![c[1]] = tag[c[2]]]
      /\ member' = IF tag[c[2]] = "Null" THEN member ELSE Replace(member, c[1], n)
      /\ live' = live \cup {g[i] : i \in DOMAIN f}
      /\ copying' = (copying \ {c}) \cup {<<g[i], f[i]>> : i \in DOMAIN f}
  BY DEF CopyValue, Replace
<1>4. g \in Places(f)
  BY <1>3
<1>5. g \in [DOMAIN f -> Heap \ live] /\ \A i, j \in DOMAIN f : g[i] = g[j] => i = j
  BY <1>4 DEF Places
<1>6. n = [kind |-> member[c[2]].kind, data |-> member[c[2]].data, items |-> g]
  BY <1>1, <1>2, HoldingFacts DEF Cells, Fits, Table
<1> HIDE DEF c, g, n
<1>7. /\ \A x \in Addr : x # c[1] => member'[x] = member[x] /\ tag'[x] = tag[x]
      /\ tag'[c[1]] = tag[c[2]]
  BY <1>1, <1>2, <1>3 DEF Replace, Cells, Fits, Table
<1>8. IF tag[c[2]] = "Null" THEN member'[c[1]] = member[c[1]]
      ELSE Elements(member'[c[1]]) = {g[i] : i \in DOMAIN f}
  <2>1. CASE tag[c[2]] = "Null"
    BY <1>3, <2>1
  <2>2. CASE tag[c[2]] # "Null"
    <3>1. member'[c[1]] = n
      BY <1>1, <1>2, <1>3, <2>2 DEF Replace, Cells, Fits, Table
    <3>2. n.items = g /\ DOMAIN g = DOMAIN f
      BY <1>5, <1>6
    <3> HIDE DEF f
    <3>3. Elements(n) = {g[i] : i \in DOMAIN f}
      BY <3>2 DEF Elements, Items
    <3>4. QED BY <2>2, <3>1, <3>3 DEF Own
  <2>3. QED BY <2>1, <2>2
<1>9. CopyStep(c, g)
  BY <1>2, <1>3, <1>5, <1>7, <1>8 DEF CopyStep
<1>10. QED BY <1>9

-----------------------------------------------------------------------------
(* The programs of the calls.                                              *)

(* operator = (Value&&).                                                   *)
LEMMA MovePlan ==
  ASSUME NEW c, NEW t, NEW m, NEW cells, NEW gone, NEW a, NEW s, c.to = a,
         \/ c.op = "new" /\ s \notin Heap
         \/ c.op = "move" /\ (s \in Heap => s \in c.kept \/ c.kin = "below")
  PROVE  Plan(c, t, m, cells, gone, MoveAssign(a, s))
<1> DEFINE p == MoveAssign(a, s)
<1>1. Len(p) = 2 /\ p[1] = Destruct(a) /\ p[2] = Take(a, s)
  BY DEF MoveAssign, move_from
<1> HIDE DEF p
<1>2. \A n \in 1 .. 2 : n = 1 \/ n = 2
  OBVIOUS
<1>3. \A n \in 1 .. 2 : StepOK(c, t, p, n)
  BY <1>1, <1>2 DEF StepOK, Freeing, Pushing, Destruct, Take
<1>4. \A n \in 1 .. 2 : GrowOK(c, m, p, n)
  BY <1>1, <1>2 DEF GrowOK, Destruct, Take
<1>5. \A n \in 1 .. 2 : ReadOK(c, cells, gone, p, n)
  BY <1>1, <1>2 DEF ReadOK, Destruct, Take
<1>6. QED BY <1>1, <1>3, <1>4, <1>5 DEF Plan, p

(* operator = (const Value&).                                              *)
LEMMA CopyPlan ==
  ASSUME NEW c, NEW t, NEW m, NEW cells, NEW gone, NEW a, NEW s, c.to = a,
         c.op = "copy", s \in Heap => s \in c.kept \/ c.kin = "below"
  PROVE  Plan(c, t, m, cells, gone, CopyAssign(a, s))
<1> DEFINE p == <<Destruct(a), Copy(s), Take(a, Copied)>>
<1>1. Len(p) = 3 /\ p[1] = Destruct(a) /\ p[2] = Copy(s) /\ p[3] = Take(a, Copied)
  OBVIOUS
<1>2. CopyAssign(a, s) \in {<<>>, p}
  BY DEF CopyAssign, copy_from
<1>3. Plan(c, t, m, cells, gone, <<>>)
  BY DEF Plan
<1> HIDE DEF p
<1>4. \A n \in 1 .. 3 : n = 1 \/ n = 2 \/ n = 3
  OBVIOUS
<1>5. \A n \in 1 .. 3 : StepOK(c, t, p, n)
  BY <1>1, <1>4 DEF StepOK, Freeing, Pushing, Destruct, Copy, Take
<1>6. \A n \in 1 .. 3 : GrowOK(c, m, p, n)
  BY <1>1, <1>4 DEF GrowOK, Destruct, Copy, Take
<1>7. \A n \in 1 .. 3 : ReadOK(c, cells, gone, p, n)
  BY <1>1, <1>4, AddrFacts DEF ReadOK, Destruct, Copy, Take
<1>8. Plan(c, t, m, cells, gone, p)
  BY <1>1, <1>5, <1>6, <1>7 DEF Plan
<1>9. QED BY <1>2, <1>3, <1>8

(* push_back(const Value&): the Array is there when it is added to.        *)
LEMMA PushCopyPlan ==
  ASSUME NEW c, NEW cells, NEW gone, NEW a \in Addr, NEW s \in Addr,
         c.to = a, c.op = "push_copy", Cells, a \notin {Tmp, Copied},
         a \in Heap => a \in c.kept, s \in Heap => s \in c.kept
  PROVE  Plan(c, tag, member, cells, gone, push_back_copy(a, s))
<1>1. CASE tag[a] = "Null"
  <2> DEFINE p == <<Build(a), SetTag(a), Copy(s), Emplace(a, Copied)>>
  <2>1. /\ Len(p) = 4 /\ p[1] = Build(a) /\ p[2] = SetTag(a) /\ p[3] = Copy(s)
        /\ p[4] = Emplace(a, Copied)
    OBVIOUS
  <2> HIDE DEF p
  <2>2. \A n \in 1 .. 4 : n = 1 \/ n = 2 \/ n = 3 \/ n = 4
    OBVIOUS
  <2>3. \A n \in 1 .. 4 : StepOK(c, tag, p, n)
    BY <2>1, <2>2 DEF StepOK, Freeing, Pushing, Build, SetTag, Copy, Emplace
  <2>4. BuiltAt(member[a].kind, a, "Array", p, 4)
    <3>1. p[1].do = "Array" /\ p[1].to = a
      BY <2>1 DEF Build
    <3>2. \A j \in 1 + 1 .. 4 - 1 : ~Alters(p[j], a)
      <4>1. \A j \in 1 + 1 .. 4 - 1 : j = 2 \/ j = 3
        OBVIOUS
      <4>2. QED BY <2>1, <4>1 DEF Alters, SetTag, Copy
    <3>3. QED BY <3>1, <3>2 DEF BuiltAt
  <2>5. \A n \in 1 .. 4 : GrowOK(c, member, p, n)
    BY <2>1, <2>2, <2>4 DEF GrowOK, Build, SetTag, Copy, Emplace
  <2>6. \A n \in 1 .. 4 : ReadOK(c, cells, gone, p, n)
    BY <2>1, <2>2 DEF ReadOK, Build, SetTag, Copy, Emplace
  <2>7. QED BY <1>1, <2>1, <2>3, <2>5, <2>6 DEF Plan, push_back_copy, p
<1>2. CASE tag[a] = "Array"
  <2> DEFINE p == <<Copy(s), Emplace(a, Copied)>>
  <2>1. Len(p) = 2 /\ p[1] = Copy(s) /\ p[2] = Emplace(a, Copied)
    OBVIOUS
  <2> HIDE DEF p
  <2>2. \A n \in 1 .. 2 : n = 1 \/ n = 2
    OBVIOUS
  <2>3. \A n \in 1 .. 2 : StepOK(c, tag, p, n)
    BY <2>1, <2>2 DEF StepOK, Freeing, Pushing, Copy, Emplace
  <2>4. BuiltAt(member[a].kind, a, "Array", p, 2)
    <3>1. member[a].kind = "Array"
      BY <1>2 DEF Cells, Fits, Truth
    <3>2. \A j \in 0 + 1 .. 2 - 1 : ~Alters(p[j], a)
      <4>1. \A j \in 0 + 1 .. 2 - 1 : j = 1
        OBVIOUS
      <4>2. QED BY <2>1, <4>1 DEF Alters, Copy
    <3>3. QED BY <3>1, <3>2 DEF BuiltAt
  <2>5. \A n \in 1 .. 2 : GrowOK(c, member, p, n)
    BY <2>1, <2>2, <2>4 DEF GrowOK, Copy, Emplace
  <2>6. \A n \in 1 .. 2 : ReadOK(c, cells, gone, p, n)
    BY <2>1, <2>2 DEF ReadOK, Copy, Emplace
  <2>7. QED BY <1>2, <2>1, <2>3, <2>5, <2>6 DEF Plan, push_back_copy, p
<1>3. CASE tag[a] \notin {"Null", "Array"}
  <2> DEFINE p == <<Take(Tmp, a), Build(a), Emplace(a, Tmp), Copy(s),
                    Emplace(a, Copied), SetTag(a)>>
  <2>1. /\ Len(p) = 6 /\ p[1] = Take(Tmp, a) /\ p[2] = Build(a) /\ p[3] = Emplace(a, Tmp)
        /\ p[4] = Copy(s) /\ p[5] = Emplace(a, Copied) /\ p[6] = SetTag(a)
    OBVIOUS
  <2> HIDE DEF p
  <2>2. \A n \in 1 .. 6 : n = 1 \/ n = 2 \/ n = 3 \/ n = 4 \/ n = 5 \/ n = 6
    OBVIOUS
  <2>3. \A n \in 1 .. 6 : StepOK(c, tag, p, n)
    BY <2>1, <2>2 DEF StepOK, Freeing, Pushing, Take, Build, SetTag, Copy, Emplace
  <2>4. \A n \in {3, 5} : BuiltAt(member[a].kind, a, "Array", p, n)
    <3>1. p[2].do = "Array" /\ p[2].to = a
      BY <2>1 DEF Build
    <3>2. \A n \in {3, 5} : \A j \in 2 + 1 .. n - 1 : ~Alters(p[j], a)
      <4>1. \A n \in {3, 5} : \A j \in 2 + 1 .. n - 1 : j = 3 \/ j = 4
        OBVIOUS
      <4>2. QED BY <2>1, <4>1 DEF Alters, Emplace, Copy
    <3>3. QED BY <3>1, <3>2 DEF BuiltAt
  <2>5. \A n \in 1 .. 6 : GrowOK(c, member, p, n)
    BY <2>1, <2>2, <2>4 DEF GrowOK, Take, Build, SetTag, Copy, Emplace
  <2>6. \A n \in 1 .. 6 : ReadOK(c, cells, gone, p, n)
    BY <2>1, <2>2 DEF ReadOK, Take, Build, SetTag, Copy, Emplace
  <2>7. QED BY <1>3, <2>1, <2>3, <2>5, <2>6 DEF Plan, push_back_copy, p
<1>4. QED BY <1>1, <1>2, <1>3

(* push_back(Value&&).                                                     *)
LEMMA PushMovePlan ==
  ASSUME NEW c, NEW cells, NEW gone, NEW a \in Addr, NEW s \in Addr,
         c.to = a, c.op = "push_move", Cells, a \notin {Tmp, Copied},
         a \in Heap => a \in c.kept, a = s => c.kin = "same"
  PROVE  Plan(c, tag, member, cells, gone, push_back_move(a, s))
<1>1. CASE tag[a] = "Null"
  <2> DEFINE p == <<Build(a), SetTag(a), Emplace(a, s)>>
  <2>1. Len(p) = 3 /\ p[1] = Build(a) /\ p[2] = SetTag(a) /\ p[3] = Emplace(a, s)
    OBVIOUS
  <2> HIDE DEF p
  <2>2. \A n \in 1 .. 3 : n = 1 \/ n = 2 \/ n = 3
    OBVIOUS
  <2>3. \A n \in 1 .. 3 : StepOK(c, tag, p, n)
    BY <2>1, <2>2 DEF StepOK, Freeing, Pushing, Build, SetTag, Emplace
  <2>4. BuiltAt(member[a].kind, a, "Array", p, 3)
    <3>1. p[1].do = "Array" /\ p[1].to = a
      BY <2>1 DEF Build
    <3>2. \A j \in 1 + 1 .. 3 - 1 : ~Alters(p[j], a)
      <4>1. \A j \in 1 + 1 .. 3 - 1 : j = 2
        OBVIOUS
      <4>2. QED BY <2>1, <4>1 DEF Alters, SetTag
    <3>3. QED BY <3>1, <3>2 DEF BuiltAt
  <2>5. \A n \in 1 .. 3 : GrowOK(c, member, p, n)
    BY <2>1, <2>2, <2>4 DEF GrowOK, Build, SetTag, Emplace
  <2>6. \A n \in 1 .. 3 : ReadOK(c, cells, gone, p, n)
    BY <2>1, <2>2 DEF ReadOK, Build, SetTag, Emplace
  <2>7. QED BY <1>1, <2>1, <2>3, <2>5, <2>6 DEF Plan, push_back_move, p
<1>2. CASE tag[a] = "Array"
  <2> DEFINE p == <<Emplace(a, s)>>
  <2>1. Len(p) = 1 /\ p[1] = Emplace(a, s)
    OBVIOUS
  <2> HIDE DEF p
  <2>2. \A n \in 1 .. 1 : n = 1
    OBVIOUS
  <2>3. \A n \in 1 .. 1 : StepOK(c, tag, p, n)
    BY <2>1, <2>2 DEF StepOK, Freeing, Pushing, Emplace
  <2>4. BuiltAt(member[a].kind, a, "Array", p, 1)
    <3>1. member[a].kind = "Array"
      BY <1>2 DEF Cells, Fits, Truth
    <3>2. QED BY <3>1 DEF BuiltAt
  <2>5. \A n \in 1 .. 1 : GrowOK(c, member, p, n)
    BY <2>1, <2>2, <2>4 DEF GrowOK, Emplace
  <2>6. \A n \in 1 .. 1 : ReadOK(c, cells, gone, p, n)
    BY <2>1, <2>2 DEF ReadOK, Emplace
  <2>7. QED BY <1>2, <2>1, <2>3, <2>5, <2>6 DEF Plan, push_back_move, p
<1>3. CASE tag[a] \notin {"Null", "Array"}
  <2> DEFINE p == <<Take(Tmp, a), Build(a), Emplace(a, Tmp), Emplace(a, s), SetTag(a)>>
  <2>1. /\ Len(p) = 5 /\ p[1] = Take(Tmp, a) /\ p[2] = Build(a) /\ p[3] = Emplace(a, Tmp)
        /\ p[4] = Emplace(a, s) /\ p[5] = SetTag(a)
    OBVIOUS
  <2> HIDE DEF p
  <2>2. \A n \in 1 .. 5 : n = 1 \/ n = 2 \/ n = 3 \/ n = 4 \/ n = 5
    OBVIOUS
  <2>3. \A n \in 1 .. 5 : StepOK(c, tag, p, n)
    BY <2>1, <2>2 DEF StepOK, Freeing, Pushing, Take, Build, SetTag, Emplace
  <2>4. \A n \in {3, 4} : BuiltAt(member[a].kind, a, "Array", p, n)
    <3>1. p[2].do = "Array" /\ p[2].to = a
      BY <2>1 DEF Build
    <3>2. \A n \in {3, 4} : \A j \in 2 + 1 .. n - 1 : ~Alters(p[j], a)
      <4>1. \A n \in {3, 4} : \A j \in 2 + 1 .. n - 1 : j = 3
        OBVIOUS
      <4>2. QED BY <2>1, <4>1 DEF Alters, Emplace
    <3>3. QED BY <3>1, <3>2 DEF BuiltAt
  <2>5. \A n \in 1 .. 5 : GrowOK(c, member, p, n)
    BY <2>1, <2>2, <2>4 DEF GrowOK, Take, Build, SetTag, Emplace
  <2>6. \A n \in 1 .. 5 : ReadOK(c, cells, gone, p, n)
    BY <2>1, <2>2 DEF ReadOK, Take, Build, SetTag, Emplace
  <2>7. QED BY <1>3, <2>1, <2>3, <2>5, <2>6 DEF Plan, push_back_move, p
<1>4. QED BY <1>1, <1>2, <1>3

(* swap destructs a Value when what it was has been taken.                 *)
LEMMA SwapPlan ==
  ASSUME NEW c, NEW t, NEW m, NEW cells, NEW gone, NEW a \in Addr, NEW s \in Addr,
         c.op = "swap", a # Tmp, s # Tmp,
         a \in Heap => a \in c.kept, s \in Heap => s \in c.kept
  PROVE  Plan(c, t, m, cells, gone, swap(a, s))
<1> DEFINE p == <<Take(Tmp, s), Destruct(s), Take(s, a), Destruct(a), Take(a, Tmp)>>
<1>1. /\ Len(p) = 5 /\ p[1] = Take(Tmp, s) /\ p[2] = Destruct(s) /\ p[3] = Take(s, a)
      /\ p[4] = Destruct(a) /\ p[5] = Take(a, Tmp)
  OBVIOUS
<1> HIDE DEF p
<1>2. \A n \in 1 .. 5 : n = 1 \/ n = 2 \/ n = 3 \/ n = 4 \/ n = 5
  OBVIOUS
<1>3. EmptyAt(t, s, p, 2) /\ EmptyAt(t, a, p, 4)
  <2>1. p[1].do = "take" /\ p[1].from = s /\ p[3].do = "take" /\ p[3].from = a
    BY <1>1 DEF Take
  <2>2. /\ 1 \in 0 .. 2 - 1 /\ \A j \in 1 + 1 .. 2 - 1 : p[j].to # s
        /\ 3 \in 0 .. 4 - 1 /\ \A j \in 3 + 1 .. 4 - 1 : p[j].to # a
    OBVIOUS
  <2>3. QED BY <2>1, <2>2 DEF EmptyAt
<1>4. \A n \in 1 .. 5 : StepOK(c, t, p, n)
  BY <1>1, <1>2, <1>3 DEF StepOK, Freeing, Pushing, Take, Destruct
<1>5. \A n \in 1 .. 5 : GrowOK(c, m, p, n)
  BY <1>1, <1>2 DEF GrowOK, Take, Destruct
<1>6. \A n \in 1 .. 5 : ReadOK(c, cells, gone, p, n)
  BY <1>1, <1>2, AddrFacts DEF ReadOK, Take, Destruct
<1>7. QED BY <1>1, <1>4, <1>5, <1>6 DEF Plan, swap, p

(* An initializer list reads its elements before anything is destroyed.    *)
LEMMA ListPlan ==
  ASSUME NEW c, NEW t, NEW m, NEW cells, NEW a, NEW s \in Addr, NEW u \in Addr,
         c.op = "list", c.to = a, s \in Heap => s \in cells, u \in Heap => u \in cells
  PROVE  /\ Plan(c, t, m, cells, {}, AssignList(a, <<s>>))
         /\ Plan(c, t, m, cells, {}, AssignList(a, <<s, u>>))
<1>1. Plan(c, t, m, cells, {}, AssignList(a, <<s>>))
  <2> DEFINE p == <<Copy(s), Take(Tmp, Copied), Destruct(a), Take(a, Tmp)>>
  <2>0. AssignList(a, <<s>>) = p
    BY DEF AssignList
  <2>1. /\ Len(p) = 4 /\ p[1] = Copy(s) /\ p[2] = Take(Tmp, Copied)
        /\ p[3] = Destruct(a) /\ p[4] = Take(a, Tmp)
    OBVIOUS
  <2> HIDE DEF p
  <2>2. \A n \in 1 .. 4 : n = 1 \/ n = 2 \/ n = 3 \/ n = 4
    OBVIOUS
  <2>3. \A n \in 1 .. 4 : StepOK(c, t, p, n)
    BY <2>1, <2>2 DEF StepOK, Freeing, Pushing, Take, Destruct, Copy
  <2>4. \A n \in 1 .. 4 : GrowOK(c, m, p, n)
    BY <2>1, <2>2 DEF GrowOK, Take, Destruct, Copy
  <2>5. \A n \in 1 .. 4 : ReadOK(c, cells, {}, p, n)
    BY <2>1, <2>2, AddrFacts DEF ReadOK, Take, Destruct, Copy
  <2>6. QED BY <2>0, <2>1, <2>3, <2>4, <2>5 DEF Plan
<1>2. Plan(c, t, m, cells, {}, AssignList(a, <<s, u>>))
  <2> DEFINE p == <<Build(Tmp), SetTag(Tmp), Copy(s), Emplace(Tmp, Copied),
                    Copy(u), Emplace(Tmp, Copied), Destruct(a), Take(a, Tmp)>>
  <2>0. AssignList(a, <<s, u>>) = p
    BY DEF AssignList
  <2>1. /\ Len(p) = 8 /\ p[1] = Build(Tmp) /\ p[2] = SetTag(Tmp) /\ p[3] = Copy(s)
        /\ p[4] = Emplace(Tmp, Copied) /\ p[5] = Copy(u) /\ p[6] = Emplace(Tmp, Copied)
        /\ p[7] = Destruct(a) /\ p[8] = Take(a, Tmp)
    OBVIOUS
  <2> HIDE DEF p
  <2>2. \A n \in 1 .. 8 : \/ n = 1 \/ n = 2 \/ n = 3 \/ n = 4
                          \/ n = 5 \/ n = 6 \/ n = 7 \/ n = 8
    OBVIOUS
  <2>3. \A n \in 1 .. 8 : StepOK(c, t, p, n)
    BY <2>1, <2>2 DEF StepOK, Freeing, Pushing, Build, SetTag, Copy, Emplace, Take, Destruct
  <2>4. \A n \in {4, 6} : BuiltAt(m[Tmp].kind, Tmp, "Array", p, n)
    <3>1. p[1].do = "Array" /\ p[1].to = Tmp
      BY <2>1 DEF Build
    <3>2. \A n \in {4, 6} : \A j \in 1 + 1 .. n - 1 : ~Alters(p[j], Tmp)
      <4>1. \A n \in {4, 6} : \A j \in 1 + 1 .. n - 1 : j = 2 \/ j = 3 \/ j = 4 \/ j = 5
        OBVIOUS
      <4>2. QED BY <2>1, <4>1, AddrFacts DEF Alters, SetTag, Copy, Emplace
    <3>3. QED BY <3>1, <3>2 DEF BuiltAt
  <2>5. \A n \in 1 .. 8 : GrowOK(c, m, p, n)
    BY <2>1, <2>2, <2>4, AddrFacts
    DEF GrowOK, Build, SetTag, Copy, Emplace, Take, Destruct
  <2>6. \A n \in 1 .. 8 : ReadOK(c, cells, {}, p, n)
    <3>1. p[3].do = "copy" /\ \A j \in 1 .. 2 : p[j].do # "destruct"
      <4>1. \A j \in 1 .. 2 : j = 1 \/ j = 2
        OBVIOUS
      <4>2. QED BY <2>1, <4>1 DEF Build, SetTag, Copy
    <3>2. \A j \in 1 .. 4 : p[j].do # "destruct"
      <4>1. \A j \in 1 .. 4 : j = 1 \/ j = 2 \/ j = 3 \/ j = 4
        OBVIOUS
      <4>2. QED BY <2>1, <4>1 DEF Build, SetTag, Copy, Emplace
    <3>3. ReadOK(c, cells, {}, p, 3) /\ ReadOK(c, cells, {}, p, 5)
      BY <2>1, <3>1, <3>2 DEF ReadOK, Copy
    <3>4. \A n \in {1, 2, 4, 6, 7, 8} : ReadOK(c, cells, {}, p, n)
      BY <2>1, AddrFacts DEF ReadOK, Build, SetTag, Emplace, Take, Destruct
    <3>5. QED BY <2>2, <3>3, <3>4
  <2>7. QED BY <2>0, <2>1, <2>3, <2>5, <2>6 DEF Plan
<1>3. QED BY <1>1, <1>2

(* operator[] adds to a Map.                                               *)
LEMMA IndexPlan ==
  ASSUME NEW c, NEW cells, NEW gone, NEW a \in Addr, NEW k,
         c.op = "index", c.to = a, Cells
  PROVE  Plan(c, tag, member, cells, gone, operator_index(a, k))
<1>1. CASE tag[a] = "Null"
  <2> DEFINE p == <<BuildMap(a), SetTag(a), EmplaceKey(a, k)>>
  <2>1. Len(p) = 3 /\ p[1] = BuildMap(a) /\ p[2] = SetTag(a) /\ p[3] = EmplaceKey(a, k)
    OBVIOUS
  <2> HIDE DEF p
  <2>2. \A n \in 1 .. 3 : n = 1 \/ n = 2 \/ n = 3
    OBVIOUS
  <2>3. \A n \in 1 .. 3 : StepOK(c, tag, p, n)
    BY <2>1, <2>2 DEF StepOK, Freeing, Pushing, BuildMap, SetTag, EmplaceKey
  <2>4. BuiltAt(member[a].kind, a, "Map", p, 3)
    <3>1. p[1].do = "Map" /\ p[1].to = a
      BY <2>1 DEF BuildMap
    <3>2. \A j \in 1 + 1 .. 3 - 1 : ~Alters(p[j], a)
      <4>1. \A j \in 1 + 1 .. 3 - 1 : j = 2
        OBVIOUS
      <4>2. QED BY <2>1, <4>1 DEF Alters, SetTag
    <3>3. QED BY <3>1, <3>2 DEF BuiltAt
  <2>5. \A n \in 1 .. 3 : GrowOK(c, member, p, n)
    BY <2>1, <2>2, <2>4 DEF GrowOK, BuildMap, SetTag, EmplaceKey
  <2>6. \A n \in 1 .. 3 : ReadOK(c, cells, gone, p, n)
    BY <2>1, <2>2 DEF ReadOK, BuildMap, SetTag, EmplaceKey
  <2>7. QED BY <1>1, <2>1, <2>3, <2>5, <2>6 DEF Plan, operator_index, p
<1>2. CASE tag[a] = "Map" /\ k \notin DOMAIN member[a].items
  <2> DEFINE p == <<EmplaceKey(a, k)>>
  <2>1. Len(p) = 1 /\ p[1] = EmplaceKey(a, k)
    OBVIOUS
  <2> HIDE DEF p
  <2>2. \A n \in 1 .. 1 : n = 1
    OBVIOUS
  <2>3. \A n \in 1 .. 1 : StepOK(c, tag, p, n)
    BY <2>1, <2>2 DEF StepOK, Freeing, Pushing, EmplaceKey
  <2>4. BuiltAt(member[a].kind, a, "Map", p, 1)
    <3>1. member[a].kind = "Map"
      BY <1>2 DEF Cells, Fits, Truth
    <3>2. QED BY <3>1 DEF BuiltAt
  <2>5. \A n \in 1 .. 1 : GrowOK(c, member, p, n)
    BY <2>1, <2>2, <2>4 DEF GrowOK, EmplaceKey
  <2>6. \A n \in 1 .. 1 : ReadOK(c, cells, gone, p, n)
    BY <2>1, <2>2 DEF ReadOK, EmplaceKey
  <2>7. QED BY <1>2, <2>1, <2>3, <2>5, <2>6 DEF Plan, operator_index, p
<1>3. CASE tag[a] # "Null" /\ ~(tag[a] = "Map" /\ k \notin DOMAIN member[a].items)
  BY <1>3 DEF Plan, operator_index
<1>4. QED BY <1>1, <1>2, <1>3

-----------------------------------------------------------------------------
(* What is left of a program.                                              *)

LEMMA TailFacts ==
  ASSUME NEW S, NEW p \in Seq(S), p # <<>>
  PROVE  /\ Len(p) \in Nat \ {0} /\ Len(Tail(p)) = Len(p) - 1
         /\ Head(p) = p[1] /\ Head(p) \in S /\ 1 \in 1 .. Len(p)
         /\ \A n \in 1 .. Len(p) - 1 : Tail(p)[n] = p[n + 1]
<1>1. Len(p) \in Nat /\ Tail(p) \in Seq(S) /\ Len(Tail(p)) = Len(p) - 1
  BY SMT
<1>2. Len(p) # 0 /\ Head(p) = p[1] /\ Head(p) \in S
  BY SMT
<1>3. \A n \in 1 .. Len(p) - 1 : Tail(p)[n] = p[n + 1]
  BY <1>1, SMT
<1>4. QED BY <1>1, <1>2, <1>3

(* A member that will be of a type still will be, or is.                   *)
LEMMA BuiltTail ==
  ASSUME NEW S, NEW p \in Seq(S), p # <<>>, NEW n \in 1 .. Len(p) - 1,
         NEW x, NEW type, NEW k, NEW l, BuiltAt(k, x, type, p, n + 1),
         Head(p).do = type /\ Head(p).to = x => l = type,
         ~Alters(Head(p), x) => l = k
  PROVE  BuiltAt(l, x, type, Tail(p), n)
<1>1. /\ Len(p) \in Nat /\ Head(p) = p[1] /\ \A j \in 1 .. Len(p) - 1 : Tail(p)[j] = p[j + 1]
      /\ n \in Nat /\ n < Len(p)
  BY TailFacts
<1>2. PICK m \in 0 .. n :
        /\ IF m = 0 THEN k = type ELSE p[m].do = type /\ p[m].to = x
        /\ \A j \in m + 1 .. n : ~Alters(p[j], x)
  <2>1. (n + 1) - 1 = n
    BY <1>1
  <2>2. QED BY <2>1 DEF BuiltAt
<1>3. \A j \in 1 .. n - 1 : j + 1 \in m + 1 .. n \/ j + 1 <= m
  BY <1>1, <1>2
<1>4. CASE m \in {0, 1}
  <2>1. l = type
    BY <1>1, <1>2, <1>4
  <2>2. \A j \in 0 + 1 .. n - 1 : ~Alters(Tail(p)[j], x)
    <3>1. SUFFICES ASSUME NEW j \in 0 + 1 .. n - 1 PROVE ~Alters(Tail(p)[j], x)
      OBVIOUS
    <3>2. j \in 1 .. Len(p) - 1 /\ j + 1 \in m + 1 .. n
      BY <1>1, <1>4
    <3>3. QED BY <1>1, <1>2, <3>2
  <2>3. 0 \in 0 .. n - 1
    BY <1>1
  <2>4. QED BY <2>1, <2>2, <2>3 DEF BuiltAt
<1>5. CASE m \notin {0, 1}
  <2>1. m - 1 \in 1 .. n - 1 /\ m - 1 \in 0 .. n - 1 /\ m - 1 # 0
    BY <1>1, <1>2, <1>5
  <2>2. Tail(p)[m - 1] = p[m]
    <3>1. m - 1 \in 1 .. Len(p) - 1 /\ (m - 1) + 1 = m
      BY <1>1, <1>2, <2>1
    <3>2. QED BY <1>1, <3>1
  <2>3. p[m].do = type /\ p[m].to = x
    BY <1>2, <1>5
  <2>4. \A j \in (m - 1) + 1 .. n - 1 : ~Alters(Tail(p)[j], x)
    <3>1. SUFFICES ASSUME NEW j \in (m - 1) + 1 .. n - 1 PROVE ~Alters(Tail(p)[j], x)
      OBVIOUS
    <3>2. j \in 1 .. Len(p) - 1 /\ j + 1 \in m + 1 .. n
      BY <1>1, <1>2, <2>1
    <3>3. QED BY <1>1, <1>2, <3>2
  <2>5. QED BY <2>1, <2>2, <2>3, <2>4 DEF BuiltAt
<1>6. QED BY <1>4, <1>5

(* So does a Value that will be Null.                                      *)
LEMMA EmptyTail ==
  ASSUME NEW S, NEW p \in Seq(S), p # <<>>, NEW n \in 1 .. Len(p) - 1,
         NEW x, NEW t, NEW u, EmptyAt(t, x, p, n + 1),
         Head(p).do = "take" /\ Head(p).from = x => u[x] = "Null",
         t[x] = "Null" /\ Head(p).to # x => u[x] = "Null"
  PROVE  EmptyAt(u, x, Tail(p), n)
<1>1. /\ Len(p) \in Nat /\ Head(p) = p[1] /\ \A j \in 1 .. Len(p) - 1 : Tail(p)[j] = p[j + 1]
      /\ n \in Nat /\ n < Len(p)
  BY TailFacts
<1>2. PICK m \in 0 .. n :
        /\ IF m = 0 THEN t[x] = "Null" ELSE p[m].do = "take" /\ p[m].from = x
        /\ \A j \in m + 1 .. n : p[j].to # x
  <2>1. (n + 1) - 1 = n
    BY <1>1
  <2>2. QED BY <2>1 DEF EmptyAt
<1>4. CASE m \in {0, 1}
  <2>1. u[x] = "Null"
    BY <1>1, <1>2, <1>4
  <2>2. \A j \in 0 + 1 .. n - 1 : Tail(p)[j].to # x
    <3>1. SUFFICES ASSUME NEW j \in 0 + 1 .. n - 1 PROVE Tail(p)[j].to # x
      OBVIOUS
    <3>2. j \in 1 .. Len(p) - 1 /\ j + 1 \in m + 1 .. n
      BY <1>1, <1>4
    <3>3. QED BY <1>1, <1>2, <3>2
  <2>3. 0 \in 0 .. n - 1
    BY <1>1
  <2>4. QED BY <2>1, <2>2, <2>3 DEF EmptyAt
<1>5. CASE m \notin {0, 1}
  <2>1. m - 1 \in 1 .. n - 1 /\ m - 1 \in 0 .. n - 1 /\ m - 1 # 0
    BY <1>1, <1>2, <1>5
  <2>2. Tail(p)[m - 1] = p[m]
    <3>1. m - 1 \in 1 .. Len(p) - 1 /\ (m - 1) + 1 = m
      BY <1>1, <1>2, <2>1
    <3>2. QED BY <1>1, <3>1
  <2>3. p[m].do = "take" /\ p[m].from = x
    BY <1>2, <1>5
  <2>4. \A j \in (m - 1) + 1 .. n - 1 : Tail(p)[j].to # x
    <3>1. SUFFICES ASSUME NEW j \in (m - 1) + 1 .. n - 1 PROVE Tail(p)[j].to # x
      OBVIOUS
    <3>2. j \in 1 .. Len(p) - 1 /\ j + 1 \in m + 1 .. n
      BY <1>1, <1>2, <2>1
    <3>3. QED BY <1>1, <1>2, <3>2
  <2>5. QED BY <2>1, <2>2, <2>3, <2>4 DEF EmptyAt
<1>6. QED BY <1>4, <1>5

(* The rest of a program is planned as it was, when its first step did to  *)
(* the cells what it should.                                               *)
LEMMA PlanTail ==
  ASSUME NEW p \in Seq(Instructions), p # <<>>, NEW c,
         NEW t, NEW s, NEW cells, NEW u, NEW r, NEW rest, NEW gone,
         Plan(c, t, s, cells, {}, p),
         \A x \in {Tmp, c.to} :
           /\ IsBuild(Head(p)) /\ Head(p).to = x => r[x].kind = Head(p).do
           /\ ~Alters(Head(p), x) => r[x].kind = s[x].kind,
         c.op = "swap" => \A x \in Addr :
           /\ Head(p).do = "take" /\ Head(p).from = x => u[x] = "Null"
           /\ t[x] = "Null" /\ Head(p).to # x => u[x] = "Null",
         cells \subseteq rest,
         Head(p).do # "destruct" => gone = {}
  PROVE  Plan(c, u, r, rest, gone, Tail(p))
<1>1. /\ Len(p) \in Nat \ {0} /\ Len(Tail(p)) = Len(p) - 1
      /\ Head(p) = p[1] /\ Head(p) \in Instructions /\ 1 \in 1 .. Len(p)
      /\ \A n \in 1 .. Len(p) - 1 : Tail(p)[n] = p[n + 1]
  BY TailFacts
<1>2. SUFFICES ASSUME NEW n \in 1 .. Len(p) - 1
               PROVE  /\ StepOK(c, u, Tail(p), n) /\ GrowOK(c, r, Tail(p), n)
                      /\ ReadOK(c, rest, gone, Tail(p), n)
  BY <1>1 DEF Plan
<1> DEFINE i == Tail(p)[n]
<1>3. /\ n + 1 \in 1 .. Len(p) /\ i = p[n + 1] /\ n \in Nat /\ (n + 1) - 1 = n
      /\ (n + 1 = Len(p) => n = Len(p) - 1) /\ 1 \in 1 .. n /\ Tail(p)[n] = i
      /\ \A m \in 1 .. n - 1 : m + 1 \in 1 .. n /\ m \in 1 .. Len(p) - 1
  <2>1. Len(p) \in Nat
    BY <1>1
  <2>2. n + 1 \in 1 .. Len(p) /\ n \in Nat /\ (n + 1) - 1 = n /\ 1 \in 1 .. n
    BY <2>1
  <2>3. n + 1 = Len(p) => n = Len(p) - 1
    BY <2>1
  <2>4. \A m \in 1 .. n - 1 : m + 1 \in 1 .. n /\ m \in 1 .. Len(p) - 1
    BY <2>1
  <2>5. i = p[n + 1]
    BY <1>1
  <2>6. QED BY <2>2, <2>3, <2>4, <2>5
<1>4. /\ StepOK(c, t, p, n + 1) /\ GrowOK(c, s, p, n + 1) /\ ReadOK(c, cells, {}, p, n + 1)
      /\ p[n + 1] \in Instructions
  BY <1>3 DEF Plan
<1> HIDE DEF i
<1>5. StepOK(c, u, Tail(p), n)
  <2>1. ASSUME c.op = "swap", i.do # "take"
        PROVE  i.do = "destruct" /\ EmptyAt(u, i.to, Tail(p), n)
    <3>1. i.do = "destruct" /\ EmptyAt(t, i.to, p, n + 1)
      BY <1>3, <1>4, <2>1 DEF StepOK
    <3>2. i.to \in Addr
      BY <1>3, <1>4 DEF Instructions
    <3>3. QED BY <2>1, <3>1, <3>2, EmptyTail
  <2>2. /\ c.op \in Freeing =>
             \/ i.do = "destruct" /\ i.to = c.to
             \/ i.do = "take" /\ i.to = c.to /\ n + 1 = Len(p)
             \/ i.do = "copy"
             \/ i.do \in {"take", "emplace"} /\ i.to = Tmp /\ i.from = Copied
             \/ i.do \in {"Array", "Map", "tag"} /\ i.to = Tmp
        /\ c.op \in Pushing => i.do \notin {"destruct", "key"}
        /\ c.op = "index" => i.do \in {"Map", "tag", "key"} /\ i.to = c.to
    BY <1>3, <1>4 DEF StepOK
  <2>3. n + 1 = Len(p) => n = Len(Tail(p))
    BY <1>1, <1>3
  <2>4. QED BY <1>3, <2>1, <2>2, <2>3 DEF StepOK
<1>6. GrowOK(c, r, Tail(p), n)
  <2>1. ASSUME i.do \in {"emplace", "key"} PROVE i.to \in {Tmp, c.to}
    BY <1>3, <1>4, <2>1 DEF GrowOK
  <2>2. ASSUME i.to \in {Tmp, c.to}, NEW type \in {"Array", "Map"},
               BuiltAt(s[i.to].kind, i.to, type, p, n + 1)
        PROVE  BuiltAt(r[i.to].kind, i.to, type, Tail(p), n)
    <3>1. /\ Head(p).do = type /\ Head(p).to = i.to => r[i.to].kind = type
          /\ ~Alters(Head(p), i.to) => r[i.to].kind = s[i.to].kind
      BY <2>2 DEF IsBuild
    <3>2. QED BY <2>2, <3>1, BuiltTail
  <2>3. ASSUME i.do = "emplace" PROVE BuiltAt(r[i.to].kind, i.to, "Array", Tail(p), n)
    BY <1>3, <1>4, <2>1, <2>2, <2>3 DEF GrowOK
  <2>4. ASSUME i.do = "key" PROVE BuiltAt(r[i.to].kind, i.to, "Map", Tail(p), n)
    BY <1>3, <1>4, <2>1, <2>2, <2>4 DEF GrowOK
  <2>5. i.do = "emplace" /\ i.from = i.to => c.op = "push_move" /\ c.kin = "same"
    BY <1>3, <1>4 DEF GrowOK
  <2>6. QED BY <2>1, <2>3, <2>4, <2>5 DEF GrowOK, i
<1>7. ReadOK(c, rest, gone, Tail(p), n)
  <2>1. SUFFICES ASSUME i.do \in {"take", "copy"}, i.from \in Heap, i.from \notin c.kept,
                        ~(c.op \in {"copy", "move"} /\ c.kin = "below")
                 PROVE  /\ i.from \in rest /\ gone = {}
                        /\ \A m \in 1 .. n - 1 : Tail(p)[m].do # "destruct"
    BY DEF ReadOK, i
  <2>2. i.from \in cells /\ \A m \in 1 .. n : p[m].do # "destruct"
    BY <1>3, <1>4, <2>1 DEF ReadOK
  <2>3. Head(p).do # "destruct"
    BY <1>1, <1>3, <2>2
  <2>4. ASSUME NEW m \in 1 .. n - 1 PROVE Tail(p)[m].do # "destruct"
    <3>1. m + 1 \in 1 .. n /\ Tail(p)[m] = p[m + 1]
      BY <1>1, <1>3
    <3>2. QED BY <2>2, <3>1
  <2>5. QED BY <2>2, <2>3, <2>4
<1>8. QED BY <1>5, <1>6, <1>7

-----------------------------------------------------------------------------
(* The steps of a call.                                                    *)

(* What a call works on is not loose, and nothing that it keeps is gone    *)
(* while there is something left to do.                                    *)
LEMMA CallFacts ==
  ASSUME HInv, RunInv
  PROVE  /\ Cells /\ Loose \subseteq Heap /\ Heap \subseteq Addr
         /\ call.to \in Addr /\ call.to \notin Loose \cup {Tmp, Copied}
         /\ Tmp \notin Loose /\ Copied \notin Loose
         /\ outcome # "bad_alloc" =>
              /\ call.kept \subseteq live
              /\ call.op \notin Freeing => doomed = {}
         /\ todo # <<>> \/ copying # {} => outcome # "bad_alloc"
<1>1. Cells
  BY CellsParts DEF HInv
<1>2. Loose \subseteq Heap /\ Heap \subseteq Addr
  BY AddrFacts DEF Loose
<1>3. call.to \in Addr /\ call.to \notin Loose \cup {Tmp, Copied}
  BY AddrFacts, HeapAssumption DEF RunInv, CallOK, Loose
<1>4. Tmp \notin Loose /\ Copied \notin Loose
  BY <1>2, AddrFacts
<1>5. QED BY <1>1, <1>2, <1>3, <1>4 DEF RunInv, Excused

(* The first step is planned.                                              *)
LEMMA HeadPlan ==
  ASSUME HInv, RunInv, todo # <<>>
  PROVE  /\ todo \in Seq(Instructions) /\ Head(todo) = todo[1]
         /\ StepOK(call, tag, todo, 1) /\ GrowOK(call, member, todo, 1)
         /\ ReadOK(call, live, doomed, todo, 1)
<1>1. todo \in Seq(Instructions)
  BY DEF HInv, HTypeOK
<1>2. Head(todo) = todo[1] /\ 1 \in 1 .. Len(todo)
  BY <1>1, TailFacts
<1>3. QED BY <1>1, <1>2 DEF RunInv, Planned, Plan

(* What it may be, by what was called.                                     *)
LEMMA HeadKinds ==
  ASSUME HInv, RunInv, todo # <<>>
  PROVE  /\ call.op \in Freeing =>
              \/ Head(todo).do = "destruct" /\ to = call.to
              \/ Head(todo).do = "take" /\ to = call.to /\ Len(todo) = 1
              \/ Head(todo).do = "copy"
              \/ Head(todo).do \in {"take", "emplace"} /\ to = Tmp /\ from = Copied
              \/ Head(todo).do \in {"Array", "Map", "tag"} /\ to = Tmp
         /\ call.op \in Pushing => Head(todo).do \notin {"destruct", "key"}
         /\ call.op = "swap" =>
              \/ Head(todo).do = "take"
              \/ Head(todo).do = "destruct" /\ tag[to] = "Null"
         /\ call.op = "index" => Head(todo).do \in {"Map", "tag", "key"} /\ to = call.to
<1>1. StepOK(call, tag, todo, 1) /\ Head(todo) = todo[1]
  BY HeadPlan
<1>2. EmptyAt(tag, to, todo, 1) => tag[to] = "Null"
  <2>1. \A m \in 0 .. 1 - 1 : m = 0
    OBVIOUS
  <2>2. QED BY <2>1 DEF EmptyAt
<1>3. QED BY <1>1, <1>2 DEF StepOK, to, from

(* After a step that did to the cells what it should.                      *)
LEMMA Instructed ==
  ASSUME HInv, RunInv, Proceed, todo # <<>>, doomed = {}, outcome # "undefined",
         \A x \in {Tmp, call.to} :
           /\ IsBuild(Head(todo)) /\ to = x => member'[x].kind = Head(todo).do
           /\ ~Alters(Head(todo), x) => member'[x].kind = member[x].kind,
         call.op = "swap" => \A x \in Addr :
           /\ Head(todo).do = "take" /\ from = x => tag'[x] = "Null"
           /\ tag[x] = "Null" /\ to # x => tag'[x] = "Null",
         live \subseteq live',
         Head(todo).do # "destruct" => doomed' = {},
         IF call.op \in Freeing THEN LooseClosed' ELSE doomed' = {},
         CopiesOK'
  PROVE  RunInv'
<1>1. todo' = Tail(todo) /\ outcome' = outcome /\ call' = call
  BY DEF Proceed
<1>2. todo \in Seq(Instructions)
  BY DEF HInv, HTypeOK
<1>3. Plan(call, tag, member, live, {}, todo)
  BY DEF RunInv, Planned
<1>4. Plan(call, tag', member', live', doomed', Tail(todo))
  BY <1>2, <1>3, PlanTail DEF to, from
<1>5. Planned'
  BY <1>1, <1>4 DEF Planned
<1>6. outcome # "bad_alloc" /\ call.kept \subseteq live
  BY CallFacts
<1>7. UndefinedOnlyFromInside'
  BY <1>1 DEF UndefinedOnlyFromInside
<1>8. CallOK' /\ (Excused \/ call.kept \subseteq live)'
  BY <1>1, <1>6 DEF RunInv, CallOK
<1>9. QED BY <1>1, <1>5, <1>6, <1>7, <1>8 DEF RunInv

(* ~Value reaches what the call may free, or, in swap, nothing.            *)
LEMMA DestructReferences ==
  ASSUME HInv, RunInv, DoDestruct
  PROVE  RunInv'
<1>1. /\ Proceed /\ todo # <<>> /\ doomed = {} /\ copying' = {} /\ outcome # "undefined"
      /\ Head(todo).do = "destruct" /\ Unwind({to}) /\ live' = live
  BY DEF DoDestruct, Ready
<1>2. /\ \A x \in Addr : x # to => member'[x] = member[x]
      /\ \A x \in Addr : tag'[x] = IF x = to THEN "Null" ELSE tag[x]
      /\ doomed' = Holds(to) /\ to \in Addr
      /\ \A x \in Addr : Own(x)' \subseteq Own(x)
  <2>1. to \in Addr
    BY <1>1, HeadFacts DEF HInv
  <2>2. /\ \A x \in Addr : member'[x] = IF x \in {to} /\ tag[x] # "Null" THEN None
                                        ELSE member[x]
        /\ \A x \in Addr : tag'[x] = IF x \in {to} THEN "Null" ELSE tag[x]
        /\ doomed' = UNION {Holds(x) : x \in {to}}
        /\ \A x \in Addr : Own(x)' \subseteq Own(x)
    BY <1>1, UnwindEffect
  <2>3. UNION {Holds(x) : x \in {to}} = Holds(to)
    OBVIOUS
  <2>4. QED BY <2>1, <2>2, <2>3
<1>3. call' = call /\ todo' = Tail(todo)
  BY <1>1 DEF Proceed
<1>4. ASSUME call.op \in Freeing
      PROVE  LooseClosed'
  <2>1. to = call.to
    BY <1>1, <1>4, HeadKinds
  <2>2. LooseClosed
    BY <1>4 DEF RunInv
  <2>3. Own(call.to) \subseteq Loose
    <3>1. todo[1].do = "destruct" /\ 1 \in 1 .. Len(todo)
      BY <1>1, HeadPlan, TailFacts
    <3>2. QED BY <2>2, <3>1 DEF LooseClosed
  <2>4. doomed' \subseteq Loose
    BY <1>2, <2>1, <2>3, HoldsOwn
  <2>5. Loose' = Loose /\ Own(call.to)' \subseteq Own(call.to)
    BY <1>2, <1>3, CallFacts DEF Loose, Own
  <2>6. \A x \in Loose \cup {Tmp, Copied} : Own(x)' \subseteq Loose
    BY <1>2, <2>2, CallFacts, AddrFacts DEF LooseClosed
  <2>7. QED BY <1>3, <2>3, <2>4, <2>5, <2>6 DEF LooseClosed
<1>5. ASSUME call.op \notin Freeing
      PROVE  doomed' = {}
  <2>1. call.op = "swap"
    BY <1>1, <1>5, HeadKinds DEF RunInv, CallOK
  <2>2. QED BY <1>1, <1>2, <2>1, HeadKinds, HoldsOwn
<1>6. CopiesOK'
  BY <1>1, <1>3, HeadKinds DEF CopiesOK
<1>7. \A x \in {Tmp, call.to} : ~Alters(Head(todo), x) => member'[x].kind = member[x].kind
  BY <1>1, <1>2, CallFacts, AddrFacts DEF Alters, to
<1>8. QED BY <1>1, <1>2, <1>4, <1>5, <1>6, <1>7, Instructed DEF IsBuild

(* move_from takes a Value out of the cells of the call.                   *)
LEMMA TakeReferences ==
  ASSUME HInv, RunInv, DoTake
  PROVE  RunInv'
<1>1. /\ Proceed /\ todo # <<>> /\ doomed = {} /\ copying' = {} /\ outcome # "undefined"
      /\ Head(todo).do = "take" /\ live' = live /\ doomed' = {}
  BY DEF DoTake, Ready
<1>2. /\ \A x \in Addr : member'[x] = After(to, from, x)
      /\ \A x \in Addr : tag'[x] =
           IF x = from THEN "Null" ELSE IF x = to THEN tag[from] ELSE tag[x]
      /\ to \in Addr /\ from \in Addr
  BY TakeEffect
<1>3. call' = call /\ todo' = Tail(todo)
  BY <1>1 DEF Proceed
<1>4. ASSUME call.op \in Freeing
      PROVE  LooseClosed'
  <2>1. LooseClosed
    BY <1>4 DEF RunInv
  <2>2. \/ to = call.to /\ Len(todo) = 1
        \/ to = Tmp /\ from = Copied
    BY <1>1, <1>4, HeadKinds
  <2>3. Loose' = Loose
    BY <1>3 DEF Loose
  <2>4. ASSUME NEW x \in Loose \cup {Tmp, Copied}
        PROVE  Elements(member'[x]) \subseteq Loose
    <3>1. x \in Addr /\ x # call.to
      BY CallFacts, AddrFacts
    <3>2. Own(x) \subseteq Loose /\ Own(Copied) \subseteq Loose
      BY <2>1 DEF LooseClosed
    <3>3. x = to => from = Copied
      BY <2>2, <3>1
    <3>4. member'[x] \in {member[x], None, member[Copied]}
      BY <1>2, <3>1, <3>3 DEF After
    <3>5. QED BY <3>2, <3>4, NoElements DEF Own
  <2>5. ASSUME NEW n \in 1 .. Len(todo'), todo'[n].do = "destruct"
        PROVE  Elements(member'[call.to]) \subseteq Loose
    <3>1. /\ Len(todo') = Len(todo) - 1 /\ Len(todo) \in Nat /\ n + 1 \in 1 .. Len(todo)
          /\ todo'[n] = todo[n + 1]
      BY <1>1, <1>3, HeadPlan, TailFacts
    <3>2. to = Tmp /\ from = Copied
      BY <2>2, <3>1
    <3>3. Own(call.to) \subseteq Loose
      BY <2>1, <2>5, <3>1 DEF LooseClosed
    <3>4. member'[call.to] = member[call.to]
      BY <1>2, <3>2, CallFacts DEF After
    <3>5. QED BY <3>3, <3>4 DEF Own
  <2>6. QED BY <1>1, <1>3, <2>3, <2>4, <2>5 DEF LooseClosed, Own
<1>5. CopiesOK'
  BY <1>1, <1>3, HeadKinds DEF CopiesOK
<1>6. \A x \in {Tmp, call.to} : ~Alters(Head(todo), x) => member'[x].kind = member[x].kind
  BY <1>1, <1>2, CallFacts, AddrFacts DEF Alters, After, to, from
<1>7. QED BY <1>1, <1>2, <1>4, <1>5, <1>6, Instructed DEF IsBuild

(* A destructor that is still to run was so before.                        *)
LEMMA StillToRun ==
  ASSUME HInv, RunInv, todo # <<>>, Proceed, NEW n \in 1 .. Len(todo'), LooseClosed,
         todo'[n].do = "destruct"
  PROVE  Own(call.to) \subseteq Loose
<1>1. todo' = Tail(todo)
  BY DEF Proceed
<1>2. /\ Len(todo') = Len(todo) - 1 /\ Len(todo) \in Nat
      /\ \A j \in 1 .. Len(todo) - 1 : todo'[j] = todo[j + 1]
  BY <1>1, HeadPlan, TailFacts
<1>3. n + 1 \in 1 .. Len(todo) /\ todo'[n] = todo[n + 1]
  BY <1>2
<1>4. QED BY <1>3 DEF LooseClosed

(* What a call puts together, it does in cells of its own.                 *)
LEMMA BuildReferences ==
  ASSUME HInv, RunInv, DoBuild
  PROVE  RunInv'
<1>1. /\ Proceed /\ todo # <<>> /\ doomed = {} /\ copying' = {} /\ outcome # "undefined"
      /\ Head(todo).do \in {"Array", "Map"} /\ live' = live /\ doomed' = {}
  BY DEF DoBuild, Ready
<1>2. /\ \A x \in Addr : x # to => member'[x] = member[x]
      /\ member'[to].kind = Head(todo).do /\ Elements(member'[to]) = {}
      /\ tag' = tag /\ to \in Addr
  BY BuildEffect
<1>3. call' = call /\ todo' = Tail(todo)
  BY <1>1 DEF Proceed
<1>4. \A x \in Addr : Elements(member'[x]) \subseteq Own(x)
  BY <1>2 DEF Own
<1>5. ASSUME call.op \in Freeing
      PROVE  LooseClosed'
  <2>1. LooseClosed /\ Loose' = Loose
    BY <1>3, <1>5 DEF RunInv, Loose
  <2>2. \A x \in Loose \cup {Tmp, Copied} : Elements(member'[x]) \subseteq Loose
    BY <1>4, <2>1, CallFacts, AddrFacts DEF LooseClosed
  <2>3. ASSUME NEW n \in 1 .. Len(todo'), todo'[n].do = "destruct"
        PROVE  Elements(member'[call.to]) \subseteq Loose
    BY <1>1, <1>4, <2>1, <2>3, StillToRun, CallFacts
  <2>4. QED BY <1>1, <1>3, <2>1, <2>2, <2>3 DEF LooseClosed, Own
<1>6. CopiesOK'
  <2>1. Elements(member'[Copied]) \subseteq Own(Copied)
    BY <1>4, AddrFacts
  <2>2. QED BY <1>1, <1>3, <2>1 DEF CopiesOK, RunInv, Own
<1>7. \A x \in {Tmp, call.to} :
        /\ IsBuild(Head(todo)) /\ to = x => member'[x].kind = Head(todo).do
        /\ ~Alters(Head(todo), x) => member'[x].kind = member[x].kind
  BY <1>1, <1>2, CallFacts, AddrFacts DEF Alters, to
<1>8. QED BY <1>1, <1>2, <1>5, <1>6, <1>7, Instructed

(* vtype does not matter here.                                             *)
LEMMA SetTagReferences ==
  ASSUME HInv, RunInv, DoSetTag
  PROVE  RunInv'
<1>1. /\ Proceed /\ todo # <<>> /\ doomed = {} /\ copying' = {} /\ outcome # "undefined"
      /\ Head(todo).do = "tag" /\ live' = live /\ doomed' = {} /\ member' = member
  BY DEF DoSetTag, Ready
<1>2. call' = call /\ todo' = Tail(todo)
  BY <1>1 DEF Proceed
<1>3. ASSUME call.op \in Freeing
      PROVE  LooseClosed'
  <2>1. LooseClosed
    BY <1>3 DEF RunInv
  <2>2. ASSUME NEW n \in 1 .. Len(todo'), todo'[n].do = "destruct"
        PROVE  Own(call.to) \subseteq Loose
    BY <1>1, <2>1, <2>2, StillToRun
  <2>3. QED BY <1>1, <1>2, <2>1, <2>2 DEF LooseClosed, Own, Loose
<1>4. CopiesOK'
  BY <1>1, <1>2 DEF CopiesOK, RunInv, Own
<1>5. call.op # "swap" /\ ~IsBuild(Head(todo))
  BY <1>1, HeadKinds DEF IsBuild
<1>6. QED BY <1>1, <1>3, <1>4, <1>5, Instructed

(* emplace_back takes a cell that was free.                                *)
LEMMA EmplaceReferences ==
  ASSUME HInv, RunInv, DoEmplace
  PROVE  RunInv'
<1>1. /\ Proceed /\ todo # <<>> /\ doomed = {} /\ copying' = {} /\ outcome # "undefined"
      /\ Head(todo).do = "emplace" /\ live' = live \cup {Fresh} /\ doomed' = {}
  BY DEF DoEmplace, Ready
<1>2. /\ \A x \in Addr : x # to => member'[x] = After(Fresh, from, x)
      /\ member[to].kind = "Array" /\ member'[to].kind = "Array"
      /\ Elements(member'[to]) = Own(to) \cup {Fresh}
      /\ to \in Addr /\ from \in Addr /\ Fresh \in Heap \ live
  BY EmplaceEffect
<1>3. call' = call /\ todo' = Tail(todo)
  BY <1>1 DEF Proceed
<1>4. Fresh \in Loose /\ Fresh # call.to /\ Fresh # Tmp
  BY <1>1, <1>2, CallFacts DEF Loose
<1>5. ASSUME call.op \in Freeing
      PROVE  LooseClosed'
  <2>1. LooseClosed /\ Loose' = Loose /\ to = Tmp /\ from = Copied
    BY <1>1, <1>3, <1>5, HeadKinds DEF RunInv, Loose
  <2>2. ASSUME NEW x \in Loose \cup {Tmp, Copied}
        PROVE  Elements(member'[x]) \subseteq Loose
    <3>1. x \in Addr /\ Own(x) \subseteq Loose /\ Own(Copied) \subseteq Loose
      BY <2>1, CallFacts, AddrFacts DEF LooseClosed
    <3>2. CASE x = to
      BY <1>2, <1>4, <3>1, <3>2
    <3>3. CASE x # to
      <4>1. member'[x] \in {member[x], None, member[Copied]}
        BY <1>2, <2>1, <3>1, <3>3 DEF After
      <4>2. QED BY <3>1, <4>1, NoElements DEF Own
    <3>4. QED BY <3>2, <3>3
  <2>3. ASSUME NEW n \in 1 .. Len(todo'), todo'[n].do = "destruct"
        PROVE  Elements(member'[call.to]) \subseteq Loose
    <3>1. Own(call.to) \subseteq Loose
      BY <1>1, <2>1, <2>3, StillToRun
    <3>2. member'[call.to] = member[call.to]
      BY <1>2, <1>4, <2>1, CallFacts DEF After
    <3>3. QED BY <3>1, <3>2 DEF Own
  <2>4. QED BY <1>1, <1>3, <2>1, <2>2, <2>3 DEF LooseClosed, Own
<1>6. call.op \notin {"swap", "index"}
  BY <1>1, HeadKinds
<1>7. CopiesOK'
  BY <1>1, <1>3, <1>6 DEF CopiesOK
<1>8. \A x \in {Tmp, call.to} : ~Alters(Head(todo), x) => member'[x].kind = member[x].kind
  <2>1. SUFFICES ASSUME NEW x \in {Tmp, call.to}, ~Alters(Head(todo), x)
                 PROVE  member'[x].kind = member[x].kind
    OBVIOUS
  <2>2. x \in Addr /\ x # Fresh
    BY <1>4, CallFacts, AddrFacts
  <2>3. CASE x = to
    BY <1>2, <2>3
  <2>4. CASE x # to
    <3>1. x # from
      BY <1>1, <2>1, <2>4 DEF Alters, to, from
    <3>2. QED BY <1>2, <2>2, <2>4, <3>1 DEF After
  <2>5. QED BY <2>3, <2>4
<1>9. QED BY <1>1, <1>5, <1>6, <1>7, <1>8, Instructed DEF IsBuild

(* operator[] too.                                                         *)
LEMMA KeyReferences ==
  ASSUME HInv, RunInv, DoEmplaceKey
  PROVE  RunInv'
<1>1. /\ Proceed /\ todo # <<>> /\ doomed = {} /\ copying' = {} /\ outcome # "undefined"
      /\ Head(todo).do = "key" /\ live' = live \cup {Fresh} /\ doomed' = {}
  BY DEF DoEmplaceKey, Ready
<1>2. /\ \A x \in Addr : x # to => member'[x] = member[x]
      /\ member[to].kind = "Map" /\ member'[to].kind = "Map"
  BY KeyEffect
<1>3. call' = call /\ todo' = Tail(todo)
  BY <1>1 DEF Proceed
<1>4. call.op = "index" /\ to = call.to
  BY <1>1, HeadKinds DEF RunInv, CallOK
<1>5. call.op \notin Freeing
  BY <1>4 DEF Freeing
<1>6. CopiesOK'
  <2>1. member'[Copied] = member[Copied]
    BY <1>2, <1>4, CallFacts, AddrFacts
  <2>2. QED BY <1>1, <1>3, <2>1 DEF CopiesOK, RunInv, Own
<1>7. \A x \in {Tmp, call.to} : member'[x].kind = member[x].kind
  BY <1>2, CallFacts, AddrFacts
<1>8. QED BY <1>1, <1>4, <1>5, <1>6, <1>7, Instructed DEF IsBuild

(* A copy begins in Copied.                                                *)
LEMMA CopyReferences ==
  ASSUME HInv, RunInv, DoCopy
  PROVE  RunInv'
<1>1. /\ Proceed /\ todo # <<>> /\ doomed = {} /\ outcome # "undefined"
      /\ copying' = {<<Copied, from>>}
      /\ Head(todo).do = "copy" /\ live' = live /\ doomed' = {}
      /\ member' = member /\ tag' = tag
  BY DEF DoCopy, Ready
<1>2. call' = call /\ todo' = Tail(todo)
  BY <1>1 DEF Proceed
<1>3. ASSUME call.op \in Freeing
      PROVE  LooseClosed'
  <2>1. LooseClosed
    BY <1>3 DEF RunInv
  <2>2. ASSUME NEW n \in 1 .. Len(todo'), todo'[n].do = "destruct"
        PROVE  Own(call.to) \subseteq Loose
    BY <1>1, <2>1, <2>2, StillToRun
  <2>3. QED BY <1>1, <1>2, <2>1, <2>2 DEF LooseClosed, Own, Loose
<1>4. call.op \notin {"swap", "index"}
  BY <1>1, HeadKinds
<1>5. CopiesOK'
  BY <1>1, <1>2, <1>4 DEF CopiesOK
<1>6. QED BY <1>1, <1>3, <1>4, <1>5, Instructed DEF IsBuild

(* The program stays as planned while elements are copied or destroyed.    *)
LEMMA PlanStays ==
  ASSUME NEW c, NEW p, NEW t, NEW s, NEW cells, NEW was, NEW u, NEW r, NEW rest, NEW gone,
         Plan(c, t, s, cells, was, p), c.op # "swap",
         \A x \in {Tmp, c.to} : r[x].kind = s[x].kind,
         was = {} => cells \subseteq rest /\ gone = {}
  PROVE  Plan(c, u, r, rest, gone, p)
<1>1. SUFFICES ASSUME NEW n \in 1 .. Len(p)
               PROVE  StepOK(c, u, p, n) /\ GrowOK(c, r, p, n) /\ ReadOK(c, rest, gone, p, n)
  BY DEF Plan
<1>2. StepOK(c, t, p, n) /\ GrowOK(c, s, p, n) /\ ReadOK(c, cells, was, p, n)
  BY DEF Plan
<1>3. StepOK(c, u, p, n)
  BY <1>2 DEF StepOK
<1>4. GrowOK(c, r, p, n)
  <2>1. p[n].do \in {"emplace", "key"} => r[p[n].to].kind = s[p[n].to].kind
    BY <1>2 DEF GrowOK
  <2>2. QED BY <1>2, <2>1 DEF GrowOK
<1>5. ReadOK(c, rest, gone, p, n)
  BY <1>2 DEF ReadOK
<1>6. QED BY <1>3, <1>4, <1>5

(* The elements of a copy are put into cells that were free.               *)
LEMMA CopyValueReferences ==
  ASSUME HInv, RunInv, CopyValue
  PROVE  RunInv'
<1>1. PICK c, g : CopyStep(c, g)
  BY CopyEffect
<1>2. /\ copying # {} /\ doomed' = doomed /\ todo' = todo
      /\ outcome' = outcome /\ call' = call
  BY DEF CopyValue
<1>3. /\ doomed = {} /\ c[1] \in Loose \cup {Copied} /\ call.op \notin {"swap", "index"}
      /\ \A d \in copying : d[1] \in Loose \cup {Copied}
  BY <1>1, <1>2 DEF RunInv, CopiesOK, CopyStep
<1>4. outcome # "bad_alloc" /\ call.kept \subseteq live
  BY <1>2, CallFacts
<1> DEFINE f == IF tag[c[2]] = "Null" THEN <<>> ELSE member[c[2]].items
           N == {g[i] : i \in DOMAIN f}
<1>5. /\ \A x \in Addr : x # c[1] => member'[x] = member[x]
      /\ Elements(member'[c[1]]) \in {Own(c[1]), N}
      /\ live' = live \cup N
      /\ copying' = (copying \ {c}) \cup {<<g[i], f[i]>> : i \in DOMAIN f}
      /\ g \in [DOMAIN f -> Heap \ live]
  BY <1>1 DEF CopyStep, Own
<1>6. N \subseteq Loose
  BY <1>4, <1>5 DEF Loose
<1>7. \A x \in {Tmp, call.to} : x \in Addr /\ x # c[1]
  BY <1>3, CallFacts, AddrFacts
<1>8. \A d \in copying' : d[1] \in Loose \cup {Copied}
  <2>1. \A d \in {<<g[i], f[i]>> : i \in DOMAIN f} : d[1] \in N
    OBVIOUS
  <2>2. QED BY <1>3, <1>5, <1>6, <2>1
<1> HIDE DEF f, N
<1>9. CopiesOK'
  BY <1>2, <1>3, <1>8 DEF CopiesOK, Loose
<1>10. ASSUME call.op \in Freeing
       PROVE  LooseClosed'
  <2>1. LooseClosed
    BY <1>10 DEF RunInv
  <2>2. \A x \in Loose \cup {Tmp, Copied} : Elements(member'[x]) \subseteq Loose
    <3>1. \A x \in Loose \cup {Tmp, Copied} : x \in Addr /\ Own(x) \subseteq Loose
      BY <2>1, CallFacts, AddrFacts DEF LooseClosed
    <3>2. QED BY <1>5, <1>6, <3>1 DEF Own
  <2>3. member'[call.to] = member[call.to]
    BY <1>5, <1>7
  <2>4. QED BY <1>2, <1>3, <2>1, <2>2, <2>3 DEF LooseClosed, Own, Loose
<1>11. Planned'
  <2>1. \A x \in {Tmp, call.to} : member'[x].kind = member[x].kind
    BY <1>5, <1>7
  <2>2. live \subseteq live'
    BY <1>5
  <2>3. Plan(call, tag, member, live, doomed, todo)
    BY DEF RunInv, Planned
  <2>4. Plan(call, tag', member', live', doomed', todo)
    BY <1>2, <1>3, <2>1, <2>2, <2>3, PlanStays
  <2>5. QED BY <1>2, <2>4 DEF Planned
<1>12. CallOK' /\ (Excused \/ call.kept \subseteq live)' /\ UndefinedOnlyFromInside'
  BY <1>2, <1>4, <1>5 DEF RunInv, CallOK, UndefinedOnlyFromInside
<1>13. QED BY <1>2, <1>3, <1>4, <1>9, <1>10, <1>11, <1>12 DEF RunInv

(* Elements of what is loose are loose.                                    *)
LEMMA DestroyReferences ==
  ASSUME HInv, RunInv, DestroyElements
  PROVE  RunInv'
<1>1. /\ doomed # {} /\ live' = live \ doomed /\ doomed' = UNION {Holds(a) : a \in doomed}
      /\ copying' = copying /\ todo' = todo /\ outcome' = outcome /\ call' = call
  BY DEF DestroyElements
<1>2. /\ \A x \in Addr : member'[x] = IF x \in doomed THEN None ELSE member[x]
      /\ \A x \in Addr : Own(x)' \subseteq Own(x)
  BY DestroyEffect
<1>3. copying = {}
  BY <1>1 DEF RunInv, CopiesOK
<1>4. CASE call.op \in Freeing
  <2>1. LooseClosed /\ Loose' = Loose
    BY <1>1, <1>4 DEF RunInv, Loose
  <2>2. doomed' \subseteq Loose
    <3>1. \A a \in doomed : Holds(a) \subseteq Loose
      BY <2>1, HoldsOwn DEF LooseClosed
    <3>2. QED BY <1>1, <3>1
  <2>3. \A x \in Loose \cup {Tmp, Copied} : Own(x)' \subseteq Loose
    BY <1>2, <2>1, CallFacts, AddrFacts DEF LooseClosed
  <2>4. Own(call.to)' \subseteq Own(call.to)
    <3>1. Elements(member'[call.to]) \subseteq Own(call.to)
      BY <1>2, CallFacts DEF Own
    <3>2. QED BY <1>1, <3>1 DEF Own
  <2>5. LooseClosed'
    BY <1>1, <2>1, <2>2, <2>3, <2>4 DEF LooseClosed
  <2>6. (Excused \/ call.kept \subseteq live)'
    <3>1. call.kept \subseteq live /\ doomed \cap call.kept = {}
      BY <1>4, <2>1 DEF RunInv, Excused, Freeing, Pushing, LooseClosed, Loose
    <3>2. QED BY <1>1, <3>1
  <2>7. CopiesOK'
    BY <1>1, <1>3, <1>4 DEF CopiesOK, Freeing
  <2>8. Planned'
    <3>1. \A x \in {Tmp, call.to} : member'[x].kind = member[x].kind
      BY <1>2, <2>1, CallFacts, AddrFacts DEF LooseClosed
    <3>2. Plan(call, tag, member, live, doomed, todo) /\ call.op # "swap"
      BY <1>4 DEF RunInv, Planned, Freeing
    <3>3. Plan(call, tag', member', live', doomed', todo)
      BY <1>1, <3>1, <3>2, PlanStays
    <3>4. QED BY <1>1, <3>3 DEF Planned
  <2>9. QED
    BY <1>1, <1>3, <1>4, <2>5, <2>6, <2>7, <2>8
    DEF RunInv, CallOK, UndefinedOnlyFromInside
<1>5. CASE call.op \notin Freeing
  <2>1. Excused /\ todo = <<>>
    BY <1>1, <1>5 DEF RunInv, Excused
  <2>2. Excused' /\ Planned'
    BY <1>1, <2>1 DEF Excused, Planned, Plan
  <2>3. CopiesOK' /\ CallOK'
    BY <1>1, <1>3, <2>1 DEF RunInv, CopiesOK, CallOK, Excused, Pushing
  <2>4. QED
    BY <1>1, <1>3, <1>5, <2>1, <2>2, <2>3 DEF RunInv, UndefinedOnlyFromInside
<1>6. QED BY <1>4, <1>5

(* What an exception unwinds is loose; operator[] has nothing to unwind,   *)
(* and swap does not allocate.                                             *)
LEMMA BadAllocReferences ==
  ASSUME HInv, RunInv, BadAlloc
  PROVE  RunInv'
<1>1. /\ outcome = "ok" /\ doomed = {} /\ copying' = {} /\ todo' = <<>>
      /\ outcome' = "bad_alloc" /\ live' = live /\ call' = call
  BY DEF BadAlloc
<1>2. PICK gone \in {{Tmp, Copied}, {Tmp, Copied, from}} :
        /\ Unwind(gone)
        /\ gone = {Tmp, Copied} \/ Ready("emplace")
        /\ copying # {} \/ Ready("emplace") \/ Ready("key")
  BY DEF BadAlloc
<1>3. /\ doomed' = UNION {Holds(x) : x \in gone}
      /\ \A x \in Addr : Own(x)' \subseteq Own(x)
  BY <1>2, UnwindEffect
<1>4. Ready("emplace") \/ Ready("key") => todo # <<>> /\ Head(todo).do \in {"emplace", "key"}
  BY DEF Ready
<1>5. ASSUME call.op \in Freeing
      PROVE  LooseClosed'
  <2>1. LooseClosed /\ Loose' = Loose
    BY <1>1, <1>5 DEF RunInv, Loose
  <2>2. gone = {Tmp, Copied}
    <3>1. SUFFICES ASSUME Ready("emplace") PROVE from = Copied
      BY <1>2
    <3>2. todo # <<>> /\ Head(todo).do = "emplace"
      BY <3>1 DEF Ready
    <3>3. QED BY <1>5, <3>2, HeadKinds
  <2>3. doomed' \subseteq Loose
    BY <1>3, <2>1, <2>2, HoldsOwn DEF LooseClosed
  <2>4. \A x \in Loose \cup {Tmp, Copied} : Own(x)' \subseteq Loose
    BY <1>3, <2>1, CallFacts, AddrFacts DEF LooseClosed
  <2>5. QED BY <1>1, <2>1, <2>3, <2>4 DEF LooseClosed
<1>6. ASSUME call.op \notin Freeing
      PROVE  doomed' = {} \/ Excused'
  <2>1. CASE call.op \in Pushing
    BY <1>1, <2>1 DEF Excused
  <2>2. CASE call.op = "swap"
    BY <1>2, <1>4, <2>2, HeadKinds DEF RunInv, CopiesOK
  <2>3. CASE call.op = "index"
    <3>1. copying = {} /\ Own(Copied) = {}
      BY <2>3 DEF RunInv, CopiesOK
    <3>2. gone = {Tmp, Copied}
      <4>1. Ready("emplace") => todo # <<>> /\ Head(todo).do = "emplace"
        BY DEF Ready
      <4>2. ~Ready("emplace")
        BY <2>3, <4>1, HeadKinds
      <4>3. QED BY <1>2, <4>2
    <3>3. tag[Tmp] = "Null"
      <4>1. \A n \in 1 .. Len(todo) : ~Release(todo[n])
        BY <2>3 DEF RunInv, Planned, Plan, StepOK, Release
      <4>2. QED BY <4>1 DEF HInv, TmpHeld
    <3>4. QED BY <1>3, <3>1, <3>2, <3>3, HoldsOwn
  <2>4. QED BY <1>6, <2>1, <2>2, <2>3 DEF RunInv, CallOK
<1>7. CopiesOK'
  <2>1. Elements(member'[Copied]) \subseteq Own(Copied)
    BY <1>3, AddrFacts DEF Own
  <2>2. QED BY <1>1, <2>1 DEF RunInv, CopiesOK, Own
<1>8. Planned' /\ CallOK' /\ UndefinedOnlyFromInside'
  BY <1>1 DEF Planned, Plan, RunInv, CallOK, UndefinedOnlyFromInside
<1>9. (Excused \/ call.kept \subseteq live)'
  BY <1>1 DEF RunInv, Excused
<1>10. QED BY <1>1, <1>5, <1>6, <1>7, <1>8, <1>9 DEF RunInv

(* Only what UndefinedOnlyFromInside names is ever undefined.              *)
LEMMA UndefinedReferences ==
  ASSUME HInv, RunInv, Undefined
  PROVE  RunInv'
<1>1. UNCHANGED <<tag, member, live, doomed, copying, todo, call>> /\ outcome' = "undefined"
  BY DEF Undefined
<1>2. /\ todo # <<>> /\ doomed = {}
      /\ \/ Head(todo).do \in {"take", "copy"} /\ Dead(from)
         \/ Head(todo).do = "emplace" /\ ArrayGone
         \/ Head(todo).do = "key" /\ MapGone
  BY DEF Undefined, Ready
<1>3. GrowOK(call, member, todo, 1) /\ ReadOK(call, live, doomed, todo, 1) /\ Head(todo) = todo[1]
  BY <1>2, HeadPlan
<1>4. /\ outcome # "bad_alloc" /\ call.kept \subseteq live
      /\ call.op \notin Freeing => doomed = {}
  BY <1>2, CallFacts
<1>5. \A k, x, type : BuiltAt(k, x, type, todo, 1) => k = type
  <2>1. \A m \in 0 .. 1 - 1 : m = 0
    OBVIOUS
  <2>2. QED BY <2>1 DEF BuiltAt
<1>6. Head(todo).do \in {"emplace", "key"} => ~Dead(to)
  <2>1. call.to \in Roots \cup live /\ Tmp \notin Heap
    BY <1>4, AddrFacts DEF RunInv, CallOK
  <2>2. Head(todo).do \in {"emplace", "key"} => to \in {Tmp, call.to}
    BY <1>3 DEF GrowOK, to
  <2>3. QED BY <2>1, <2>2, HeapAssumption DEF Dead
<1>7. \/ call.op \in {"copy", "move"} /\ call.kin = "below"
      \/ call.op = "push_move" /\ call.kin = "same"
  <2>1. CASE Head(todo).do \in {"take", "copy"} /\ Dead(from)
    BY <1>3, <1>4, <2>1 DEF ReadOK, Dead, from
  <2>2. CASE Head(todo).do = "emplace" /\ ArrayGone
    <3>1. member[to].kind = "Array"
      BY <1>3, <1>5, <2>2 DEF GrowOK, to
    <3>2. from = to
      BY <1>6, <2>2, <3>1 DEF ArrayGone
    <3>3. QED BY <1>3, <2>2, <3>2 DEF GrowOK, to, from
  <2>3. CASE Head(todo).do = "key" /\ MapGone
    <3>1. member[to].kind = "Map"
      BY <1>3, <1>5, <2>3 DEF GrowOK, to
    <3>2. QED BY <1>6, <2>3, <3>1 DEF MapGone
  <2>4. QED BY <1>2, <2>1, <2>2, <2>3
<1>8. UndefinedOnlyFromInside'
  BY <1>1, <1>7 DEF UndefinedOnlyFromInside
<1>9. CallOK' /\ CopiesOK' /\ Planned'
  BY <1>1 DEF RunInv, CallOK, CopiesOK, Own, Loose, Planned
<1>10. (call.op \in Freeing => LooseClosed)'
  BY <1>1 DEF RunInv, LooseClosed, Own, Loose
<1>11. QED BY <1>1, <1>4, <1>8, <1>9, <1>10 DEF RunInv

-----------------------------------------------------------------------------
(* The beginning of a call.                                                *)

(* Between two calls every Value is in reach of a variable.                *)
LEMMA StartFacts ==
  ASSUME HInv, RInv, idle, NEW a \in Operands
  PROVE  /\ Cells /\ live \subseteq Reachable /\ a \in Roots \cup live
         /\ a \in Addr /\ a \notin {Tmp, Copied} /\ a \notin Below(a)
         /\ outcome = "ok" /\ todo = <<>> /\ doomed = {} /\ copying = {}
         /\ \A x \in {Tmp, Copied} \cup (Heap \ live) : Own(x) = {}
         /\ \A x \in Addr : Own(x) = Holds(x)
<1>1. /\ Cells /\ todo = <<>> /\ doomed = {} /\ copying = {} /\ outcome = "ok"
  BY IdleFacts DEF RInv
<1>2. live \subseteq Reachable /\ a \in Roots \cup live
  BY DEF Operands
<1>3. a \in Addr /\ a \notin {Tmp, Copied}
  BY <1>1, <1>2, AddrFacts, HeapAssumption DEF Cells
<1>4. a \notin Below(a)
  BY <1>1, <1>2, <1>3, NotBelowItself
<1>5. \A x \in {Tmp, Copied} \cup (Heap \ live) : x \in Addr /\ x \notin Roots \cup live
  BY <1>1, AddrFacts, HeapAssumption DEF Cells
<1>6. \A x \in {Tmp, Copied} \cup (Heap \ live) : Own(x) = {}
  BY <1>1, <1>2, <1>5, OwnersInReach
<1>7. \A x \in Addr : Own(x) = Holds(x)
  BY <1>1, <1>2, OwnersInReach, HoldsOwn
<1>8. QED BY <1>1, <1>2, <1>3, <1>4, <1>6, <1>7

(* A call that frees a set of Values and all that is inside them.          *)
LEMMA FreedFacts ==
  ASSUME HInv, RInv, idle, NEW a \in Operands, NEW B \in SUBSET Heap,
         \A x \in B : Holds(x) \subseteq B
  PROVE  \A x \in (Heap \ (live \ B)) \cup {Tmp, Copied} : Own(x) \subseteq B
<1>1. /\ \A x \in {Tmp, Copied} \cup (Heap \ live) : Own(x) = {}
      /\ \A x \in Addr : Own(x) = Holds(x)
  BY StartFacts
<1>2. QED BY <1>1, AddrFacts

(* A call that begins as planned.                                          *)
LEMMA BegunReferences ==
  ASSUME HInv, RInv, idle, NEW a \in Operands, NEW op, NEW s, NEW kept \in SUBSET live,
         NEW p, Begin(p), Called(op, a, s, kept),
         op \in (Freeing \ {"remove"}) \cup Pushing \cup {"swap", "index"},
         op \in Freeing => kept = live \ Below(a), op \notin Freeing => kept = live,
         \A x \in Addr : x # Tmp => member'[x] = member[x],
         Elements(member'[Tmp]) = {},
         Plan(call', tag', member', live, {}, p)
  PROVE  RInv'
<1>1. /\ Cells /\ a \in Roots \cup live /\ a \in Addr /\ a \notin Below(a) /\ a # Tmp
      /\ doomed = {} /\ copying = {}
      /\ \A x \in {Tmp, Copied} \cup (Heap \ live) : Own(x) = {}
      /\ \A x \in Addr : Own(x) = Holds(x)
  BY StartFacts
<1>2. /\ todo' = p /\ outcome' = "ok" /\ live' = live /\ doomed' = {} /\ copying' = {}
      /\ call'.op = op /\ call'.to = a /\ call'.kept = kept
  BY <1>1 DEF Begin, Called
<1>3. ~idle'
  BY CalledFacts DEF Freeing, Pushing
<1>4. \A x \in Addr : Elements(member'[x]) \subseteq Own(x)
  BY <1>1 DEF Own
<1>5. CallOK'
  <2>1. kept \in SUBSET Heap /\ a \in Roots \cup kept
    BY <1>1 DEF Cells
  <2>2. QED BY <1>2, <2>1 DEF CallOK, Freeing
<1>6. ASSUME op \in Freeing
      PROVE  LooseClosed'
  <2>1. Below(a) \in SUBSET Heap /\ Holds(a) \subseteq Below(a)
          /\ \A x \in Below(a) : Holds(x) \subseteq Below(a)
    BY <1>1, BelowFacts DEF Encloses
  <2>2. \A x \in (Heap \ kept) \cup {Tmp, Copied} : Own(x) \subseteq Below(a)
    BY <1>6, <2>1, FreedFacts
  <2>3. Below(a) \subseteq Heap \ kept
    BY <1>6, <2>1
  <2>4. \A x \in (Heap \ kept) \cup {Tmp, Copied} : Elements(member'[x]) \subseteq Heap \ kept
    BY <1>4, <2>2, <2>3, AddrFacts
  <2>5. Elements(member'[a]) \subseteq Heap \ kept
    BY <1>1, <1>4, <2>1, <2>3
  <2>6. QED BY <1>2, <2>4, <2>5 DEF LooseClosed, Own, Loose
<1>7. CopiesOK'
  <2>1. Elements(member'[Copied]) = {}
    BY <1>1, <1>4, AddrFacts
  <2>2. QED BY <1>2, <2>1 DEF CopiesOK, Own
<1>8. Planned'
  BY <1>2 DEF Planned
<1>9. QED
  BY <1>2, <1>3, <1>5, <1>6, <1>7, <1>8 DEF RInv, RunInv, UndefinedOnlyFromInside

(* An element that is removed is freed with all that is inside it.         *)
LEMMA RemoveReferences ==
  ASSUME HInv, RInv, NEW a \in Operands, NEW i \in DOMAIN member[a].items,
         RemoveElement(a, i)
  PROVE  RInv'
<1> DEFINE e == member[a].items[i]
           B == {e} \cup Below(e)
<1>1. /\ idle /\ doomed' = {e} /\ Called("remove", a, i, live \ B)
      /\ UNCHANGED <<tag, live, copying, todo, outcome>>
      /\ member' = [member EXCEPT ![a] = member'[a]] /\ tag[a] \in {"Array", "Map"}
  <2>1. member' = [member EXCEPT ![a] = Holding(a,
                    IF tag[a] = "Array" THEN RemoveAt(member[a].items, i)
                    ELSE Without(member[a].items, i))]
    BY DEF RemoveElement
  <2>2. \A n : [member EXCEPT ![a] = n] = [member EXCEPT ![a] = [member EXCEPT ![a] = n][a]]
    BY StartFacts DEF RemoveElement, Cells, Fits, Table
  <2>3. QED BY <2>1, <2>2 DEF RemoveElement
<1>2. /\ Cells /\ a \in Roots \cup live /\ a \in Addr /\ a \notin Below(a)
      /\ outcome = "ok" /\ todo = <<>> /\ doomed = {} /\ copying = {}
      /\ \A x \in Addr : Own(x) = Holds(x)
  BY <1>1, StartFacts
<1>3. e \in Holds(a) /\ e \in Heap /\ e \in Addr
  BY <1>1, <1>2, OwnFacts DEF Holds, Own, Elements, Items
<1> HIDE DEF e
<1>4. e \in Below(a) /\ Below(e) \subseteq Below(a) /\ Below(a) \subseteq Heap
  <2>1. Encloses(Below(a), a) /\ Below(a) \in SUBSET Heap
    BY <1>2, BelowFacts
  <2>2. e \in Below(a) /\ Encloses(Below(a), e)
    BY <1>3, <2>1 DEF Encloses
  <2>3. QED BY <2>1, <2>2 DEF Below
<1>5. B \in SUBSET Heap /\ a \notin B /\ \A x \in B : Holds(x) \subseteq B
  BY <1>2, <1>3, <1>4, BelowFacts DEF Encloses
<1> HIDE DEF B
<1>6. \A x \in (Heap \ (live \ B)) \cup {Tmp, Copied} : Own(x) \subseteq B
  BY <1>1, <1>5, FreedFacts
<1>7. /\ call'.op = "remove" /\ call'.to = a /\ call'.kept = live \ B
      /\ todo' = <<>> /\ copying' = {} /\ outcome' = "ok" /\ live' = live
  BY <1>1, <1>2 DEF Called
<1>8. ~idle'
  BY <1>1, CalledFacts
<1>9. CallOK'
  <2>1. live \ B \in SUBSET Heap /\ a \in Roots \cup (live \ B)
    BY <1>2, <1>5 DEF Cells
  <2>2. QED BY <1>7, <2>1 DEF CallOK, Freeing
<1>10. LooseClosed'
  <2>1. \A x \in (Heap \ (live \ B)) \cup {Tmp, Copied} : x \in Addr /\ x # a
    BY <1>1, <1>2, <1>5, AddrFacts, HeapAssumption, StartFacts
  <2>2. \A x \in Addr : x # a => member'[x] = member[x]
    BY <1>1, <1>2 DEF Cells, Fits, Table
  <2>3. \A x \in (Heap \ (live \ B)) \cup {Tmp, Copied} : Elements(member'[x]) \subseteq B
    BY <1>6, <2>1, <2>2 DEF Own
  <2>4. B \subseteq Heap \ (live \ B) /\ doomed' \subseteq B
    BY <1>1, <1>5 DEF B
  <2>5. QED BY <1>7, <2>3, <2>4 DEF LooseClosed, Own, Loose
<1>11. CopiesOK' /\ Planned'
  BY <1>7 DEF CopiesOK, Planned, Plan
<1>12. QED
  BY <1>7, <1>8, <1>9, <1>10, <1>11
  DEF RInv, RunInv, UndefinedOnlyFromInside, Freeing

(* Every call begins as planned.                                           *)
LEMMA CallReferences ==
  ASSUME HInv, RInv, Call
  PROVE  RInv'
<1>1. PICK a \in Operands :
        \/ \E s \in Operands : \/ Assign(a, s) \/ Push(a, s) \/ Swap(a, s)
                               \/ List(a, <<s>>) \/ \E t \in {a, s} : List(a, <<s, t>>)
        \/ \E m \in {None} \cup {Text(d) : d \in Data} : AssignNew(a, m)
        \/ \E k \in Keys : Index(a, k)
        \/ \E i \in DOMAIN member[a].items : RemoveElement(a, i)
  BY DEF Call
<1>2. ASSUME idle
      PROVE  /\ Cells /\ a \in Roots \cup live /\ a \in Addr /\ a \notin {Tmp, Copied}
             /\ a \notin Below(a) /\ Elements(member[Tmp]) = {}
             /\ \A s \in Operands : s \in Addr /\ s \notin {Tmp, Copied} /\ s \in Roots \cup live
             /\ \A s \in Heap : s \in Roots \cup live => s \in live
  BY <1>2, StartFacts, HeapAssumption DEF Own
<1>3. ASSUME NEW s \in Operands, Assign(a, s)
      PROVE  RInv'
  <2>1. idle /\ tag' = tag /\ member' = member
    BY <1>3 DEF Assign, Begin
  <2>2. /\ call'.kept = live \ Below(a) /\ call'.to = a
        /\ s \in Heap => s \in call'.kept \/ call'.kin = "below"
    <3>1. s \in Addr /\ (s \in Heap => s \in live) /\ (s \in Below(a) => s # a)
      BY <1>2, <2>1
    <3>2. call'.kin = Kin(a, s) /\ call'.kept = live \ Below(a) /\ call'.to = a
      BY <1>3, <3>1 DEF Assign, Called
    <3>3. s \in Below(a) => Kin(a, s) = "below"
      <4>1. SUFFICES ASSUME s \in Below(a) PROVE Kin(a, s) = "below"
        OBVIOUS
      <4>2. Encloses(Below(a), a) /\ Below(a) \in SUBSET Heap
        BY <1>2, <2>1, BelowFacts
      <4>3. Below(s) \subseteq Below(a)
        BY <4>1, <4>2 DEF Encloses, Below
      <4>4. a \notin Below(s) /\ a # s
        BY <1>2, <2>1, <4>1, <4>3
      <4>5. QED BY <4>1, <4>4 DEF Kin
    <3>4. QED BY <3>1, <3>2, <3>3
  <2>3. CASE Begin(CopyAssign(a, s)) /\ Called("copy", a, s, live \ Below(a))
    <3>1. call'.op = "copy"
      BY <2>3 DEF Called
    <3>2. Plan(call', tag', member', live, {}, CopyAssign(a, s))
      BY <2>2, <3>1, CopyPlan
    <3>3. QED BY <1>2, <2>1, <2>3, <3>2, BegunReferences DEF Freeing
  <2>4. CASE Begin(MoveAssign(a, s)) /\ Called("move", a, s, live \ Below(a))
    <3>1. call'.op = "move"
      BY <2>4 DEF Called
    <3>2. Plan(call', tag', member', live, {}, MoveAssign(a, s))
      BY <2>2, <3>1, MovePlan
    <3>3. QED BY <1>2, <2>1, <2>4, <3>2, BegunReferences DEF Freeing
  <2>5. QED BY <1>3, <2>3, <2>4 DEF Assign
<1>4. ASSUME NEW s \in Operands, Push(a, s)
      PROVE  RInv'
  <2>1. idle /\ tag' = tag /\ member' = member
    BY <1>4 DEF Push, Begin
  <2>2. /\ call'.kept = live /\ call'.to = a /\ (a = s => call'.kin = "same")
        /\ s \in Addr /\ (s \in Heap => s \in live) /\ (a \in Heap => a \in live)
    <3>1. s \in Addr /\ (s \in Heap => s \in live) /\ (a \in Heap => a \in live)
      BY <1>2, <2>1
    <3>2. call'.kin = Kin(a, s) /\ call'.kept = live /\ call'.to = a
      BY <1>4, <3>1 DEF Push, Called
    <3>3. a = s => Kin(a, s) = "same"
      BY <1>2, <2>1 DEF Kin
    <3>4. QED BY <3>1, <3>2, <3>3
  <2>3. CASE Begin(push_back_copy(a, s)) /\ Called("push_copy", a, s, live)
    <3>1. call'.op = "push_copy"
      BY <2>3 DEF Called
    <3>2. Plan(call', tag, member, live, {}, push_back_copy(a, s))
      BY <1>2, <2>1, <2>2, <3>1, PushCopyPlan
    <3>3. QED BY <1>2, <2>1, <2>3, <3>2, BegunReferences DEF Freeing, Pushing
  <2>4. CASE Begin(push_back_move(a, s)) /\ Called("push_move", a, s, live)
    <3>1. call'.op = "push_move"
      BY <2>4 DEF Called
    <3>2. Plan(call', tag, member, live, {}, push_back_move(a, s))
      BY <1>2, <2>1, <2>2, <3>1, PushMovePlan
    <3>3. QED BY <1>2, <2>1, <2>4, <3>2, BegunReferences DEF Freeing, Pushing
  <2>5. QED BY <1>4, <2>3, <2>4 DEF Push
<1>5. ASSUME NEW s \in Operands, Swap(a, s)
      PROVE  RInv'
  <2>1. idle /\ tag' = tag /\ member' = member
    BY <1>5 DEF Swap, Begin
  <2>2. call'.kept = live /\ call'.op = "swap"
    BY <1>5 DEF Swap, Called
  <2>3. Plan(call', tag', member', live, {}, swap(a, s))
    BY <1>2, <2>1, <2>2, SwapPlan
  <2>4. QED BY <1>2, <1>5, <2>1, <2>3, BegunReferences DEF Swap, Freeing
<1>6. ASSUME NEW s \in Operands, NEW t \in Operands,
             NEW list \in {<<s>>, <<s, t>>}, List(a, list)
      PROVE  RInv'
  <2>1. idle /\ tag' = tag /\ member' = member
    BY <1>6 DEF List, Begin
  <2>2. call'.to = a /\ call'.op = "list"
    BY <1>6 DEF List, Called
  <2>3. Plan(call', tag', member', live, {}, AssignList(a, list))
    BY <1>2, <2>1, <2>2, ListPlan
  <2>4. QED BY <1>2, <1>6, <2>1, <2>3, BegunReferences DEF List, Freeing
<1>7. ASSUME NEW k \in Keys, Index(a, k)
      PROVE  RInv'
  <2>1. idle /\ tag' = tag /\ member' = member
    BY <1>7 DEF Index, Begin
  <2>2. call'.to = a /\ call'.op = "index"
    BY <1>7 DEF Index, Called
  <2>3. Plan(call', tag, member, live, {}, operator_index(a, k))
    BY <1>2, <2>1, <2>2, IndexPlan
  <2>4. QED BY <1>2, <1>7, <2>1, <2>3, BegunReferences DEF Index, Freeing
<1>8. ASSUME NEW m \in {None} \cup {Text(d) : d \in Data}, AssignNew(a, m)
      PROVE  RInv'
  <2>1. idle /\ member' = Replace(member, Tmp, m)
    BY <1>8 DEF AssignNew, Begin, Replace
  <2>2. DOMAIN m.items = {}
    BY NoneOK, TextOK
  <2>3. /\ \A x \in Addr : x # Tmp => member'[x] = member[x]
        /\ Elements(member'[Tmp]) = {}
    <3>1. member'[Tmp] = m /\ \A x \in Addr : x # Tmp => member'[x] = member[x]
      BY <1>2, <2>1, AddrFacts DEF Replace, Cells, Fits, Table
    <3>2. Elements(m) = {}
      BY <2>2 DEF Elements, Items
    <3>3. QED BY <3>1, <3>2
  <2>4. call'.to = a /\ call'.op = "new"
    BY <1>8 DEF AssignNew, Called
  <2>5. Plan(call', tag', member', live, {}, MoveAssign(a, Tmp))
    BY <2>4, MovePlan, AddrFacts
  <2>6. QED BY <1>8, <2>1, <2>3, <2>5, BegunReferences DEF AssignNew, Freeing
<1>9. QED BY <1>1, <1>3, <1>4, <1>5, <1>6, <1>7, <1>8, RemoveReferences

-----------------------------------------------------------------------------
(* The theorems.                                                           *)

LEMMA ReferenceInit == HInit => RInv
  BY DEF HInit, RInv, idle

LEMMA ReferenceStep == HInv /\ RInv /\ [HNext]_hvars => RInv'
<1> SUFFICES ASSUME HInv, RInv, [HNext]_hvars PROVE RInv'
  OBVIOUS
<1>1. CASE Call
  BY <1>1, CallReferences
<1>2. CASE Return
  BY <1>2 DEF Return, RInv, idle
<1>3. CASE UNCHANGED hvars
  <2>1. idle' = idle /\ outcome' = outcome
    BY <1>3 DEF hvars, idle
  <2>2. CASE idle
    BY <2>1, <2>2 DEF RInv
  <2>3. CASE ~idle
    <3>1. RunInv
      BY <2>3 DEF RInv
    <3>2. CallOK' /\ CopiesOK' /\ Planned' /\ UndefinedOnlyFromInside'
      BY <1>3, <3>1
      DEF hvars, RunInv, CallOK, CopiesOK, Own, Loose, Planned, UndefinedOnlyFromInside
    <3>3. (call.op \in Freeing => LooseClosed)'
      BY <1>3, <3>1 DEF hvars, RunInv, LooseClosed, Own, Loose
    <3>4. RunInv'
      BY <1>3, <3>1, <3>2, <3>3 DEF hvars, RunInv, Excused
    <3>5. QED BY <2>1, <2>3, <3>4 DEF RInv
  <2>4. QED BY <2>2, <2>3
<1>4. CASE Run /\ ~Return
  <2>1. ~idle
    <3>1. ASSUME idle PROVE FALSE
      <4>1. todo = <<>> /\ doomed = {} /\ copying = {}
        BY <3>1, IdleFacts
      <4>2. QED
        BY <1>4, <3>1, <4>1
        DEF Run, DestroyElements, DoDestruct, DoTake, DoBuild, DoSetTag, DoEmplace,
            DoEmplaceKey, DoCopy, CopyValue, BadAlloc, Undefined, Ready
    <3>2. QED BY <3>1
  <2>2. RunInv
    BY <2>1 DEF RInv
  <2>3. RunInv'
    BY <1>4, <2>2, DestroyReferences, DestructReferences, TakeReferences, BuildReferences,
       SetTagReferences, EmplaceReferences, KeyReferences, CopyReferences,
       CopyValueReferences, BadAllocReferences, UndefinedReferences
    DEF Run
  <2>4. call' = call
    BY <1>4
    DEF Run, DestroyElements, DoDestruct, DoTake, DoBuild, DoSetTag, DoEmplace,
        DoEmplaceKey, DoCopy, CopyValue, BadAlloc, Undefined, Proceed
  <2>5. QED BY <2>1, <2>3, <2>4 DEF RInv, idle
<1>5. QED BY <1>1, <1>2, <1>3, <1>4 DEF HNext

(* What a call frees, reads and adds to is as planned, in every state.     *)
THEOREM ReferenceInvariant == HSpec => []RInv
<1>1. HInit => HInv /\ RInv
  BY HInitInv, ReferenceInit
<1>2. HInv /\ RInv /\ [HNext]_hvars => (HInv /\ RInv)'
  BY HStepInv, ReferenceStep
<1>3. HSpec => [](HInv /\ RInv)
  BY <1>1, <1>2, PTL DEF HSpec
<1>4. QED BY <1>3, PTL

(* No call reads a Value that is gone, or adds to a container that is not  *)
(* there, but an assignment from inside its target and an array that is    *)
(* pushed, moved, onto itself: with any number of Values, nested in any    *)
(* way, and wherever operator new fails.                                   *)
THEOREM UndefinedFromInside == HSpec => []UndefinedOnlyFromInside
<1>1. RInv => UndefinedOnlyFromInside
  BY DEF RInv, RunInv, UndefinedOnlyFromInside
<1>2. QED BY <1>1, ReferenceInvariant, PTL

(* push_back, operator[] and swap keep every Value where it is, and the    *)
(* other calls all but those inside what they assign to or remove: a       *)
(* caller's references stay valid, except where push_back runs out of      *)
(* memory.                                                                 *)
THEOREM ReferencesKept == HSpec => []ReferencesSurvive
<1>1. RInv => ReferencesSurvive
  BY DEF RInv, RunInv, ReferencesSurvive, Excused, Pushing
<1>2. QED BY <1>1, ReferenceInvariant, PTL
=============================================================================
