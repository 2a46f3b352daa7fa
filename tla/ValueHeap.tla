----------------------------- MODULE ValueHeap -----------------------------
(***************************************************************************)
(* Who owns what in ubjson::Value (src/value.cpp): assignment, push_back,  *)
(* operator[], remove and swap on Values that hold others.                 *)
(*                                                                         *)
(* A Value is a cell with a tag, vtype, and the union member that is       *)
(* constructed in it.  An Array or a Map owns its elements, each in a cell *)
(* of its own on the heap.  A call is a sequence of instructions, the      *)
(* statements of the code; the operands of a call are references, so they  *)
(* may name the same cell, or one a cell inside the other.                 *)
(***************************************************************************)
EXTENDS Integers, Sequences, FiniteSets, SequencesExt

CONSTANTS
  Roots,             (* the variables of the caller                        *)
  Heap,              (* what operator new may return                       *)
  Tmp,               (* the local tmp of push_back, vt of swap, a          *)
                     (* temporary of the caller                            *)
  Copied,            (* the local container of unique_ptr_copy             *)
  Keys,
  Data               (* contents of a String                               *)

ASSUME HeapAssumption ==
  /\ Roots \cap Heap = {} /\ IsFiniteSet(Heap)
  /\ Tmp \notin Roots \cup Heap
  /\ Copied \notin Roots \cup Heap \cup {Tmp}

VARIABLES
  tag,               (* vtype                                              *)
  member,            (* the constructed member of the union                *)
  live,              (* the heap cells that are allocated                  *)
  doomed,            (* those whose destructor is about to run             *)
  copying,           (* <<to, from>>: the copies still to be made          *)
  todo,              (* the instructions of the call in progress           *)
  outcome,           (* how it ends                                        *)
  call               (* history: what was called, and what was there       *)

hvars == <<tag, member, live, doomed, copying, todo, outcome, call>>

Addr == Roots \cup Heap \cup {Tmp, Copied}

(* String stands for every type whose member owns no Value.                *)
Types == {"Null", "String", "Array", "Map"}

None == [kind |-> "Null", data |-> {}, items |-> <<>>]
Text(d) == [kind |-> "String", data |-> {d}, items |-> <<>>]
Container(type, f) == [kind |-> type, data |-> {}, items |-> f]

(* The cells a destructor of a reaches: it goes by the tag.                *)
Holds(a) ==
  IF tag[a] = "Null" THEN {}
  ELSE {member[a].items[i] : i \in DOMAIN member[a].items}

(* What is inside a is the least set that has what a holds, and what each  *)
(* of its own holds.                                                       *)
Encloses(S, a) == Holds(a) \subseteq S /\ \A x \in S : Holds(x) \subseteq S

Below(a) == {n \in Heap : \A S \in SUBSET Heap : Encloses(S, a) => n \in S}

Reachable == UNION {{r} \cup Below(r) : r \in Roots}

Dead(a) == a \in Heap \ live

-----------------------------------------------------------------------------
(* The statements of the code.                                             *)

Destruct(a)    == [do |-> "destruct", to |-> a, from |-> a]
Take(a, s)     == [do |-> "take", to |-> a, from |-> s]
Copy(s)        == [do |-> "copy", to |-> Copied, from |-> s]
Build(a)       == [do |-> "Array", to |-> a, from |-> a]
BuildMap(a)    == [do |-> "Map", to |-> a, from |-> a]
SetTag(a)      == [do |-> "tag", to |-> a, from |-> a]
Emplace(a, s)  == [do |-> "emplace", to |-> a, from |-> s]
EmplaceKey(a, k) == [do |-> "key", to |-> a, from |-> k]

Instructions ==
  [do : {"destruct", "take", "copy", "Array", "Map", "tag", "emplace"},
   to : Addr, from : Addr]
  \cup [do : {"key"}, to : Addr, from : Keys]

(* Mutant: the target is not destroyed first.                              *)
MoveOver(a, s) == <<Take(a, s)>>

move_from(a, s) == <<Destruct(a), Take(a, s)>>
copy_from(a, s) == <<Destruct(a), Copy(s), Take(a, Copied)>>

(* Mutant: no test for self-assignment.                                    *)
CopyAlways(a, s) == copy_from(a, s)

(* operator = (const Value&) looks for self-assignment, the other does not.*)
CopyAssign(a, s) == IF a = s THEN <<>> ELSE copy_from(a, s)
MoveAssign(a, s) == move_from(a, s)

(* push_back(const Value&).  Mutants: the array is constructed over the     *)
(* Value that is to be its first element; that Value is copied, not moved. *)
PushOverItself(a, s) ==
  IF tag[a] = "Array" THEN <<Copy(s), Emplace(a, Copied)>>
  ELSE <<Build(a), Copy(s), Emplace(a, Copied), SetTag(a)>>

PushCopyingItself(a, s) ==
  CASE tag[a] = "Null"  -> <<Build(a), SetTag(a), Copy(s), Emplace(a, Copied)>>
    [] tag[a] = "Array" -> <<Copy(s), Emplace(a, Copied)>>
    [] OTHER            -> <<Copy(a), Take(Tmp, Copied), Destruct(a), Build(a),
                             Emplace(a, Tmp), Copy(s), Emplace(a, Copied), SetTag(a)>>

push_back_copy(a, s) ==
  CASE tag[a] = "Null"  -> <<Build(a), SetTag(a), Copy(s), Emplace(a, Copied)>>
    [] tag[a] = "Array" -> <<Copy(s), Emplace(a, Copied)>>
    [] OTHER            -> <<Take(Tmp, a), Build(a), Emplace(a, Tmp),
                             Copy(s), Emplace(a, Copied), SetTag(a)>>

(* push_back(Value&&)                                                      *)
push_back_move(a, s) ==
  CASE tag[a] = "Null"  -> <<Build(a), SetTag(a), Emplace(a, s)>>
    [] tag[a] = "Array" -> <<Emplace(a, s)>>
    [] OTHER            -> <<Take(Tmp, a), Build(a), Emplace(a, Tmp),
                             Emplace(a, s), SetTag(a)>>

(* vt.move_from(s), s.move_from(a), a.move_from(vt).                       *)
swap(a, s) ==
  <<Take(Tmp, s), Destruct(s), Take(s, a), Destruct(a), Take(a, Tmp)>>

(* Mutant: the array is built in place.                                    *)
ListInPlace(a, list) ==
  IF Len(list) = 1 THEN CopyAssign(a, list[1])
  ELSE <<Destruct(a), Build(a), SetTag(a), Copy(list[1]), Emplace(a, Copied),
         Copy(list[2]), Emplace(a, Copied)>>

(* a = {s1, s2}: a temporary is built from copies, then moved.  A list of  *)
(* one is its element.                                                     *)
AssignList(a, list) ==
  IF Len(list) = 1
  THEN <<Copy(list[1]), Take(Tmp, Copied), Destruct(a), Take(a, Tmp)>>
  ELSE <<Build(Tmp), SetTag(Tmp), Copy(list[1]), Emplace(Tmp, Copied),
         Copy(list[2]), Emplace(Tmp, Copied), Destruct(a), Take(a, Tmp)>>

operator_index(a, k) ==
  CASE tag[a] = "Null" -> <<BuildMap(a), SetTag(a), EmplaceKey(a, k)>>
    [] tag[a] = "Map" /\ k \notin DOMAIN member[a].items -> <<EmplaceKey(a, k)>>
    [] OTHER -> <<>>

-----------------------------------------------------------------------------
(* Calls.                                                                  *)

NoCall == [op |-> "none"]
idle == call = NoCall

(* The history of a call: the operation, its operands, how the second lies *)
(* to the first, and which cells the call may not free.                    *)
Kin(a, s) ==
  CASE a = s           -> "same"
    [] s \in Below(a)  -> "below"
    [] a \in Below(s)  -> "above"
    [] OTHER           -> "apart"

Called(op, a, s, kept) ==
  call' = [op |-> op, to |-> a, from |-> s,
           kin |-> IF s \in Addr THEN Kin(a, s) ELSE "apart",
           kept |-> kept]

(* Bound: the caller stops when a Value is lost.                           *)
Operands == IF live \subseteq Reachable THEN Roots \cup live ELSE {}

Begin(program) ==
  /\ idle
  /\ todo' = program
  /\ outcome' = "ok"
  /\ UNCHANGED <<live, doomed, copying>>

Assign(a, s) ==
  \/ /\ Begin(CopyAssign(a, s))
     /\ Called("copy", a, s, live \ Below(a))
     /\ UNCHANGED <<tag, member>>
  \/ /\ Begin(MoveAssign(a, s))
     /\ Called("move", a, s, live \ Below(a))
     /\ UNCHANGED <<tag, member>>

(* a = x, for an x the caller has just made.                               *)
AssignNew(a, m) ==
  /\ Begin(MoveAssign(a, Tmp))
  /\ Called("new", a, m, live \ Below(a))
  /\ tag' = [tag EXCEPT ![Tmp] = m.kind]
  /\ member' = [member EXCEPT ![Tmp] = m]

Push(a, s) ==
  /\ \/ /\ Begin(push_back_copy(a, s))
        /\ Called("push_copy", a, s, live)
     \/ /\ Begin(push_back_move(a, s))
        /\ Called("push_move", a, s, live)
  /\ UNCHANGED <<tag, member>>

Swap(a, s) ==
  /\ Begin(swap(a, s))
  /\ Called("swap", a, s, live)
  /\ UNCHANGED <<tag, member>>

List(a, list) ==
  /\ Begin(AssignList(a, list))
  /\ Called("list", a, list, live \ Below(a))
  /\ UNCHANGED <<tag, member>>

Index(a, k) ==
  /\ Begin(operator_index(a, k))
  /\ Called("index", a, k, live)
  /\ UNCHANGED <<tag, member>>

(* f with n at k, and without what is at k.                                *)
With(f, k, n) == [j \in DOMAIN f \cup {k} |-> IF j = k THEN n ELSE f[j]]
Without(f, k) == [j \in DOMAIN f \ {k} |-> f[j]]

Holding(a, f) == [member[a] EXCEPT !.items = f]

(* remove finds an element by what it equals or by its key; which one is   *)
(* open here.                                                              *)
RemoveElement(a, i) ==
  LET f == member[a].items
  IN  /\ idle
      /\ tag[a] \in {"Array", "Map"} /\ i \in DOMAIN f
      /\ member' = [member EXCEPT ![a] = Holding(a,
                      IF tag[a] = "Array" THEN RemoveAt(f, i) ELSE Without(f, i))]
      /\ doomed' = {f[i]}
      /\ Called("remove", a, i, live \ ({f[i]} \cup Below(f[i])))
      /\ UNCHANGED <<tag, live, copying, todo, outcome>>

Call ==
  \E a \in Operands :
    \/ \E s \in Operands : Assign(a, s) \/ Push(a, s) \/ Swap(a, s)
                             \/ List(a, <<s>>) \/ \E t \in {a, s} : List(a, <<s, t>>)
    \/ \E m \in {None} \cup {Text(d) : d \in Data} : AssignNew(a, m)
    \/ \E k \in Keys : Index(a, k)
    \/ \E i \in DOMAIN member[a].items : RemoveElement(a, i)

-----------------------------------------------------------------------------
(* Running a call.                                                         *)

Ready(do) ==
  /\ ~idle /\ outcome # "undefined"
  /\ doomed = {} /\ copying = {}
  /\ todo # <<>> /\ Head(todo).do = do

to == Head(todo).to
from == Head(todo).from

Proceed == todo' = Tail(todo) /\ UNCHANGED <<outcome, call>>

(* The destructors of the elements, and of theirs.                         *)
DestroyElements ==
  /\ doomed # {}
  /\ live' = live \ doomed
  /\ doomed' = UNION {Holds(a) : a \in doomed}
  /\ tag' = [a \in Addr |-> IF a \in doomed THEN "Null" ELSE tag[a]]
  /\ member' = [a \in Addr |-> IF a \in doomed THEN None ELSE member[a]]
  /\ UNCHANGED <<copying, todo, outcome, call>>

(* Mutant: the cell of what is destructed is freed as well.                *)
UnwindAndFree(gone) ==
  /\ doomed' = gone \cup UNION {Holds(a) : a \in gone}
  /\ tag' = [a \in Addr |-> IF a \in gone THEN "Null" ELSE tag[a]]
  /\ member' = [a \in Addr |-> IF a \in gone /\ tag[a] # "Null" THEN None
                               ELSE member[a]]

(* What is gone is destructed, its elements next.                          *)
Unwind(gone) ==
  /\ doomed' = UNION {Holds(a) : a \in gone}
  /\ tag' = [a \in Addr |-> IF a \in gone THEN "Null" ELSE tag[a]]
  /\ member' = [a \in Addr |-> IF a \in gone /\ tag[a] # "Null" THEN None
                               ELSE member[a]]

DoDestruct ==
  /\ Ready("destruct")
  /\ Unwind({to})
  /\ Proceed
  /\ UNCHANGED <<live, copying>>

(* Mutant: the source keeps its member.                                    *)
MovedNotCleared(m, a, s) == IF tag[s] = "Null" THEN m ELSE [m EXCEPT ![a] = m[s]]

(* The member moves over, the tag follows, and the source is destructed.   *)
Moved(m, a, s) ==
  IF tag[s] = "Null" THEN m ELSE [m EXCEPT ![a] = m[s], ![s] = None]

DoTake ==
  /\ Ready("take") /\ ~Dead(from)
  /\ member' = Moved(member, to, from)
  /\ tag' = [tag EXCEPT ![to] = tag[from], ![from] = "Null"]
  /\ Proceed
  /\ UNCHANGED <<live, doomed, copying>>

(* construct_fromArray, construct_fromMap: vtype is not set here.          *)
DoBuild ==
  /\ Ready("Array") \/ Ready("Map")
  /\ member' = [member EXCEPT ![to] = Container(Head(todo).do, <<>>)]
  /\ Proceed
  /\ UNCHANGED <<tag, live, doomed, copying>>

DoSetTag ==
  /\ Ready("tag")
  /\ tag' = [tag EXCEPT ![to] = member[to].kind]
  /\ Proceed
  /\ UNCHANGED <<member, live, doomed, copying>>

Fresh == CHOOSE n \in Heap : n \notin live

(* A new cell takes the Value over before the array is looked at.          *)
ArrayGone ==
  Dead(to) \/ member[to].kind # "Array" \/ (from = to /\ tag[to] # "Null")

MapGone == Dead(to) \/ member[to].kind # "Map"

DoEmplace ==
  /\ Ready("emplace") /\ ~ArrayGone /\ Heap \ live # {}
  /\ LET m == Moved(member, Fresh, from)
     IN  member' = [m EXCEPT ![to] =
                          Holding(to, Append(m[to].items, Fresh))]
  /\ tag' = [tag EXCEPT ![Fresh] = tag[from], ![from] = "Null"]
  /\ live' = live \cup {Fresh}
  /\ Proceed
  /\ UNCHANGED <<doomed, copying>>

DoEmplaceKey ==
  /\ Ready("key") /\ ~MapGone /\ Heap \ live # {}
  /\ member' = [member EXCEPT ![to] =
                  Holding(to, With(member[to].items, from, Fresh))]
  /\ live' = live \cup {Fresh}
  /\ Proceed
  /\ UNCHANGED <<tag, doomed, copying>>

DoCopy ==
  /\ Ready("copy") /\ ~Dead(from)
  /\ copying' = {<<Copied, from>>}
  /\ Proceed
  /\ UNCHANGED <<tag, member, live, doomed>>

(* One cell for each element of f.                                         *)
Places(f) ==
  {g \in [DOMAIN f -> Heap \ live] :
     \A i, j \in DOMAIN f : g[i] = g[j] => i = j}

(* One Value of a copy: its elements get cells, and are copied next.       *)
CopyValue ==
  /\ copying # {}
  /\ LET pair == CHOOSE c \in copying : TRUE
         d == pair[1]
         s == pair[2]
         f == IF tag[s] = "Null" THEN <<>> ELSE member[s].items
         g == CHOOSE x \in Places(f) : TRUE
     IN  /\ Places(f) # {}
         /\ tag' = [tag EXCEPT ![d] = tag[s]]
         /\ member' = IF tag[s] = "Null" THEN member
                      ELSE [member EXCEPT ![d] = [member[s] EXCEPT !.items = g]]
         /\ live' = live \cup {g[i] : i \in DOMAIN f}
         /\ copying' = (copying \ {pair}) \cup {<<g[i], f[i]>> : i \in DOMAIN f}
  /\ UNCHANGED <<doomed, todo, outcome, call>>

(* operator new fails, or the array cannot grow after the new cell has     *)
(* taken the Value: what the call holds on its stack is destructed.        *)
BadAlloc ==
  /\ ~idle /\ outcome = "ok" /\ doomed = {}
  /\ \/ copying # {} /\ Unwind({Tmp, Copied})
     \/ (Ready("emplace") \/ Ready("key")) /\ Unwind({Tmp, Copied})
     \/ Ready("emplace") /\ ~ArrayGone /\ Unwind({Tmp, Copied, from})
  /\ copying' = {}
  /\ todo' = <<>>
  /\ outcome' = "bad_alloc"
  /\ UNCHANGED <<live, call>>

(* The call reads a Value that is gone, or adds to a container that is.    *)
Undefined ==
  /\ \/ (Ready("take") \/ Ready("copy")) /\ Dead(from)
     \/ Ready("emplace") /\ ArrayGone /\ Heap \ live # {}
     \/ Ready("key") /\ MapGone /\ Heap \ live # {}
  /\ outcome' = "undefined"
  /\ UNCHANGED <<tag, member, live, doomed, copying, todo, call>>

Return ==
  /\ ~idle /\ outcome # "undefined"
  /\ todo = <<>> /\ doomed = {} /\ copying = {}
  /\ call' = NoCall
  /\ outcome' = "ok"
  /\ UNCHANGED <<tag, member, live, doomed, copying, todo>>

-----------------------------------------------------------------------------
HInit ==
  /\ tag = [a \in Addr |-> "Null"]
  /\ member = [a \in Addr |-> None]
  /\ live = {}
  /\ doomed = {}
  /\ copying = {}
  /\ todo = <<>>
  /\ outcome = "ok"
  /\ call = NoCall

Run ==
  \/ DestroyElements
  \/ DoDestruct \/ DoTake \/ DoBuild \/ DoSetTag \/ DoEmplace \/ DoEmplaceKey
  \/ DoCopy \/ CopyValue
  \/ BadAlloc \/ Undefined \/ Return

HNext == Call \/ Run

HSpec == HInit /\ [][HNext]_hvars

-----------------------------------------------------------------------------
(* Properties.                                                             *)

(* What a cell may hold, and what is left to do, with the types it has.    *)
MemberOK(m) ==
  /\ m = [kind |-> m.kind, data |-> m.data, items |-> m.items]
  /\ m.kind \in Types /\ m.data \in SUBSET Data
  /\ m.kind \in {"Null", "String"} => m.items = <<>>
  /\ m.kind = "Array" => m.items \in Seq(Heap)
  /\ m.kind = "Map" => /\ DOMAIN m.items \in SUBSET Keys
                       /\ \A k \in DOMAIN m.items : m.items[k] \in Heap

HTypeOK ==
  /\ tag \in [Addr -> Types]
  /\ member = [a \in Addr |-> member[a]]
  /\ \A a \in Addr : MemberOK(member[a])
  /\ live \in SUBSET Heap
  /\ doomed \in SUBSET live
  /\ copying \in SUBSET (Addr \X Addr)
  /\ todo \in Seq(Instructions)
  /\ outcome \in {"ok", "bad_alloc", "undefined"}

(* Every element is owned by one container, and one that a destructor will *)
(* reach is owned by none: no Value is ever destroyed twice, and none that *)
(* a container holds is gone, whatever the operands of a call have to do   *)
(* with each other and wherever memory runs out.                           *)
OwnedOnce ==
  /\ \A a, c \in Addr : \A i \in DOMAIN member[a].items, j \in DOMAIN member[c].items :
       member[a].items[i] = member[c].items[j] => a = c /\ i = j
  /\ \A a \in Addr : \A i \in DOMAIN member[a].items :
       member[a].items[i] \in live \ doomed
  /\ doomed \subseteq live

(* The tag never names a member of the union that is not constructed.      *)
TagTellsTruth == \A a \in Addr : tag[a] # "Null" => member[a].kind = tag[a]

(* A Value is read after it is gone only by an assignment from a Value     *)
(* inside its target, or by an array that is pushed, moved, onto itself.   *)
UndefinedOnlyFromInside ==
  outcome = "undefined" =>
    \/ call.op \in {"copy", "move"} /\ call.kin = "below"
    \/ call.op = "push_move" /\ call.kin = "same"

(* A reference to a Value outlives every call but one that assigns to, or  *)
(* removes, a Value that holds it; push_back, operator[] and swap          *)
(* move Values and keep their elements where they are.                     *)
ReferencesSurvive ==
  \/ idle
  \/ outcome = "bad_alloc" /\ call.op \in {"push_copy", "push_move"}
  \/ call.kept \subseteq live

(* Values get out of reach, never to be destroyed, only when one is moved  *)
(* into a Value inside it, or when memory runs out while push_back makes   *)
(* an array of a Value that was none.                                      *)
NothingLost ==
  (~idle /\ outcome # "undefined" /\ todo = <<>> /\ doomed = {} /\ copying = {}) =>
    \/ live \subseteq Reachable
    \/ call.op \in {"move", "push_move"} /\ call.kin = "above"
    \/ call.op = "swap" /\ call.kin \in {"above", "below"}
    \/ call.op \in {"push_copy", "push_move"} /\ outcome = "bad_alloc"
=============================================================================
