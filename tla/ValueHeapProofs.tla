-------------------------- MODULE ValueHeapProofs --------------------------
(***************************************************************************)
(* Proofs about ValueHeap, for every number of variables and cells, and    *)
(* every sequence of calls.                                                *)
(***************************************************************************)
EXTENDS ValueHeap, SequenceLemmas

-----------------------------------------------------------------------------
(* The invariant.                                                          *)

(* What moves Tmp's Value out of it.                                       *)
Release(t) == t.do \in {"take", "emplace"} /\ t.from = Tmp

IsBuild(t) == t.do \in {"Array", "Map"}

(* A container is constructed in a Value that is Null, or is so as soon as *)
(* the instruction before has taken what was in it.                        *)
BuildsInNull(p) ==
  \A n \in 1 .. Len(p) : IsBuild(p[n]) =>
    \/ n = 1 /\ tag[p[1].to] = "Null"
    \/ n = 2 /\ p[1].do = "take" /\ p[1].from = p[2].to

(* What a program puts into Tmp it takes out again.                        *)
EmptiesTmp(p) ==
  \A n \in 1 .. Len(p) : p[n].to = Tmp => \E m \in n + 1 .. Len(p) : Release(p[m])

TmpHeld ==
  /\ EmptiesTmp(todo)
  /\ tag[Tmp] = "Null" \/ \E n \in 1 .. Len(todo) : Release(todo[n])

(* Between two calls nothing is left to do.                                *)
Settled == idle => todo = <<>> /\ doomed = {} /\ copying = {}

CopiesApart == \A c \in copying : c[1] # Tmp

HInv ==
  /\ HTypeOK
  /\ OwnedOnce
  /\ TagTellsTruth
  /\ Settled
  /\ CopiesApart
  /\ BuildsInNull(todo)
  /\ copying # {} /\ todo # <<>> => ~IsBuild(Head(todo))
  /\ TmpHeld

-----------------------------------------------------------------------------
(* Cells and members.                                                      *)

(* Every cell is one of the four kinds, and the kinds are apart.           *)
LEMMA AddrFacts ==
  /\ Roots \subseteq Addr /\ Heap \subseteq Addr /\ Tmp \in Addr /\ Copied \in Addr
  /\ Tmp \notin Roots /\ Tmp \notin Heap /\ Copied \notin Heap /\ Copied # Tmp
  BY HeapAssumption DEF Addr

(* A Null owns nothing.                                                    *)
LEMMA NoneOK == MemberOK(None) /\ DOMAIN None.items = {}
  BY DEF MemberOK, None, Types

(* A String owns no Value.                                                 *)
LEMMA TextOK ==
  ASSUME NEW d \in Data
  PROVE  MemberOK(Text(d)) /\ DOMAIN Text(d).items = {} /\ Text(d).kind = "String"
  BY DEF MemberOK, Text, Types

(* A container that was just constructed is empty.                         *)
LEMMA ContainerOK ==
  ASSUME NEW type \in {"Array", "Map"}
  PROVE  /\ MemberOK(Container(type, <<>>)) /\ Container(type, <<>>).kind = type
         /\ DOMAIN Container(type, <<>>).items = {}
  BY DEF MemberOK, Container, Types

(* What a container holds is on the heap.                                  *)
LEMMA ItemsInHeap ==
  ASSUME NEW m, MemberOK(m), NEW i \in DOMAIN m.items
  PROVE  m.items[i] \in Heap
  BY DEF MemberOK, Types

-----------------------------------------------------------------------------
(* The programs of the calls.                                              *)

Sound(p) == p \in Seq(Instructions) /\ BuildsInNull(p) /\ EmptiesTmp(p)

(* Each statement is an instruction when its operands are cells.           *)
LEMMA InstructionsOK ==
  ASSUME NEW a \in Addr, NEW s \in Addr
  PROVE  /\ Destruct(a) \in Instructions /\ Take(a, s) \in Instructions
         /\ Copy(s) \in Instructions /\ Build(a) \in Instructions
         /\ BuildMap(a) \in Instructions /\ SetTag(a) \in Instructions
         /\ Emplace(a, s) \in Instructions
         /\ \A k \in Keys : EmplaceKey(a, k) \in Instructions
  BY AddrFacts DEF Instructions, Destruct, Take, Copy, Build, BuildMap, SetTag,
     Emplace, EmplaceKey

(* A call that returns at once has nothing to keep.                        *)
LEMMA EmptyProgram == Sound(<<>>)
  BY DEF Sound, BuildsInNull, EmptiesTmp

(* operator = (Value&&) neither builds a container nor uses Tmp.           *)
LEMMA MoveSound ==
  ASSUME NEW a \in Addr, NEW s \in Addr, a # Tmp
  PROVE  Sound(MoveAssign(a, s))
<1>1. MoveAssign(a, s) = <<Destruct(a), Take(a, s)>>
  BY DEF MoveAssign, move_from
<1>2. <<Destruct(a), Take(a, s)>> \in Seq(Instructions)
  BY InstructionsOK
<1>3. QED BY <1>1, <1>2 DEF Sound, BuildsInNull, EmptiesTmp, IsBuild, Destruct, Take

(* Nor does operator = (const Value&).                                     *)
LEMMA CopySound ==
  ASSUME NEW a \in Addr, NEW s \in Addr, a # Tmp
  PROVE  Sound(CopyAssign(a, s))
<1>1. CASE a = s
  BY <1>1, EmptyProgram DEF CopyAssign
<1>2. CASE a # s
  <2>1. CopyAssign(a, s) = <<Destruct(a), Copy(s), Take(a, Copied)>>
    BY <1>2 DEF CopyAssign, copy_from
  <2>2. <<Destruct(a), Copy(s), Take(a, Copied)>> \in Seq(Instructions)
    BY InstructionsOK, AddrFacts
  <2>3. QED
    BY <2>1, <2>2, AddrFacts
    DEF Sound, BuildsInNull, EmptiesTmp, IsBuild, Destruct, Copy, Take
<1>3. QED BY <1>1, <1>2

(* swap takes out of vt what it put there.                                 *)
LEMMA SwapSound ==
  ASSUME NEW a \in Addr, NEW s \in Addr, a # Tmp, s # Tmp
  PROVE  Sound(swap(a, s))
<1> DEFINE p == <<Take(Tmp, s), Destruct(s), Take(s, a), Destruct(a), Take(a, Tmp)>>
<1>1. swap(a, s) = p
  BY DEF swap
<1>2. p \in Seq(Instructions)
  BY InstructionsOK, AddrFacts
<1>3. BuildsInNull(p)
  BY DEF BuildsInNull, IsBuild, Destruct, Take
<1>4. EmptiesTmp(p)
  <2>1. Len(p) = 5 /\ Release(p[5])
    BY AddrFacts DEF Release, Take
  <2>2. \A n \in 1 .. 5 : p[n].to = Tmp => n = 1
    BY DEF Destruct, Take
  <2>3. QED BY <2>1, <2>2 DEF EmptiesTmp
<1>5. QED BY <1>1, <1>2, <1>3, <1>4 DEF Sound

(* operator[] makes a Map of a Null only.                                  *)
LEMMA IndexSound ==
  ASSUME NEW a \in Addr, NEW k \in Keys, a # Tmp
  PROVE  Sound(operator_index(a, k))
<1>1. CASE tag[a] = "Null"
  <2> DEFINE p == <<BuildMap(a), SetTag(a), EmplaceKey(a, k)>>
  <2>1. p \in Seq(Instructions)
    BY InstructionsOK
  <2>2. BuildsInNull(p) /\ EmptiesTmp(p)
    BY <1>1 DEF BuildsInNull, EmptiesTmp, IsBuild, BuildMap, SetTag, EmplaceKey
  <2>3. QED BY <1>1, <2>1, <2>2 DEF Sound, operator_index
<1>2. CASE tag[a] = "Map" /\ k \notin DOMAIN member[a].items
  <2>1. <<EmplaceKey(a, k)>> \in Seq(Instructions)
    BY InstructionsOK
  <2>2. BuildsInNull(<<EmplaceKey(a, k)>>) /\ EmptiesTmp(<<EmplaceKey(a, k)>>)
    BY DEF BuildsInNull, EmptiesTmp, IsBuild, EmplaceKey
  <2>3. QED BY <1>2, <2>1, <2>2 DEF Sound, operator_index
<1>3. CASE tag[a] # "Null" /\ ~(tag[a] = "Map" /\ k \notin DOMAIN member[a].items)
  BY <1>3, EmptyProgram DEF operator_index
<1>4. QED BY <1>1, <1>2, <1>3

(* push_back constructs the array when its old Value is in tmp, and moves  *)
(* tmp into it.                                                            *)
LEMMA PushCopySound ==
  ASSUME NEW a \in Addr, NEW s \in Addr, a # Tmp
  PROVE  Sound(push_back_copy(a, s))
<1>1. CASE tag[a] = "Null"
  <2> DEFINE p == <<Build(a), SetTag(a), Copy(s), Emplace(a, Copied)>>
  <2>1. p \in Seq(Instructions)
    BY InstructionsOK, AddrFacts
  <2>2. BuildsInNull(p) /\ EmptiesTmp(p)
    BY <1>1, AddrFacts
    DEF BuildsInNull, EmptiesTmp, IsBuild, Build, SetTag, Copy, Emplace
  <2>3. QED BY <1>1, <2>1, <2>2 DEF Sound, push_back_copy
<1>2. CASE tag[a] = "Array"
  <2> DEFINE p == <<Copy(s), Emplace(a, Copied)>>
  <2>1. p \in Seq(Instructions)
    BY InstructionsOK, AddrFacts
  <2>2. BuildsInNull(p) /\ EmptiesTmp(p)
    BY AddrFacts DEF BuildsInNull, EmptiesTmp, IsBuild, Copy, Emplace
  <2>3. QED BY <1>2, <2>1, <2>2 DEF Sound, push_back_copy
<1>3. CASE tag[a] \notin {"Null", "Array"}
  <2> DEFINE p == <<Take(Tmp, a), Build(a), Emplace(a, Tmp), Copy(s),
                    Emplace(a, Copied), SetTag(a)>>
  <2>1. p \in Seq(Instructions)
    BY InstructionsOK, AddrFacts
  <2>2. BuildsInNull(p)
    BY DEF BuildsInNull, IsBuild, Take, Build, SetTag, Copy, Emplace
  <2>3. EmptiesTmp(p)
    <3>1. Len(p) = 6 /\ Release(p[3])
      BY DEF Release, Emplace
    <3>2. \A n \in 1 .. 6 : p[n].to = Tmp => n = 1
      BY AddrFacts DEF Take, Build, Emplace, Copy, SetTag
    <3>3. QED BY <3>1, <3>2 DEF EmptiesTmp
  <2>4. QED BY <1>3, <2>1, <2>2, <2>3 DEF Sound, push_back_copy
<1>4. QED BY <1>1, <1>2, <1>3

(* As PushCopySound, for push_back(Value&&).                               *)
LEMMA PushMoveSound ==
  ASSUME NEW a \in Addr, NEW s \in Addr, a # Tmp
  PROVE  Sound(push_back_move(a, s))
<1>1. CASE tag[a] = "Null"
  <2> DEFINE p == <<Build(a), SetTag(a), Emplace(a, s)>>
  <2>1. p \in Seq(Instructions)
    BY InstructionsOK
  <2>2. BuildsInNull(p) /\ EmptiesTmp(p)
    BY <1>1 DEF BuildsInNull, EmptiesTmp, IsBuild, Build, SetTag, Emplace
  <2>3. QED BY <1>1, <2>1, <2>2 DEF Sound, push_back_move
<1>2. CASE tag[a] = "Array"
  <2>1. <<Emplace(a, s)>> \in Seq(Instructions)
    BY InstructionsOK
  <2>2. BuildsInNull(<<Emplace(a, s)>>) /\ EmptiesTmp(<<Emplace(a, s)>>)
    BY DEF BuildsInNull, EmptiesTmp, IsBuild, Emplace
  <2>3. QED BY <1>2, <2>1, <2>2 DEF Sound, push_back_move
<1>3. CASE tag[a] \notin {"Null", "Array"}
  <2> DEFINE p == <<Take(Tmp, a), Build(a), Emplace(a, Tmp), Emplace(a, s), SetTag(a)>>
  <2>1. p \in Seq(Instructions)
    BY InstructionsOK, AddrFacts
  <2>2. BuildsInNull(p)
    BY DEF BuildsInNull, IsBuild, Take, Build, SetTag, Emplace
  <2>3. EmptiesTmp(p)
    <3>1. Len(p) = 5 /\ Release(p[3])
      BY DEF Release, Emplace
    <3>2. \A n \in 1 .. 5 : p[n].to = Tmp => n = 1
      BY DEF Take, Build, Emplace, SetTag
    <3>3. QED BY <3>1, <3>2 DEF EmptiesTmp
  <2>4. QED BY <1>3, <2>1, <2>2, <2>3 DEF Sound, push_back_move
<1>4. QED BY <1>1, <1>2, <1>3

(* The temporary of an initializer list begins as a Null and is moved out. *)
LEMMA ListSound ==
  ASSUME NEW a \in Addr, a # Tmp, NEW s \in Addr, NEW t \in Addr, tag[Tmp] = "Null"
  PROVE  Sound(AssignList(a, <<s>>)) /\ Sound(AssignList(a, <<s, t>>))
<1>1. Sound(AssignList(a, <<s>>))
  <2> DEFINE p == <<Copy(s), Take(Tmp, Copied), Destruct(a), Take(a, Tmp)>>
  <2>1. AssignList(a, <<s>>) = p
    BY DEF AssignList
  <2>2. p \in Seq(Instructions)
    BY InstructionsOK, AddrFacts
  <2>3. BuildsInNull(p)
    BY DEF BuildsInNull, IsBuild, Copy, Take, Destruct
  <2>4. p[4] = Take(a, Tmp) /\ Len(p) = 4 /\ \A n \in 1 .. 4 : p[n].to = Tmp => n < 4
    BY AddrFacts DEF Copy, Take, Destruct
  <2>5. Release(Take(a, Tmp))
    BY DEF Release, Take
  <2> HIDE DEF p
  <2>6. EmptiesTmp(p)
    BY <2>4, <2>5 DEF EmptiesTmp
  <2>7. QED BY <2>1, <2>2, <2>3, <2>6 DEF Sound
<1>2. Sound(AssignList(a, <<s, t>>))
  <2> DEFINE p == <<Build(Tmp), SetTag(Tmp), Copy(s), Emplace(Tmp, Copied),
                    Copy(t), Emplace(Tmp, Copied), Destruct(a), Take(a, Tmp)>>
  <2>1. AssignList(a, <<s, t>>) = p
    BY DEF AssignList
  <2>2. p \in Seq(Instructions)
    BY InstructionsOK, AddrFacts
  <2>3. BuildsInNull(p)
    BY DEF BuildsInNull, IsBuild, Build, SetTag, Copy, Emplace, Take, Destruct
  <2>4. p[8] = Take(a, Tmp) /\ Len(p) = 8 /\ \A n \in 1 .. 8 : p[n].to = Tmp => n < 8
    BY DEF Build, SetTag, Copy, Emplace, Take, Destruct
  <2>5. Release(Take(a, Tmp))
    BY DEF Release, Take
  <2> HIDE DEF p
  <2>6. EmptiesTmp(p)
    BY <2>4, <2>5 DEF EmptiesTmp
  <2>7. QED BY <2>1, <2>2, <2>3, <2>6 DEF Sound
<1>3. QED BY <1>1, <1>2

-----------------------------------------------------------------------------
(* What the steps have in common.                                          *)

OneOwner(m) ==
  \A a, c \in Addr : \A i \in DOMAIN m[a].items, j \in DOMAIN m[c].items :
    m[a].items[i] = m[c].items[j] => a = c /\ i = j

ItemsIn(m, S) == \A a \in Addr : \A i \in DOMAIN m[a].items : m[a].items[i] \in S

(* OwnedOnce, in the parts the lemmas below work with.                     *)
LEMMA OwnedParts ==
  OwnedOnce <=> OneOwner(member) /\ ItemsIn(member, live \ doomed) /\ doomed \subseteq live
  BY DEF OwnedOnce, OneOwner, ItemsIn

(* The operands of the next instruction.                                   *)
LEMMA HeadFacts ==
  ASSUME HTypeOK, todo # <<>>
  PROVE  /\ to \in Addr
         /\ Head(todo).do # "key" => from \in Addr
         /\ Head(todo).do = "key" => from \in Keys
<1>1. Head(todo) \in Instructions
  BY HeadTailProperties DEF HTypeOK
<1>2. QED BY <1>1 DEF Instructions, to, from

(* The rest of a program keeps what the program had, when its first        *)
(* instruction does to the tags what it should.                            *)
LEMMA Proceeding ==
  ASSUME HInv, todo # <<>>, copying = {}, todo' = Tail(todo),
         Head(todo).do = "take" => tag'[from] = "Null" /\ copying' = {},
         \/ to = Tmp
         \/ tag'[Tmp] = "Null"
         \/ tag'[Tmp] = tag[Tmp] /\ ~Release(Head(todo))
  PROVE  /\ todo' \in Seq(Instructions)
         /\ BuildsInNull(todo)'
         /\ (copying # {} /\ todo # <<>> => ~IsBuild(Head(todo)))'
         /\ TmpHeld'
<1>1. todo \in Seq(Instructions) /\ Len(todo) \in Nat
  BY LenProperties DEF HInv, HTypeOK
<1>2. /\ todo' \in Seq(Instructions) /\ Len(todo') = Len(todo) - 1
      /\ \A n \in 1 .. Len(todo') : todo'[n] = todo[n + 1]
  BY <1>1, SMT
<1>3. Head(todo) = todo[1] /\ 1 \in 1 .. Len(todo)
  BY <1>1, SMT
<1>4. ASSUME NEW n \in 1 .. Len(todo'), IsBuild(todo'[n])
      PROVE  n = 1 /\ Head(todo).do = "take" /\ from = todo'[1].to
  <2>1. n + 1 \in 1 .. Len(todo) /\ IsBuild(todo[n + 1]) /\ n + 1 # 1
    BY <1>1, <1>2, <1>4
  <2>2. n + 1 = 2 /\ todo[1].do = "take" /\ todo[1].from = todo[2].to
    BY <2>1 DEF HInv, BuildsInNull
  <2>3. n = 1
    BY <2>2
  <2>4. todo'[1] = todo[2]
    BY <1>2, <2>3
  <2>5. QED BY <1>3, <2>2, <2>3, <2>4 DEF from
<1>5. BuildsInNull(todo)'
  <2>1. ASSUME NEW n \in 1 .. Len(todo'), IsBuild(todo'[n])
        PROVE  n = 1 /\ tag'[todo'[1].to] = "Null"
    BY <1>4, <2>1
  <2>2. QED BY <2>1 DEF BuildsInNull, IsBuild
<1>6. (copying # {} /\ todo # <<>> => ~IsBuild(Head(todo)))'
  <2>1. ASSUME todo' # <<>>, IsBuild(Head(todo'))
        PROVE  copying' = {}
    <3>1. Head(todo') = todo'[1] /\ 1 \in 1 .. Len(todo')
      BY <1>2, <2>1, SMT
    <3>2. QED BY <1>4, <2>1, <3>1
  <2>2. QED BY <2>1 DEF IsBuild
<1>7. EmptiesTmp(todo)'
  <2>1. ASSUME NEW n \in 1 .. Len(todo'), todo'[n].to = Tmp
        PROVE  \E m \in n + 1 .. Len(todo') : Release(todo'[m])
    <3>1. n + 1 \in 1 .. Len(todo) /\ todo[n + 1].to = Tmp
      BY <1>1, <1>2, <2>1
    <3>2. PICK m \in (n + 1) + 1 .. Len(todo) : Release(todo[m])
      BY <3>1 DEF HInv, TmpHeld, EmptiesTmp
    <3>3. m - 1 \in n + 1 .. Len(todo') /\ m - 1 \in 1 .. Len(todo') /\ (m - 1) + 1 = m
      BY <1>1, <1>2, <3>2
    <3>4. Release(todo'[m - 1])
      BY <1>2, <3>2, <3>3
    <3>5. QED BY <3>3, <3>4
  <2>2. QED BY <2>1 DEF EmptiesTmp, Release
<1>8. (tag[Tmp] = "Null" \/ \E n \in 1 .. Len(todo) : Release(todo[n]))'
  <2>1. ASSUME NEW m \in 2 .. Len(todo), Release(todo[m])
        PROVE  \E n \in 1 .. Len(todo') : Release(todo'[n])
    <3>1. m - 1 \in 1 .. Len(todo') /\ (m - 1) + 1 = m
      BY <1>1, <1>2, <2>1
    <3>2. Release(todo'[m - 1])
      BY <1>2, <2>1, <3>1
    <3>3. QED BY <3>1, <3>2
  <2>2. CASE to = Tmp
    <3>1. \E m \in 1 + 1 .. Len(todo) : Release(todo[m])
      BY <1>3, <2>2 DEF to, HInv, TmpHeld, EmptiesTmp
    <3>2. QED BY <2>1, <3>1 DEF Release
  <2>3. CASE tag'[Tmp] = tag[Tmp] /\ ~Release(Head(todo))
    <3>1. CASE tag[Tmp] = "Null"
      BY <2>3, <3>1
    <3>2. CASE tag[Tmp] # "Null"
      <4>1. PICK n \in 1 .. Len(todo) : Release(todo[n])
        BY <3>2 DEF HInv, TmpHeld
      <4>2. n \in 2 .. Len(todo)
        BY <1>1, <1>3, <2>3, <4>1
      <4>3. QED BY <2>1, <4>1, <4>2 DEF Release
    <3>3. QED BY <3>1, <3>2
  <2>4. QED BY <2>2, <2>3
<1>9. QED BY <1>2, <1>5, <1>6, <1>7, <1>8 DEF TmpHeld

-----------------------------------------------------------------------------
(* The cells after each statement.                                         *)

Table(m) == m = [x \in Addr |-> m[x]] /\ \A x \in Addr : MemberOK(m[x])

Truth(t, m) == \A x \in Addr : t[x] # "Null" => m[x].kind = t[x]

(* The tags t and the members m fit each other; S are the cells to be owned.*)
Fits(t, m, S) ==
  /\ t \in [Addr -> Types]
  /\ Table(m)
  /\ OneOwner(m)
  /\ ItemsIn(m, S)
  /\ Truth(t, m)

Cells ==
  /\ live \in SUBSET Heap
  /\ doomed \in SUBSET live
  /\ Fits(tag, member, live \ doomed)

Passed(a, s) == [tag EXCEPT ![a] = tag[s], ![s] = "Null"]

(* What the invariant says of the cells alone.                             *)
LEMMA CellsParts ==
  /\ HTypeOK /\ OwnedOnce /\ TagTellsTruth => Cells
  /\ /\ Cells
     /\ copying \in SUBSET (Addr \X Addr)
     /\ todo \in Seq(Instructions)
     /\ outcome \in {"ok", "bad_alloc", "undefined"}
     => HTypeOK /\ OwnedOnce /\ TagTellsTruth
  BY OwnedParts DEF HTypeOK, TagTellsTruth, Cells, Fits, Table, Truth

(* A member moves: the elements change their owner together.               *)
LEMMA MovedFacts ==
  ASSUME Cells, NEW a \in Addr, NEW s \in Addr
  PROVE  /\ Fits(Passed(a, s), Moved(member, a, s), live \ doomed)
         /\ \A x \in Addr : x \notin {a, s} \/ tag[s] = "Null" =>
              Moved(member, a, s)[x] = member[x]
<1> DEFINE m == Moved(member, a, s)
           t == Passed(a, s)
<1>1. CASE tag[s] = "Null"
  <2>1. m = member
    BY <1>1 DEF Moved
  <2>2. t = [x \in Addr |-> IF x \in {a, s} THEN "Null" ELSE tag[x]]
    BY <1>1 DEF Cells, Fits, Passed
  <2> HIDE DEF m, t
  <2>3. t \in [Addr -> Types] /\ Truth(t, m)
    BY <2>1, <2>2 DEF Cells, Fits, Truth, Types
  <2>4. QED BY <2>1, <2>3 DEF Cells, Fits, m, t
<1>2. CASE tag[s] # "Null"
  <2> DEFINE M(x) == IF x = s THEN None ELSE IF x = a THEN member[s] ELSE member[x]
  <2>1. m = [member EXCEPT ![a] = member[s], ![s] = None]
    BY <1>2 DEF Moved
  <2>2. m = [x \in Addr |-> M(x)]
    BY <2>1 DEF Cells, Fits, Table
  <2>3. \A x \in Addr : m[x] = M(x)
    BY <2>2
  <2> HIDE DEF m
  <2>4. /\ t \in [Addr -> Types]
        /\ \A x \in Addr : t[x] = IF x = s THEN "Null" ELSE IF x = a THEN tag[s] ELSE tag[x]
    BY DEF Cells, Fits, Passed, Types
  <2> HIDE DEF t
  <2>5. Table(m)
    <3>1. m = [x \in Addr |-> m[x]]
      BY <2>2
    <3>2. \A x \in Addr : MemberOK(M(x))
      BY NoneOK DEF Cells, Fits, Table
    <3>3. QED BY <2>3, <3>1, <3>2 DEF Table
  <2>6. ASSUME NEW x \in Addr, NEW i \in DOMAIN m[x].items
        PROVE  \E y \in Addr : /\ y = IF x = a THEN s ELSE x
                               /\ x # s /\ m[x] = member[y]
    BY <2>3, <2>6, NoneOK
  <2>7. OneOwner(m)
    <3>1. SUFFICES ASSUME NEW x \in Addr, NEW y \in Addr,
                          NEW i \in DOMAIN m[x].items, NEW j \in DOMAIN m[y].items,
                          m[x].items[i] = m[y].items[j]
                   PROVE  x = y /\ i = j
      BY DEF OneOwner
    <3>2. PICK u \in Addr : u = (IF x = a THEN s ELSE x) /\ x # s /\ m[x] = member[u]
      BY <2>6
    <3>3. PICK v \in Addr : v = (IF y = a THEN s ELSE y) /\ y # s /\ m[y] = member[v]
      BY <2>6
    <3>4. u = v /\ i = j
      BY <3>1, <3>2, <3>3 DEF Cells, Fits, OneOwner
    <3>5. QED BY <3>2, <3>3, <3>4
  <2>8. ItemsIn(m, live \ doomed)
    BY <2>6 DEF ItemsIn, Cells, Fits
  <2>9. Truth(t, m)
    BY <1>2, <2>3, <2>4 DEF Truth, Cells, Fits
  <2>10. QED BY <1>2, <2>3, <2>4, <2>5, <2>7, <2>8, <2>9 DEF Fits, m, t
<1>3. QED BY <1>1, <1>2

(* The second half of move_from.                                           *)
LEMMA TakeCells ==
  ASSUME HInv, DoTake
  PROVE  /\ Cells' /\ tag'[from] = "Null"
         /\ \/ to = Tmp
            \/ tag'[Tmp] = "Null"
            \/ tag'[Tmp] = tag[Tmp] /\ ~Release(Head(todo))
<1>1. Cells
  BY CellsParts DEF HInv
<1>2. todo # <<>> /\ Head(todo).do = "take"
  BY DEF DoTake, Ready
<1>3. to \in Addr /\ from \in Addr
  BY <1>2, HeadFacts DEF HInv
<1>4. /\ member' = Moved(member, to, from) /\ tag' = Passed(to, from)
      /\ live' = live /\ doomed' = doomed
  BY DEF DoTake, Passed
<1>5. Cells' /\ tag'[from] = "Null"
  <2>1. Fits(tag', member', live' \ doomed')
    BY <1>1, <1>3, <1>4, MovedFacts
  <2>2. tag'[from] = "Null"
    BY <1>1, <1>3, <1>4 DEF Passed, Cells, Fits
  <2>3. Cells'
    BY <1>1, <1>4, <2>1 DEF Cells, Fits, Table, OneOwner, ItemsIn, Truth
  <2>4. QED BY <2>2, <2>3
<1>6. \/ to = Tmp
      \/ tag'[Tmp] = "Null"
      \/ tag'[Tmp] = tag[Tmp] /\ ~Release(Head(todo))
  <2>1. Tmp \in Addr
    BY AddrFacts
  <2>2. CASE from = Tmp
    BY <1>5, <2>2
  <2>3. CASE from # Tmp /\ to # Tmp
    BY <1>1, <1>4, <2>1, <2>3 DEF Cells, Fits, Passed, Release, from
  <2>4. QED BY <2>2, <2>3
<1>7. QED BY <1>5, <1>6

(* What an unwinding reaches belonged to what is gone, and to nothing else. *)
LEMMA UnwindCells ==
  ASSUME Cells, doomed = {}, NEW gone \in SUBSET Addr, Unwind(gone), live' = live
  PROVE  /\ Cells'
         /\ \A x \in Addr : tag'[x] = IF x \in gone THEN "Null" ELSE tag[x]
<1> DEFINE M(x) == IF x \in gone /\ tag[x] # "Null" THEN None ELSE member[x]
<1>1. /\ tag' = [x \in Addr |-> IF x \in gone THEN "Null" ELSE tag[x]]
      /\ member' = [x \in Addr |-> M(x)]
      /\ doomed' = UNION {Holds(x) : x \in gone}
  BY DEF Unwind
<1>2. \A x \in Addr : member'[x] = M(x) /\ tag'[x] = IF x \in gone THEN "Null" ELSE tag[x]
  BY <1>1
<1>3. ASSUME NEW x \in Addr, NEW i \in DOMAIN member'[x].items
      PROVE  /\ member'[x] = member[x] /\ i \in DOMAIN member[x].items
             /\ ~(x \in gone /\ tag[x] # "Null")
  BY <1>2, <1>3, NoneOK
<1>4. ASSUME NEW c \in doomed'
      PROVE  \E x \in gone : tag[x] # "Null" /\ \E i \in DOMAIN member[x].items : c = member[x].items[i]
  <2>1. PICK x \in gone : c \in Holds(x)
    BY <1>1, <1>4
  <2>2. tag[x] # "Null"
    BY <2>1 DEF Holds
  <2>3. c \in {member[x].items[i] : i \in DOMAIN member[x].items}
    BY <2>1, <2>2 DEF Holds
  <2>4. QED BY <2>2, <2>3
<1>5. tag' \in [Addr -> Types]
  BY <1>1 DEF Cells, Fits, Types
<1>6. Table(member')
  <2>1. \A x \in Addr : MemberOK(M(x))
    BY NoneOK DEF Cells, Fits, Table
  <2>2. member' = [x \in Addr |-> member'[x]]
    BY <1>1
  <2>3. QED BY <1>2, <2>1, <2>2 DEF Table
<1>7. doomed' \in SUBSET live'
  BY <1>4 DEF Cells, Fits, ItemsIn
<1>8. OneOwner(member')
  BY <1>3 DEF OneOwner, Cells, Fits
<1>9. ItemsIn(member', live' \ doomed')
  <2>1. SUFFICES ASSUME NEW x \in Addr, NEW i \in DOMAIN member'[x].items
                 PROVE  member'[x].items[i] \in live' \ doomed'
    BY DEF ItemsIn
  <2>2. member'[x].items[i] \in live'
    BY <1>3 DEF Cells, Fits, ItemsIn
  <2>3. ASSUME member'[x].items[i] \in doomed'
        PROVE  FALSE
    <3>1. PICK y \in gone : tag[y] # "Null"
                 /\ \E j \in DOMAIN member[y].items : member'[x].items[i] = member[y].items[j]
      BY <1>4, <2>3
    <3>2. x = y
      BY <1>3, <3>1 DEF Cells, Fits, OneOwner
    <3>3. QED BY <1>3, <3>1, <3>2
  <2>4. QED BY <2>2, <2>3
<1>10. Truth(tag', member')
  BY <1>2 DEF Truth, Cells, Fits
<1>11. QED
  BY <1>2, <1>5, <1>6, <1>7, <1>8, <1>9, <1>10
  DEF Cells, Fits, Table, OneOwner, ItemsIn, Truth

(* The elements of a container that is gone.                               *)
LEMMA DestroyCells ==
  ASSUME Cells, DestroyElements
  PROVE  /\ Cells'
         /\ \A x \in Addr : tag'[x] = IF x \in doomed THEN "Null" ELSE tag[x]
<1> DEFINE M(x) == IF x \in doomed THEN None ELSE member[x]
<1>1. /\ tag' = [x \in Addr |-> IF x \in doomed THEN "Null" ELSE tag[x]]
      /\ member' = [x \in Addr |-> M(x)]
      /\ doomed' = UNION {Holds(x) : x \in doomed}
      /\ live' = live \ doomed
  BY DEF DestroyElements
<1>2. /\ \A x \in Addr : member'[x] = M(x) /\ tag'[x] = IF x \in doomed THEN "Null" ELSE tag[x]
      /\ doomed \subseteq Addr
  BY <1>1, AddrFacts DEF Cells
<1>3. ASSUME NEW x \in Addr, NEW i \in DOMAIN member'[x].items
      PROVE  member'[x] = member[x] /\ i \in DOMAIN member[x].items /\ x \notin doomed
  BY <1>2, <1>3, NoneOK
<1>4. ASSUME NEW c \in doomed'
      PROVE  \E x \in doomed : \E i \in DOMAIN member[x].items : c = member[x].items[i]
  <2>1. PICK x \in doomed : c \in Holds(x)
    BY <1>1, <1>4
  <2>2. c \in {member[x].items[i] : i \in DOMAIN member[x].items}
    BY <2>1 DEF Holds
  <2>3. QED BY <2>2
<1>5. tag' \in [Addr -> Types]
  BY <1>1 DEF Cells, Fits, Types
<1>6. Table(member')
  <2>1. \A x \in Addr : MemberOK(M(x))
    BY NoneOK DEF Cells, Fits, Table
  <2>2. member' = [x \in Addr |-> member'[x]]
    BY <1>1
  <2>3. QED BY <1>2, <2>1, <2>2 DEF Table
<1>7. doomed' \in SUBSET live'
  BY <1>1, <1>2, <1>4 DEF Cells, Fits, ItemsIn
<1>8. OneOwner(member')
  BY <1>3 DEF OneOwner, Cells, Fits
<1>9. ItemsIn(member', live' \ doomed')
  <2>1. SUFFICES ASSUME NEW x \in Addr, NEW i \in DOMAIN member'[x].items
                 PROVE  member'[x].items[i] \in live' \ doomed'
    BY DEF ItemsIn
  <2>2. member'[x].items[i] \in live'
    BY <1>1, <1>3 DEF Cells, Fits, ItemsIn
  <2>3. ASSUME member'[x].items[i] \in doomed'
        PROVE  FALSE
    <3>1. PICK y \in doomed :
                 \E j \in DOMAIN member[y].items : member'[x].items[i] = member[y].items[j]
      BY <1>4, <2>3
    <3>2. x = y
      BY <1>2, <1>3, <3>1 DEF Cells, Fits, OneOwner
    <3>3. QED BY <1>3, <3>1, <3>2
  <2>4. QED BY <2>2, <2>3
<1>10. Truth(tag', member')
  BY <1>2 DEF Truth, Cells, Fits
<1>11. live' \in SUBSET Heap
  BY <1>1 DEF Cells
<1>12. QED
  BY <1>2, <1>5, <1>6, <1>7, <1>8, <1>9, <1>10, <1>11
  DEF Cells, Fits, Table, OneOwner, ItemsIn, Truth

(* A container is constructed in a Value that is Null.                     *)
LEMMA BuildCells ==
  ASSUME HInv, DoBuild
  PROVE  Cells' /\ tag' = tag
<1>1. Cells
  BY CellsParts DEF HInv
<1>2. /\ todo # <<>> /\ Head(todo).do \in {"Array", "Map"}
      /\ todo \in Seq(Instructions) /\ Len(todo) \in Nat
  BY LenProperties DEF DoBuild, Ready, HInv, HTypeOK
<1>3. Head(todo) = todo[1] /\ 1 \in 1 .. Len(todo)
  BY <1>2, SMT
<1>4. tag[to] = "Null" /\ to \in Addr
  BY <1>2, <1>3, HeadFacts DEF HInv, BuildsInNull, IsBuild, to
<1> DEFINE n == Container(Head(todo).do, <<>>)
           M(x) == IF x = to THEN n ELSE member[x]
<1>5. member' = [member EXCEPT ![to] = n] /\ tag' = tag /\ live' = live /\ doomed' = doomed
  BY DEF DoBuild
<1>6. MemberOK(n) /\ DOMAIN n.items = {}
  BY <1>2, ContainerOK
<1> HIDE DEF n
<1>7. member' = [x \in Addr |-> M(x)]
  BY <1>1, <1>5 DEF Cells, Fits, Table
<1>8. \A x \in Addr : member'[x] = M(x)
  BY <1>7
<1>9. \A x \in Addr : \A i \in DOMAIN member'[x].items : member'[x] = member[x]
  BY <1>6, <1>8
<1>10. Table(member')
  BY <1>1, <1>6, <1>7, <1>8 DEF Table, Cells, Fits
<1>11. OneOwner(member') /\ ItemsIn(member', live \ doomed)
  BY <1>1, <1>9 DEF OneOwner, ItemsIn, Cells, Fits
<1>12. Truth(tag, member')
  BY <1>1, <1>4, <1>8 DEF Truth, Cells, Fits
<1>13. QED
  BY <1>1, <1>5, <1>10, <1>11, <1>12 DEF Cells, Fits, Table, OneOwner, ItemsIn, Truth

(* vtype is set to what was constructed.                                   *)
LEMMA SetTagCells ==
  ASSUME HInv, DoSetTag
  PROVE  Cells' /\ (to = Tmp \/ tag'[Tmp] = tag[Tmp])
<1>1. Cells
  BY CellsParts DEF HInv
<1>2. to \in Addr
  BY HeadFacts DEF HInv, DoSetTag, Ready
<1>3. tag' = [tag EXCEPT ![to] = member[to].kind]
        /\ member' = member /\ live' = live /\ doomed' = doomed
  BY DEF DoSetTag
<1>4. member[to].kind \in Types
  BY <1>1, <1>2 DEF Cells, Fits, Table, MemberOK
<1>5. tag' \in [Addr -> Types]
        /\ \A x \in Addr : tag'[x] = IF x = to THEN member[to].kind ELSE tag[x]
  BY <1>1, <1>3, <1>4 DEF Cells, Fits
<1>6. Truth(tag', member)
  BY <1>1, <1>5 DEF Truth, Cells, Fits
<1>7. QED
  BY <1>1, <1>3, <1>5, <1>6, AddrFacts DEF Cells, Fits, Table, OneOwner, ItemsIn, Truth

Replace(m, a, n) == [m EXCEPT ![a] = n]

(* Only the elements of a member change.                                   *)
LEMMA HoldingFacts ==
  ASSUME NEW m, MemberOK(m), NEW f
  PROVE  [m EXCEPT !.items = f] = [kind |-> m.kind, data |-> m.data, items |-> f]
  BY DEF MemberOK

(* n may replace m[a]: its elements were there before or are new.          *)
Replaces(n, a, t, m, S, u, R) ==
  /\ MemberOK(n)
  /\ u \in [Addr -> Types]
  /\ \A x \in Addr : x # a => u[x] = t[x]
  /\ u[a] # "Null" => n.kind = u[a]
  /\ \A i, j \in DOMAIN n.items : n.items[i] = n.items[j] => i = j
  /\ \A i \in DOMAIN n.items : n.items[i] \in R
  /\ \A i \in DOMAIN n.items :
       \/ n.items[i] \notin S
       \/ \E j \in DOMAIN m[a].items : n.items[i] = m[a].items[j]
  /\ \A x \in Addr : x # a => \A i \in DOMAIN m[x].items : m[x].items[i] \in R

(* A Value may get another member in place of its own.                     *)
LEMMA Replaced ==
  ASSUME NEW S, NEW t, NEW m, Fits(t, m, S), NEW a \in Addr,
         NEW u, NEW R, NEW n, Replaces(n, a, t, m, S, u, R)
  PROVE  Fits(u, Replace(m, a, n), R)
<1> DEFINE M(x) == IF x = a THEN n ELSE m[x]
           r == Replace(m, a, n)
<1>1. r = [x \in Addr |-> M(x)]
  BY DEF Fits, Table, Replace
<1>2. \A x \in Addr : r[x] = M(x)
  BY <1>1
<1> HIDE DEF r
<1>3. Table(r)
  BY <1>1, <1>2 DEF Replaces, Fits, Table
<1>4. OneOwner(r)
  <2>1. SUFFICES ASSUME NEW x \in Addr, NEW y \in Addr,
                        NEW i \in DOMAIN r[x].items, NEW j \in DOMAIN r[y].items,
                        r[x].items[i] = r[y].items[j]
                 PROVE  x = y /\ i = j
    BY DEF OneOwner
  <2>2. ASSUME NEW z \in Addr, z # a, NEW k \in DOMAIN m[z].items,
               NEW l \in DOMAIN n.items
        PROVE  m[z].items[k] # n.items[l]
    <3>1. m[z].items[k] \in S
      BY DEF Fits, ItemsIn
    <3>2. CASE \E q \in DOMAIN m[a].items : n.items[l] = m[a].items[q]
      BY <2>2, <3>2 DEF Fits, OneOwner
    <3>3. QED BY <3>1, <3>2 DEF Replaces
  <2>3. CASE x = a /\ y = a
    BY <1>2, <2>1, <2>3 DEF Replaces
  <2>4. CASE x # a /\ y # a
    BY <1>2, <2>1, <2>4 DEF Fits, OneOwner
  <2>5. CASE (x = a) # (y = a)
    BY <1>2, <2>1, <2>2, <2>5
  <2>6. QED BY <2>3, <2>4, <2>5
<1>5. ItemsIn(r, R)
  BY <1>2 DEF ItemsIn, Replaces
<1>6. Truth(u, r)
  BY <1>2 DEF Truth, Fits, Replaces
<1>7. QED BY <1>3, <1>4, <1>5, <1>6 DEF Fits, Replaces, r

(* operator new returns a cell that is not in use.                         *)
LEMMA FreshFacts ==
  ASSUME Heap \ live # {}
  PROVE  Fresh \in Heap /\ Fresh \notin live
  BY DEF Fresh

(* The cell that push_back gets was nobody's.                              *)
LEMMA EmplaceCells ==
  ASSUME HInv, DoEmplace
  PROVE  /\ Cells'
         /\ \/ tag'[Tmp] = "Null"
            \/ tag'[Tmp] = tag[Tmp] /\ ~Release(Head(todo))
<1>1. Cells /\ doomed = {}
  BY CellsParts DEF HInv, DoEmplace, Ready
<1>2. todo # <<>> /\ Head(todo).do = "emplace" /\ ~ArrayGone /\ Heap \ live # {}
  BY DEF DoEmplace, Ready
<1>3. to \in Addr /\ from \in Addr
  BY <1>2, HeadFacts DEF HInv
<1>4. Fresh \in Heap /\ Fresh \notin live /\ Fresh \in Addr /\ Fresh # Tmp
  BY <1>2, FreshFacts, AddrFacts
<1>5. to # Fresh /\ member[to].kind = "Array" /\ (from # to \/ tag[to] = "Null")
  BY <1>2, <1>4 DEF ArrayGone, Dead
<1> DEFINE m == Moved(member, Fresh, from)
           n == [member[to] EXCEPT !.items = Append(m[to].items, Fresh)]
<1>6. /\ member' = Replace(m, to, n) /\ tag' = Passed(Fresh, from)
      /\ live' = live \cup {Fresh} /\ doomed' = doomed
  BY DEF DoEmplace, Holding, Passed, Replace
<1>7. Fits(Passed(Fresh, from), m, live \ doomed) /\ m[to] = member[to]
  BY <1>1, <1>3, <1>4, <1>5, MovedFacts
<1> HIDE DEF m
<1>8. MemberOK(member[to]) /\ member[to].items \in Seq(Heap) /\ Len(member[to].items) \in Nat
  BY <1>1, <1>3, <1>5, LenProperties DEF Cells, Fits, Table, MemberOK
<1> DEFINE f == Append(member[to].items, Fresh)
<1>9. /\ f \in Seq(Heap) /\ DOMAIN f = 1 .. Len(member[to].items) + 1
      /\ \A i \in 1 .. Len(member[to].items) : f[i] = member[to].items[i]
      /\ f[Len(member[to].items) + 1] = Fresh
      /\ DOMAIN member[to].items = 1 .. Len(member[to].items)
  BY <1>4, <1>8, SMT
<1> HIDE DEF f
<1>10. n = [kind |-> member[to].kind, data |-> member[to].data, items |-> f]
  BY <1>7, <1>8, HoldingFacts DEF f
<1> HIDE DEF n
<1>11. MemberOK(n) /\ n.items = f /\ n.kind = member[to].kind
  BY <1>5, <1>8, <1>9, <1>10 DEF MemberOK
<1>12. \A i \in DOMAIN f :
         \/ i = Len(member[to].items) + 1 /\ f[i] = Fresh
         \/ i \in DOMAIN member[to].items /\ f[i] = member[to].items[i]
  BY <1>8, <1>9
<1>13. \A i \in DOMAIN member[to].items : member[to].items[i] \in live
  BY <1>1, <1>3 DEF Cells, Fits, ItemsIn
<1>14. \A i, j \in DOMAIN f : f[i] = f[j] => i = j
  BY <1>1, <1>3, <1>4, <1>12, <1>13 DEF Cells, Fits, OneOwner
<1>15. Fits(tag', Replace(m, to, n), live' \ doomed')
  <2>1. tag' \in [Addr -> Types] /\ (tag'[to] # "Null" => n.kind = tag'[to])
    BY <1>3, <1>6, <1>7, <1>11 DEF Fits, Truth
  <2>2. \A i \in DOMAIN n.items : n.items[i] \in live' \ doomed'
    BY <1>1, <1>6, <1>11, <1>12, <1>13
  <2>3. \A i \in DOMAIN n.items :
          \/ n.items[i] \notin live \ doomed
          \/ \E j \in DOMAIN m[to].items : n.items[i] = m[to].items[j]
    BY <1>4, <1>7, <1>11, <1>12
  <2>4. \A x \in Addr : x # to => \A i \in DOMAIN m[x].items : m[x].items[i] \in live' \ doomed'
    BY <1>1, <1>6, <1>7 DEF Fits, ItemsIn
  <2>5. \A x \in Addr : x # to => tag'[x] = Passed(Fresh, from)[x]
    BY <1>6
  <2>6. \A i, j \in DOMAIN n.items : n.items[i] = n.items[j] => i = j
    BY <1>11, <1>14
  <2>7. Replaces(n, to, Passed(Fresh, from), m, live \ doomed, tag', live' \ doomed')
    BY <1>11, <2>1, <2>2, <2>3, <2>4, <2>5, <2>6 DEF Replaces
  <2>8. QED BY <1>3, <1>7, <2>7, Replaced
<1>16. Cells'
  <2>1. live' \in SUBSET Heap /\ doomed' \in SUBSET live'
    BY <1>1, <1>4, <1>6 DEF Cells
  <2>2. QED BY <1>6, <1>15, <2>1 DEF Cells, Fits, Table, OneOwner, ItemsIn, Truth
<1>17. tag'[Tmp] = IF from = Tmp THEN "Null" ELSE tag[Tmp]
  BY <1>1, <1>3, <1>4, <1>6, AddrFacts DEF Passed, Cells, Fits
<1>18. QED BY <1>16, <1>17 DEF Release, from

(* The Null that operator[] adds.                                          *)
LEMMA EmplaceKeyCells ==
  ASSUME HInv, DoEmplaceKey
  PROVE  Cells' /\ tag' = tag
<1>1. Cells /\ doomed = {}
  BY CellsParts DEF HInv, DoEmplaceKey, Ready
<1>2. todo # <<>> /\ Head(todo).do = "key" /\ ~MapGone /\ Heap \ live # {}
  BY DEF DoEmplaceKey, Ready
<1>3. to \in Addr /\ from \in Keys
  BY <1>2, HeadFacts DEF HInv
<1>4. Fresh \in Heap /\ Fresh \notin live
  BY <1>2, FreshFacts
<1>5. member[to].kind = "Map"
  BY <1>2 DEF MapGone
<1> DEFINE g == member[to].items
           f == With(g, from, Fresh)
           n == [member[to] EXCEPT !.items = f]
<1>6. member' = Replace(member, to, n) /\ tag' = tag
        /\ live' = live \cup {Fresh} /\ doomed' = doomed
  BY DEF DoEmplaceKey, Holding, Replace
<1>7. /\ MemberOK(member[to]) /\ DOMAIN g \in SUBSET Keys
      /\ \A j \in DOMAIN g : g[j] \in Heap
  BY <1>1, <1>3, <1>5 DEF Cells, Fits, Table, MemberOK
<1>8. /\ DOMAIN f = DOMAIN g \cup {from}
      /\ \A j \in DOMAIN f : f[j] = IF j = from THEN Fresh ELSE g[j]
  BY DEF With
<1>9. n = [kind |-> member[to].kind, data |-> member[to].data, items |-> f]
  BY <1>7, HoldingFacts
<1> HIDE DEF f, n
<1>10. MemberOK(n) /\ n.items = f /\ n.kind = member[to].kind
  <2>1. n.items = f /\ n.kind = "Map" /\ n.data \in SUBSET Data
          /\ n = [kind |-> n.kind, data |-> n.data, items |-> n.items]
    BY <1>5, <1>7, <1>9 DEF MemberOK
  <2>2. DOMAIN f \in SUBSET Keys /\ \A j \in DOMAIN f : f[j] \in Heap
    BY <1>3, <1>4, <1>7, <1>8
  <2>3. QED BY <1>5, <2>1, <2>2 DEF MemberOK, Types
<1>11. \A j \in DOMAIN g : g[j] \in live
  BY <1>1, <1>3 DEF Cells, Fits, ItemsIn
<1>12. \A j \in DOMAIN f :
         \/ j = from /\ f[j] = Fresh
         \/ j \in DOMAIN g /\ f[j] = g[j]
  BY <1>8
<1>13. Replaces(n, to, tag, member, live \ doomed, tag', live' \ doomed')
  <2>1. tag' \in [Addr -> Types] /\ (tag'[to] # "Null" => n.kind = tag'[to])
    BY <1>1, <1>3, <1>6, <1>10 DEF Cells, Fits, Truth
  <2>2. \A i, j \in DOMAIN n.items : n.items[i] = n.items[j] => i = j
    BY <1>1, <1>3, <1>4, <1>10, <1>11, <1>12 DEF Cells, Fits, OneOwner
  <2>3. \A i \in DOMAIN n.items : n.items[i] \in live' \ doomed'
    BY <1>1, <1>6, <1>10, <1>11, <1>12
  <2>4. \A i \in DOMAIN n.items :
          \/ n.items[i] \notin live \ doomed
          \/ \E j \in DOMAIN member[to].items : n.items[i] = member[to].items[j]
    BY <1>4, <1>10, <1>12
  <2>5. \A x \in Addr : x # to =>
          \A i \in DOMAIN member[x].items : member[x].items[i] \in live' \ doomed'
    BY <1>1, <1>6 DEF Cells, Fits, ItemsIn
  <2>6. QED BY <1>6, <1>10, <2>1, <2>2, <2>3, <2>4, <2>5 DEF Replaces
<1>14. Fits(tag', Replace(member, to, n), live' \ doomed')
  BY <1>1, <1>3, <1>13, Replaced DEF Cells
<1>15. live' \in SUBSET Heap /\ doomed' \in SUBSET live'
  BY <1>1, <1>4, <1>6 DEF Cells
<1>16. Cells'
  BY <1>6, <1>14, <1>15 DEF Cells, Fits, Table, OneOwner, ItemsIn, Truth
<1>17. QED BY <1>6, <1>16

(* A copy of a Value owns cells that were free, one for each element.      *)
LEMMA CopyValueCells ==
  ASSUME HInv, CopyValue
  PROVE  /\ Cells'
         /\ copying' \in SUBSET (Addr \X Addr)
         /\ \A c \in copying' : c[1] # Tmp
         /\ tag'[Tmp] = tag[Tmp]
<1> DEFINE pair == CHOOSE c \in copying : TRUE
           d == pair[1]
           s == pair[2]
           f == IF tag[s] = "Null" THEN <<>> ELSE member[s].items
           g == CHOOSE x \in Places(f) : TRUE
           n == [member[s] EXCEPT !.items = g]
<1>1. Cells
  BY CellsParts DEF HInv
<1>2. pair \in copying /\ copying \in SUBSET (Addr \X Addr)
  BY DEF CopyValue, HInv, HTypeOK
<1>3. d \in Addr /\ s \in Addr /\ d # Tmp
  BY <1>2 DEF HInv, CopiesApart
<1>4. /\ Places(f) # {}
      /\ tag' = [tag EXCEPT ![d] = tag[s]]
      /\ member' = IF tag[s] = "Null" THEN member ELSE Replace(member, d, n)
      /\ live' = live \cup {g[i] : i \in DOMAIN f}
      /\ copying' = (copying \ {pair}) \cup {<<g[i], f[i]>> : i \in DOMAIN f}
      /\ doomed' = doomed
  BY DEF CopyValue, Replace
<1>5. g \in Places(f)
  BY <1>4
<1>6. /\ g \in [DOMAIN f -> Heap \ live]
      /\ \A i, j \in DOMAIN f : g[i] = g[j] => i = j
  BY <1>5 DEF Places
<1>7. MemberOK(member[s])
  BY <1>1, <1>3 DEF Cells, Fits, Table
<1>8. \A i \in DOMAIN f : f[i] \in Heap
  <2>1. CASE tag[s] = "Null"
    BY <2>1
  <2>2. CASE tag[s] # "Null"
    BY <1>7, <2>2, ItemsInHeap
  <2>3. QED BY <2>1, <2>2
<1> HIDE DEF g, pair
<1>9. tag' \in [Addr -> Types] /\ \A x \in Addr : tag'[x] = IF x = d THEN tag[s] ELSE tag[x]
  BY <1>1, <1>3, <1>4 DEF Cells, Fits
<1>10. /\ live' \in SUBSET Heap /\ doomed' \in SUBSET live'
       /\ live \ doomed \subseteq live' \ doomed'
       /\ \A i \in DOMAIN f : g[i] \in live' \ doomed'
  BY <1>1, <1>4, <1>6 DEF Cells
<1>11. Fits(tag', member', live' \ doomed')
  <2>1. CASE tag[s] = "Null"
    <3>1. member' = member
      BY <1>4, <2>1
    <3>2. QED
      BY <1>1, <1>9, <1>10, <2>1, <3>1 DEF Cells, Fits, ItemsIn, OneOwner, Table, Truth
  <2>2. CASE tag[s] # "Null"
    <3>1. f = member[s].items /\ member[s].kind = tag[s]
      BY <1>1, <1>3, <2>2 DEF Cells, Fits, Truth
    <3>2. n = [kind |-> member[s].kind, data |-> member[s].data, items |-> g]
      BY <1>7, HoldingFacts
    <3> HIDE DEF f, n
    <3>3. DOMAIN g = DOMAIN f
      BY <1>6
    <3>4. MemberOK(n) /\ n.items = g /\ n.kind = tag[s]
      <4>1. n.items = g /\ n.kind = tag[s] /\ n.data \in SUBSET Data /\ n.kind \in Types
              /\ n = [kind |-> n.kind, data |-> n.data, items |-> n.items]
        BY <1>7, <3>1, <3>2 DEF MemberOK
      <4>2. n.kind \in {"Null", "String"} => g = <<>>
        BY <1>6, <1>7, <3>1, <4>1 DEF MemberOK
      <4>3. n.kind = "Array" => g \in Seq(Heap)
        <5>1. SUFFICES ASSUME n.kind = "Array" PROVE g \in Seq(Heap)
          OBVIOUS
        <5>2. f \in Seq(Heap)
          BY <1>7, <3>1, <4>1, <5>1 DEF MemberOK
        <5>3. Len(f) \in Nat /\ DOMAIN f = 1 .. Len(f)
          BY <5>2, LenProperties
        <5>4. g \in [1 .. Len(f) -> Heap]
          BY <1>6, <5>3
        <5>5. QED BY <5>3, <5>4, TableIsSeq
      <4>4. n.kind = "Map" => /\ DOMAIN g \in SUBSET Keys
                             /\ \A j \in DOMAIN g : g[j] \in Heap
        BY <1>6, <1>7, <3>1, <3>3, <4>1 DEF MemberOK
      <4>5. QED BY <4>1, <4>2, <4>3, <4>4 DEF MemberOK
    <3>5. Replaces(n, d, tag, member, live \ doomed, tag', live' \ doomed')
      <4>1. /\ MemberOK(n) /\ tag' \in [Addr -> Types]
            /\ \A x \in Addr : x # d => tag'[x] = tag[x]
            /\ tag'[d] # "Null" => n.kind = tag'[d]
        BY <1>3, <1>9, <3>4
      <4>2. /\ \A i, j \in DOMAIN n.items : n.items[i] = n.items[j] => i = j
            /\ \A i \in DOMAIN n.items : n.items[i] \in live' \ doomed'
            /\ \A i \in DOMAIN n.items : n.items[i] \notin live \ doomed
        BY <1>6, <1>10, <3>3, <3>4
      <4>3. \A x \in Addr : x # d =>
              \A i \in DOMAIN member[x].items : member[x].items[i] \in live' \ doomed'
        BY <1>1, <1>10 DEF Cells, Fits, ItemsIn
      <4>4. QED BY <4>1, <4>2, <4>3 DEF Replaces
    <3>6. Fits(tag', Replace(member, d, n), live' \ doomed')
      BY <1>1, <1>3, <3>5, Replaced DEF Cells
    <3>7. QED BY <1>4, <2>2, <3>6
  <2>3. QED BY <2>1, <2>2
<1>12. Cells'
  BY <1>10, <1>11 DEF Cells, Fits, Table, OneOwner, ItemsIn, Truth
<1>13. \A c \in copying' : c \in Addr \X Addr /\ c[1] # Tmp
  <2>1. \A c \in copying : c \in Addr \X Addr /\ c[1] # Tmp
    BY <1>2 DEF HInv, CopiesApart
  <2>2. \A i \in DOMAIN f : g[i] \in Addr /\ f[i] \in Addr /\ g[i] # Tmp
    BY <1>6, <1>8, AddrFacts
  <2>3. \A c \in {<<g[i], f[i]>> : i \in DOMAIN f} : c \in Addr \X Addr /\ c[1] # Tmp
    BY <2>2
  <2>4. QED BY <1>4, <2>1, <2>3
<1>14. tag'[Tmp] = tag[Tmp]
  BY <1>3, <1>9, AddrFacts
<1>15. QED BY <1>12, <1>13, <1>14

(* The element that remove takes out is owned by nothing else.             *)
LEMMA RemoveCells ==
  ASSUME HInv, NEW a \in Addr, NEW i \in DOMAIN member[a].items, RemoveElement(a, i)
  PROVE  Cells' /\ tag' = tag
<1> DEFINE f == member[a].items
           r == IF tag[a] = "Array" THEN RemoveAt(f, i) ELSE Without(f, i)
           n == [member[a] EXCEPT !.items = r]
<1>1. Cells /\ doomed = {}
  BY CellsParts DEF HInv, RemoveElement, Settled
<1>2. /\ member' = Replace(member, a, n) /\ doomed' = {f[i]}
      /\ tag' = tag /\ live' = live /\ tag[a] \in {"Array", "Map"}
  BY DEF RemoveElement, Holding, Replace
<1>3. MemberOK(member[a]) /\ member[a].kind = tag[a]
  BY <1>1, <1>2 DEF Cells, Fits, Table, Truth
<1>4. n = [kind |-> member[a].kind, data |-> member[a].data, items |-> r]
  BY <1>3, HoldingFacts
<1>5. /\ tag[a] = "Array" => r \in Seq(Heap)
      /\ tag[a] = "Map" => DOMAIN r \in SUBSET Keys /\ \A j \in DOMAIN r : r[j] \in Heap
      /\ \A j \in DOMAIN r : \E k \in DOMAIN f : r[j] = f[k] /\ k # i
      /\ \A j, l \in DOMAIN r : r[j] = r[l] => j = l
  <2>1. CASE tag[a] = "Array"
    <3>1. r = RemoveAt(f, i) /\ tag[a] # "Map"
      BY <2>1
    <3>2. f \in Seq(Heap)
      BY <1>3, <2>1 DEF MemberOK
    <3>3. Len(f) \in Nat /\ DOMAIN f = 1 .. Len(f) /\ i \in 1 .. Len(f)
      BY <3>2, LenProperties
    <3> DEFINE At(j) == IF j < i THEN j ELSE j + 1
    <3>4. /\ RemoveAt(f, i) \in Seq(Heap)
          /\ DOMAIN RemoveAt(f, i) = 1 .. Len(f) - 1
          /\ \A j \in 1 .. Len(f) - 1 : RemoveAt(f, i)[j] = f[At(j)]
      BY <3>2, <3>3, RemoveAtFacts
    <3>5. \A j \in 1 .. Len(f) - 1 : At(j) \in 1 .. Len(f) /\ At(j) # i
      BY <3>3
    <3>6. \A j, l \in 1 .. Len(f) - 1 : At(j) = At(l) => j = l
      BY <3>3
    <3>7. \A k, l \in DOMAIN f : f[k] = f[l] => k = l
      BY <1>1 DEF Cells, Fits, OneOwner
    <3> HIDE DEF f, r, At
    <3>8. \A j \in DOMAIN r : \E k \in DOMAIN f : r[j] = f[k] /\ k # i
      BY <3>1, <3>3, <3>4, <3>5
    <3>9. \A j, l \in DOMAIN r : r[j] = r[l] => j = l
      BY <3>1, <3>3, <3>4, <3>5, <3>6, <3>7
    <3>10. QED BY <3>1, <3>4, <3>8, <3>9
  <2>2. CASE tag[a] = "Map"
    <3>1. /\ DOMAIN r = DOMAIN f \ {i} /\ \A j \in DOMAIN r : r[j] = f[j]
          /\ tag[a] # "Array"
      BY <2>2 DEF Without
    <3>2. DOMAIN f \in SUBSET Keys /\ \A j \in DOMAIN f : f[j] \in Heap
      BY <1>3, <2>2 DEF MemberOK
    <3>3. \A k, l \in DOMAIN f : f[k] = f[l] => k = l
      BY <1>1 DEF Cells, Fits, OneOwner
    <3> HIDE DEF f, r
    <3>4. QED BY <3>1, <3>2, <3>3
  <2>3. QED BY <1>2, <2>1, <2>2
<1> HIDE DEF r, n
<1>6. MemberOK(n) /\ n.items = r /\ n.kind = tag[a]
  BY <1>2, <1>3, <1>4, <1>5 DEF MemberOK, Types
<1>7. \A x \in Addr : x # a => \A k \in DOMAIN member[x].items :
        member[x].items[k] \in live' \ doomed'
  BY <1>1, <1>2 DEF Cells, Fits, ItemsIn, OneOwner
<1>8. \A j \in DOMAIN r : r[j] \in live' \ doomed'
  <2>1. \A k \in DOMAIN f : f[k] \in live /\ (k # i => f[k] # f[i])
    BY <1>1 DEF Cells, Fits, ItemsIn, OneOwner
  <2> HIDE DEF f
  <2>2. QED BY <1>2, <1>5, <2>1
<1>9. Replaces(n, a, tag, member, live \ doomed, tag', live' \ doomed')
  <2>1. tag' \in [Addr -> Types] /\ (tag'[a] # "Null" => n.kind = tag'[a])
    BY <1>1, <1>2, <1>6 DEF Cells, Fits
  <2>2. \A j \in DOMAIN n.items : \E k \in DOMAIN member[a].items : n.items[j] = member[a].items[k]
    BY <1>5, <1>6
  <2>3. QED BY <1>2, <1>5, <1>6, <1>7, <1>8, <2>1, <2>2 DEF Replaces
<1>10. Fits(tag', Replace(member, a, n), live' \ doomed')
  BY <1>1, <1>9, Replaced DEF Cells
<1>11. live' \in SUBSET Heap /\ doomed' \in SUBSET live'
  BY <1>1, <1>2 DEF Cells, Fits, ItemsIn
<1>12. QED
  BY <1>2, <1>10, <1>11 DEF Cells, Fits, Table, OneOwner, ItemsIn, Truth

(* What the caller has just made holds nothing.                            *)
LEMMA NewCells ==
  ASSUME HInv, NEW a \in Addr, NEW n \in {None} \cup {Text(d) : d \in Data},
         AssignNew(a, n)
  PROVE  Cells'
<1>1. Cells
  BY CellsParts DEF HInv
<1>2. /\ member' = Replace(member, Tmp, n) /\ tag' = [tag EXCEPT ![Tmp] = n.kind]
      /\ live' = live /\ doomed' = doomed
  BY DEF AssignNew, Begin, Replace
<1>3. MemberOK(n) /\ DOMAIN n.items = {}
  BY NoneOK, TextOK
<1>4. Tmp \in Addr /\ n.kind \in Types
  BY <1>3, AddrFacts DEF MemberOK
<1>5. Replaces(n, Tmp, tag, member, live \ doomed, tag', live' \ doomed')
  BY <1>1, <1>2, <1>3, <1>4 DEF Replaces, Cells, Fits, ItemsIn
<1>6. Fits(tag', Replace(member, Tmp, n), live' \ doomed')
  BY <1>1, <1>4, <1>5, Replaced DEF Cells
<1>7. QED
  BY <1>1, <1>2, <1>6 DEF Cells, Fits, Table, OneOwner, ItemsIn, Truth

-----------------------------------------------------------------------------
(* The steps.                                                              *)

(* The invariant, from the cells and what is left to do.                   *)
LEMMA InvParts ==
  ASSUME Cells,
         copying \in SUBSET (Addr \X Addr), CopiesApart,
         todo \in Seq(Instructions), BuildsInNull(todo), TmpHeld,
         copying # {} /\ todo # <<>> => ~IsBuild(Head(todo)),
         outcome \in {"ok", "bad_alloc", "undefined"},
         Settled
  PROVE  HInv
  BY CellsParts DEF HInv

(* A caller begins with Nulls.                                             *)
LEMMA HInitInv == HInit => HInv
<1> SUFFICES ASSUME HInit PROVE HInv
  OBVIOUS
<1>1. Cells
  BY NoneOK DEF HInit, Cells, Fits, Table, OneOwner, ItemsIn, Truth, Types
<1>2. todo \in Seq(Instructions) /\ Sound(todo)
  BY EmptyProgram DEF HInit, Sound
<1>3. TmpHeld
  BY <1>2, AddrFacts DEF HInit, TmpHeld, Sound
<1>4. QED BY <1>1, <1>2, <1>3, InvParts DEF HInit, CopiesApart, Sound, Settled

(* After an instruction that leaves the cells as they should be.           *)
LEMMA Proceeded ==
  ASSUME HInv, Proceed, todo # <<>>, copying = {}, ~idle, Cells',
         Head(todo).do = "take" => tag'[from] = "Null" /\ copying' = {},
         \/ to = Tmp
         \/ tag'[Tmp] = "Null"
         \/ tag'[Tmp] = tag[Tmp] /\ ~Release(Head(todo)),
         copying' \in SUBSET ({Copied} \X Addr)
  PROVE  HInv'
<1>1. /\ todo' \in Seq(Instructions)
      /\ BuildsInNull(todo)'
      /\ (copying # {} /\ todo # <<>> => ~IsBuild(Head(todo)))'
      /\ TmpHeld'
  BY Proceeding DEF Proceed
<1>2. copying' \in SUBSET (Addr \X Addr) /\ CopiesApart'
  BY AddrFacts DEF CopiesApart
<1>3. outcome' \in {"ok", "bad_alloc", "undefined"} /\ Settled'
  BY DEF Proceed, HInv, HTypeOK, Settled, idle
<1>4. HTypeOK' /\ OwnedOnce' /\ TagTellsTruth'
  BY <1>1, <1>2, <1>3
  DEF HTypeOK, OwnedOnce, TagTellsTruth, Cells, Fits, Table, OneOwner, ItemsIn, Truth
<1>5. QED BY <1>1, <1>2, <1>3, <1>4 DEF HInv

(* Each statement of a call keeps the invariant.                           *)
LEMMA InstructionInv ==
  ASSUME HInv, DoDestruct \/ DoTake \/ DoBuild \/ DoSetTag \/ DoEmplace
                 \/ DoEmplaceKey \/ DoCopy
  PROVE  HInv'
<1>1. /\ Proceed /\ todo # <<>> /\ copying = {} /\ ~idle /\ Cells
      /\ Tmp \in Addr
  BY CellsParts, AddrFacts
  DEF HInv, DoDestruct, DoTake, DoBuild, DoSetTag, DoEmplace, DoEmplaceKey, DoCopy, Ready
<1>2. to \in Addr
  BY <1>1, HeadFacts DEF HInv
<1>3. CASE DoDestruct
  <2>1. Unwind({to}) /\ live' = live /\ doomed = {} /\ copying' = {} /\ Head(todo).do = "destruct"
    BY <1>1, <1>3 DEF DoDestruct, Ready
  <2>2. Cells' /\ \A x \in Addr : tag'[x] = IF x \in {to} THEN "Null" ELSE tag[x]
    BY <1>1, <1>2, <2>1, UnwindCells
  <2>3. to = Tmp \/ tag'[Tmp] = tag[Tmp]
    BY <1>1, <2>2
  <2>4. QED BY <1>1, <2>1, <2>2, <2>3, Proceeded DEF Release
<1>4. CASE DoTake
  BY <1>1, <1>4, TakeCells, Proceeded DEF DoTake
<1>5. CASE DoBuild
  <2>1. Cells' /\ tag' = tag
    BY <1>5, BuildCells
  <2>2. Head(todo).do \in {"Array", "Map"} /\ copying' = {}
    BY <1>1, <1>5 DEF DoBuild, Ready
  <2>3. QED BY <1>1, <2>1, <2>2, Proceeded DEF Release
<1>6. CASE DoSetTag
  <2>1. Cells' /\ (to = Tmp \/ tag'[Tmp] = tag[Tmp])
    BY <1>6, SetTagCells
  <2>2. Head(todo).do = "tag" /\ copying' = {}
    BY <1>1, <1>6 DEF DoSetTag, Ready
  <2>3. QED BY <1>1, <2>1, <2>2, Proceeded DEF Release
<1>7. CASE DoEmplace
  <2>1. Head(todo).do = "emplace" /\ copying' = {}
    BY <1>1, <1>7 DEF DoEmplace, Ready
  <2>2. QED BY <1>1, <1>7, <2>1, EmplaceCells, Proceeded
<1>8. CASE DoEmplaceKey
  <2>1. Cells' /\ tag' = tag
    BY <1>8, EmplaceKeyCells
  <2>2. Head(todo).do = "key" /\ copying' = {}
    BY <1>1, <1>8 DEF DoEmplaceKey, Ready
  <2>3. QED BY <1>1, <2>1, <2>2, Proceeded DEF Release
<1>9. CASE DoCopy
  <2>1. /\ Head(todo).do = "copy" /\ copying' = {<<Copied, from>>}
        /\ tag' = tag /\ member' = member /\ live' = live /\ doomed' = doomed
    BY <1>9 DEF DoCopy, Ready
  <2>2. from \in Addr
    BY <1>1, <2>1, HeadFacts DEF HInv
  <2>3. Cells'
    BY <1>1, <2>1 DEF Cells, Fits, Table, OneOwner, ItemsIn, Truth
  <2>4. copying' \in SUBSET ({Copied} \X Addr)
    BY <2>1, <2>2
  <2>5. QED BY <1>1, <2>1, <2>3, <2>4, Proceeded DEF Release
<1>10. QED BY <1>3, <1>4, <1>5, <1>6, <1>7, <1>8, <1>9

(* The program stays, and the tags it goes by.                             *)
LEMMA DestroyInv ==
  ASSUME HInv, DestroyElements
  PROVE  HInv'
<1>1. Cells /\ Tmp \in Addr /\ doomed # {} /\ Tmp \notin doomed /\ ~idle
  BY CellsParts, AddrFacts DEF HInv, DestroyElements, Cells, Settled
<1>2. Cells' /\ \A x \in Addr : tag'[x] = IF x \in doomed THEN "Null" ELSE tag[x]
  BY <1>1, DestroyCells
<1>3. copying' = copying /\ todo' = todo /\ outcome' = outcome /\ call' = call
  BY DEF DestroyElements
<1>4. BuildsInNull(todo)'
  <2>1. todo \in Seq(Instructions) /\ Len(todo) \in Nat
    BY LenProperties DEF HInv, HTypeOK
  <2>2. 1 \in 1 .. Len(todo) => todo[1] \in Instructions
    BY <2>1
  <2>3. 1 \in 1 .. Len(todo) => todo[1].to \in Addr
    BY <2>2 DEF Instructions
  <2>4. \A n \in 1 .. Len(todo) : n = 1 => 1 \in 1 .. Len(todo)
    OBVIOUS
  <2>5. \A n \in 1 .. Len(todo) : IsBuild(todo[n]) =>
          \/ n = 1 /\ tag'[todo[1].to] = "Null"
          \/ n = 2 /\ todo[1].do = "take" /\ todo[1].from = todo[2].to
    BY <1>2, <2>3, <2>4 DEF HInv, BuildsInNull
  <2>6. QED BY <1>3, <2>5 DEF BuildsInNull, IsBuild
<1>5. TmpHeld'
  BY <1>1, <1>2, <1>3 DEF HInv, TmpHeld, EmptiesTmp, Release
<1>6. (copying # {} /\ todo # <<>> => ~IsBuild(Head(todo)))' /\ CopiesApart' /\ Settled'
  BY <1>1, <1>3 DEF HInv, IsBuild, CopiesApart, Settled, idle
<1>7. HTypeOK' /\ OwnedOnce' /\ TagTellsTruth'
  BY <1>2, <1>3
  DEF HInv, HTypeOK, OwnedOnce, TagTellsTruth, Cells, Fits, Table, OneOwner, ItemsIn, Truth
<1>8. QED BY <1>4, <1>5, <1>6, <1>7 DEF HInv

(* So does each Value that is copied.                                      *)
LEMMA CopyValueInv ==
  ASSUME HInv, CopyValue
  PROVE  HInv'
<1>1. /\ Cells' /\ copying' \in SUBSET (Addr \X Addr) /\ CopiesApart'
      /\ tag'[Tmp] = tag[Tmp]
  BY CopyValueCells DEF CopiesApart
<1>2. copying # {} /\ todo' = todo /\ outcome' = outcome /\ call' = call
  BY DEF CopyValue
<1>3. ~idle
  BY <1>2 DEF HInv, Settled
<1>4. todo \in Seq(Instructions) /\ Len(todo) \in Nat
  BY LenProperties DEF HInv, HTypeOK
<1>5. \A n \in 1 .. Len(todo) : n = 1 => ~IsBuild(todo[n])
  <2>1. SUFFICES ASSUME 1 \in 1 .. Len(todo) PROVE ~IsBuild(todo[1])
    OBVIOUS
  <2>2. todo # <<>> /\ Head(todo) = todo[1]
    BY <1>4, <2>1
  <2>3. QED BY <1>2, <2>2 DEF HInv
<1>6. BuildsInNull(todo)'
  <2>1. \A n \in 1 .. Len(todo) : IsBuild(todo[n]) =>
          n = 2 /\ todo[1].do = "take" /\ todo[1].from = todo[2].to
    BY <1>5 DEF HInv, BuildsInNull
  <2>2. QED BY <1>2, <2>1 DEF BuildsInNull, IsBuild
<1>7. TmpHeld'
  BY <1>1, <1>2 DEF HInv, TmpHeld, EmptiesTmp, Release
<1>8. (copying # {} /\ todo # <<>> => ~IsBuild(Head(todo)))' /\ Settled'
  BY <1>2, <1>3 DEF HInv, IsBuild, Settled, idle
<1>9. HTypeOK' /\ OwnedOnce' /\ TagTellsTruth'
  BY <1>1, <1>2
  DEF HInv, HTypeOK, OwnedOnce, TagTellsTruth, Cells, Fits, Table, OneOwner, ItemsIn, Truth
<1>10. QED BY <1>1, <1>6, <1>7, <1>8, <1>9 DEF HInv

(* What the call held on its stack is gone, and nothing is left to do.     *)
LEMMA BadAllocInv ==
  ASSUME HInv, BadAlloc
  PROVE  HInv'
<1>1. Cells /\ doomed = {} /\ ~idle /\ Tmp \in Addr /\ Copied \in Addr
  BY CellsParts, AddrFacts DEF HInv, BadAlloc
<1>2. copying' = {} /\ todo' = <<>> /\ outcome' = "bad_alloc" /\ call' = call /\ live' = live
  BY DEF BadAlloc
<1>3. Cells' /\ tag'[Tmp] = "Null"
  <2>1. CASE Unwind({Tmp, Copied})
    <3>1. {Tmp, Copied} \in SUBSET Addr
      BY <1>1
    <3>2. Cells' /\ \A x \in Addr : tag'[x] = IF x \in {Tmp, Copied} THEN "Null" ELSE tag[x]
      BY <1>1, <1>2, <2>1, <3>1, UnwindCells
    <3>3. QED BY <1>1, <3>2
  <2>2. CASE Ready("emplace") /\ Unwind({Tmp, Copied, from})
    <3>1. from \in Addr
      BY <2>2, HeadFacts DEF HInv, Ready
    <3>2. {Tmp, Copied, from} \in SUBSET Addr
      BY <1>1, <3>1
    <3>3. Cells' /\ \A x \in Addr : tag'[x] = IF x \in {Tmp, Copied, from} THEN "Null" ELSE tag[x]
      BY <1>1, <1>2, <2>2, <3>2, UnwindCells
    <3>4. QED BY <1>1, <3>3
  <2>3. QED BY <2>1, <2>2 DEF BadAlloc
<1>4. todo' \in Seq(Instructions) /\ BuildsInNull(todo)' /\ EmptiesTmp(todo)'
  BY <1>2 DEF BuildsInNull, EmptiesTmp
<1>5. TmpHeld' /\ CopiesApart' /\ Settled'
  BY <1>1, <1>2, <1>3, <1>4 DEF TmpHeld, CopiesApart, Settled, idle
<1>6. HTypeOK' /\ OwnedOnce' /\ TagTellsTruth'
  BY <1>2, <1>3, <1>4
  DEF HTypeOK, OwnedOnce, TagTellsTruth, Cells, Fits, Table, OneOwner, ItemsIn, Truth
<1>7. QED BY <1>2, <1>4, <1>5, <1>6 DEF HInv

(* Nothing but the outcome, or the end of the call.                        *)
LEMMA StillInv ==
  ASSUME HInv,
         UNCHANGED <<tag, member, live, doomed, copying, todo>>,
         outcome' \in {"ok", "bad_alloc", "undefined"},
         idle' => todo = <<>> /\ doomed = {} /\ copying = {}
  PROVE  HInv'
<1>1. HTypeOK' /\ OwnedOnce' /\ TagTellsTruth'
  BY DEF HInv, HTypeOK, OwnedOnce, TagTellsTruth
<1>2. BuildsInNull(todo)' /\ TmpHeld' /\ CopiesApart' /\ Settled'
  BY DEF HInv, BuildsInNull, IsBuild, TmpHeld, EmptiesTmp, Release, CopiesApart, Settled
<1>3. (copying # {} /\ todo # <<>> => ~IsBuild(Head(todo)))'
  BY DEF HInv, IsBuild
<1>4. QED BY <1>1, <1>2, <1>3 DEF HInv

(* What holds between two calls.                                           *)
LEMMA IdleFacts ==
  ASSUME HInv, idle
  PROVE  /\ Cells /\ todo = <<>> /\ doomed = {} /\ copying = {}
         /\ tag[Tmp] = "Null"
<1>1. todo = <<>> /\ doomed = {} /\ copying = {}
  BY DEF HInv, Settled
<1>2. tag[Tmp] = "Null"
  BY <1>1 DEF HInv, TmpHeld
<1>3. QED BY <1>1, <1>2, CellsParts DEF HInv

(* A call is in progress once it has begun.                                *)
LEMMA CalledFacts ==
  ASSUME NEW op, NEW a, NEW s, NEW kept, op # "none", Called(op, a, s, kept)
  PROVE  ~idle'
<1>1. call'.op = op
  BY DEF Called
<1>2. NoCall.op = "none"
  BY DEF NoCall
<1>3. QED BY <1>1, <1>2 DEF idle

(* A call begins with a sound program.                                     *)
LEMMA BegunInv ==
  ASSUME HInv, NEW p, Sound(p), Begin(p), UNCHANGED <<tag, member>>, ~idle'
  PROVE  HInv'
<1>1. /\ Cells /\ copying = {} /\ tag[Tmp] = "Null"
      /\ todo' = p /\ outcome' = "ok"
      /\ live' = live /\ doomed' = doomed /\ copying' = copying
  BY IdleFacts DEF Begin
<1>2. todo' \in Seq(Instructions)
  BY <1>1 DEF Sound
<1>3. BuildsInNull(todo)'
  BY <1>1 DEF Sound, BuildsInNull, IsBuild
<1>4. TmpHeld'
  BY <1>1 DEF Sound, TmpHeld, EmptiesTmp, Release
<1>5. (copying # {} /\ todo # <<>> => ~IsBuild(Head(todo)))' /\ CopiesApart' /\ Settled'
  BY <1>1 DEF CopiesApart, Settled
<1>6. HTypeOK' /\ OwnedOnce' /\ TagTellsTruth'
  BY <1>1, <1>2 DEF HInv, HTypeOK, OwnedOnce, TagTellsTruth
<1>7. QED BY <1>2, <1>3, <1>4, <1>5, <1>6 DEF HInv

(* A Value the caller has just made is moved out of Tmp by the call.       *)
LEMMA NewInv ==
  ASSUME HInv, NEW a \in Addr, a # Tmp,
         NEW n \in {None} \cup {Text(d) : d \in Data}, AssignNew(a, n)
  PROVE  HInv'
<1>1. Cells'
  BY NewCells
<1>2. ~idle'
  BY CalledFacts DEF AssignNew
<1>3. /\ todo' = MoveAssign(a, Tmp) /\ outcome' = "ok" /\ copying' = {}
      /\ Sound(MoveAssign(a, Tmp))
  BY IdleFacts, MoveSound, AddrFacts DEF AssignNew, Begin
<1>4. todo' = <<Destruct(a), Take(a, Tmp)>> /\ todo' \in Seq(Instructions)
  BY <1>3 DEF MoveAssign, move_from, Sound
<1>5. BuildsInNull(todo)'
  BY <1>4 DEF BuildsInNull, IsBuild, Destruct, Take
<1>6. TmpHeld'
  <2>1. Len(todo') = 2 /\ todo'[2] = Take(a, Tmp)
    BY <1>4
  <2>2. Release(todo'[2])
    BY <2>1 DEF Release, Take
  <2>3. EmptiesTmp(todo')
    BY <1>3 DEF Sound
  <2>4. QED BY <2>1, <2>2, <2>3 DEF TmpHeld, EmptiesTmp, Release
<1>7. (copying # {} /\ todo # <<>> => ~IsBuild(Head(todo)))' /\ CopiesApart' /\ Settled'
  BY <1>2, <1>3 DEF CopiesApart, Settled
<1>8. HTypeOK' /\ OwnedOnce' /\ TagTellsTruth'
  BY <1>1, <1>3, <1>4
  DEF HTypeOK, OwnedOnce, TagTellsTruth, Cells, Fits, Table, OneOwner, ItemsIn, Truth
<1>9. QED BY <1>3, <1>4, <1>5, <1>6, <1>7, <1>8 DEF HInv

(* remove dooms what it takes out of the container.                        *)
LEMMA RemoveInv ==
  ASSUME HInv, NEW a \in Addr, NEW i \in DOMAIN member[a].items, RemoveElement(a, i)
  PROVE  HInv'
<1>1. Cells' /\ tag' = tag
  BY RemoveCells
<1>2. ~idle'
  BY CalledFacts DEF RemoveElement
<1>3. /\ todo = <<>> /\ copying = {} /\ copying' = copying /\ todo' = todo
      /\ outcome' = outcome
  BY IdleFacts DEF RemoveElement
<1>4. BuildsInNull(todo)' /\ TmpHeld' /\ CopiesApart' /\ Settled'
  BY <1>1, <1>2, <1>3
  DEF HInv, BuildsInNull, IsBuild, TmpHeld, EmptiesTmp, Release, CopiesApart, Settled
<1>5. HTypeOK' /\ OwnedOnce' /\ TagTellsTruth'
  BY <1>1, <1>3
  DEF HInv, HTypeOK, OwnedOnce, TagTellsTruth, Cells, Fits, Table, OneOwner, ItemsIn, Truth
<1>6. QED BY <1>3, <1>4, <1>5 DEF HInv

(* The operands are cells of the caller or of the heap, never temporaries. *)
LEMMA OperandFacts ==
  ASSUME HInv, NEW a \in Operands
  PROVE  a \in Addr /\ a # Tmp
  BY AddrFacts DEF HInv, HTypeOK, Operands

(* Every call begins well.                                                 *)
LEMMA CallInv ==
  ASSUME HInv, Call
  PROVE  HInv'
<1>1. PICK a \in Operands :
        \/ \E s \in Operands : \/ Assign(a, s) \/ Push(a, s) \/ Swap(a, s)
                               \/ List(a, <<s>>) \/ \E t \in {a, s} : List(a, <<s, t>>)
        \/ \E m \in {None} \cup {Text(d) : d \in Data} : AssignNew(a, m)
        \/ \E k \in Keys : Index(a, k)
        \/ \E i \in DOMAIN member[a].items : RemoveElement(a, i)
  BY DEF Call
<1>2. a \in Addr /\ a # Tmp
  BY OperandFacts
<1>3. ASSUME NEW s \in Operands, Assign(a, s)
      PROVE  HInv'
  <2>1. s \in Addr /\ s # Tmp
    BY OperandFacts
  <2>2. Sound(CopyAssign(a, s)) /\ Sound(MoveAssign(a, s))
    BY <1>2, <2>1, CopySound, MoveSound
  <2>3. ~idle'
    BY <1>3, CalledFacts DEF Assign
  <2>4. QED BY <1>3, <2>2, <2>3, BegunInv DEF Assign
<1>4. ASSUME NEW s \in Operands, Push(a, s)
      PROVE  HInv'
  <2>1. s \in Addr /\ s # Tmp
    BY OperandFacts
  <2>2. Sound(push_back_copy(a, s)) /\ Sound(push_back_move(a, s))
    BY <1>2, <2>1, PushCopySound, PushMoveSound
  <2>3. ~idle'
    BY <1>4, CalledFacts DEF Push
  <2>4. QED BY <1>4, <2>2, <2>3, BegunInv DEF Push
<1>5. ASSUME NEW s \in Operands, Swap(a, s)
      PROVE  HInv'
  <2>1. s \in Addr /\ s # Tmp
    BY OperandFacts
  <2>2. Sound(swap(a, s))
    BY <1>2, <2>1, SwapSound
  <2>3. ~idle'
    BY <1>5, CalledFacts DEF Swap
  <2>4. QED BY <1>5, <2>2, <2>3, BegunInv DEF Swap
<1>6. ASSUME NEW s \in Operands, NEW t \in Operands,
             NEW list \in {<<s>>, <<s, t>>}, List(a, list)
      PROVE  HInv'
  <2>1. s \in Addr /\ t \in Addr
    BY OperandFacts
  <2>2. tag[Tmp] = "Null"
    BY <1>6, IdleFacts DEF List, Begin
  <2>3. Sound(AssignList(a, <<s>>)) /\ Sound(AssignList(a, <<s, t>>))
    BY <1>2, <2>1, <2>2, ListSound
  <2>4. Sound(AssignList(a, list))
    BY <2>3
  <2>5. ~idle'
    BY <1>6, CalledFacts DEF List
  <2>6. QED BY <1>6, <2>4, <2>5, BegunInv DEF List
<1>7. ASSUME NEW k \in Keys, Index(a, k)
      PROVE  HInv'
  <2>1. Sound(operator_index(a, k))
    BY <1>2, IndexSound
  <2>2. ~idle'
    BY <1>7, CalledFacts DEF Index
  <2>3. QED BY <1>7, <2>1, <2>2, BegunInv DEF Index
<1>8. QED BY <1>1, <1>2, <1>3, <1>4, <1>5, <1>6, <1>7, NewInv, RemoveInv

(* Every step keeps the invariant.                                         *)
LEMMA HStepInv == HInv /\ [HNext]_hvars => HInv'
<1> SUFFICES ASSUME HInv, [HNext]_hvars PROVE HInv'
  OBVIOUS
<1>1. CASE Undefined
  BY <1>1, StillInv DEF Undefined, HInv, Settled, idle
<1>2. CASE Return
  BY <1>2, StillInv DEF Return
<1>3. CASE UNCHANGED hvars
  BY <1>3, StillInv DEF hvars, HInv, HTypeOK, Settled, idle
<1>4. QED
  BY <1>1, <1>2, <1>3, CallInv, DestroyInv, InstructionInv, CopyValueInv, BadAllocInv
  DEF HNext, Run

-----------------------------------------------------------------------------
(* The theorems.                                                           *)

(* The invariant holds in every state of every sequence of calls.          *)
THEOREM HeapInvariant == HSpec => []HInv
  BY HInitInv, HStepInv, PTL DEF HSpec

(* Whatever is called, on whatever Values, the cells have the types the    *)
(* code gives them, and only elements that are allocated are destroyed.    *)
THEOREM HeapTypeCorrect == HSpec => []HTypeOK
<1>1. HInv => HTypeOK
  BY DEF HInv
<1>2. QED BY <1>1, HeapInvariant, PTL

(* Every element belongs to one container, and to none when it is about to *)
(* be destroyed: however assignment, push_back, swap, remove and a failing *)
(* operator new follow each other, and however their operands are nested,  *)
(* no Value is destroyed twice or held after it is gone.                   *)
THEOREM OwnedByOne == HSpec => []OwnedOnce
<1>1. HInv => OwnedOnce
  BY DEF HInv
<1>2. QED BY <1>1, HeapInvariant, PTL

(* vtype never names a member of the union that is not constructed, also   *)
(* after an exception.                                                     *)
THEOREM TagsTrue == HSpec => []TagTellsTruth
<1>1. HInv => TagTellsTruth
  BY DEF HInv
<1>2. QED BY <1>1, HeapInvariant, PTL
=============================================================================
