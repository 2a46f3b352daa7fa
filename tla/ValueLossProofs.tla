-------------------------- MODULE ValueLossProofs --------------------------
(***************************************************************************)
(* Proofs that no Value gets out of reach, never to be destroyed: which    *)
(* calls on ubjson::Value may leak.                                        *)
(***************************************************************************)
EXTENDS ValueReferenceProofs

-----------------------------------------------------------------------------
(* The invariant.                                                          *)

(* The calls that may lose a Value.                                        *)
Losing ==
  \/ call.op \in {"move", "push_move"} /\ call.kin = "above"
  \/ call.op = "swap" /\ call.kin \in {"above", "below"}
  \/ Excused

(* No Values hold each other in a circle that nothing else holds.          *)
Anchored ==
  \A U \in SUBSET live : U # {} =>
    \E x \in U : x \in doomed \/ \E y \in Addr \ U : x \in Own(y)

(* What is not allocated owns nothing.                                     *)
FreeOwnNothing == \A x \in Heap \ live : Own(x) = {}

Tags(t, x) == t.do = "tag" /\ t.to = x

(* push_back may set the tag last.                                         *)
TaggedLater(p, n, x) == \E m \in n + 1 .. Len(p) : Tags(p[m], x)

Untagged ==
  \A x \in Addr : Own(x) # {} /\ tag[x] = "Null" =>
    /\ call.op \in Pushing /\ x = call.to
    /\ todo # <<>> /\ Head(todo).do # "take" /\ TaggedLater(todo, 0, x)

(* What moves a Value.                                                     *)
Puts(t) == t.do \in {"take", "emplace"}

(* No Value is moved into what it holds: B is closed, and has all that is  *)
(* still to be moved, but none of the Values that the call changes.        *)
Keeps(B, p) ==
  \A n \in 1 .. Len(p) :
    /\ p[n].to \notin B
    /\ Puts(p[n]) /\ p[n].from # p[n].to => Own(p[n].from) \subseteq B

Apart(B) ==
  /\ \A x \in B \cup {Tmp, Copied} : Own(x) \subseteq B
  /\ \A c \in copying : c[1] \in B \cup {Copied}
  /\ Keeps(B, todo)

(* A copy is moved out of its local at once.                               *)
CopyHeld ==
  copying # {} \/ Own(Copied) # {} =>
    todo # <<>> /\ Puts(Head(todo)) /\ from = Copied

(* What is to be copied goes to cells of its own, and empty ones.          *)
CopiedOnce ==
  \A c \in copying :
    /\ c[1] \in live \cup {Copied} /\ Own(c[1]) = {}
    /\ \A d \in copying : d[1] = c[1] => d = c

(* x owns nothing in step n: it does not now, or a step takes that away,   *)
(* and nothing gives it any in between.                                    *)
Empties(t, x) ==
  \/ t.do = "destruct" /\ t.to = x
  \/ Puts(t) /\ t.from = x /\ t.to # x

EmptiedAt(now, x, p, n) ==
  \E m \in 0 .. n - 1 :
    /\ IF m = 0 THEN now = {} ELSE Empties(p[m], x)
    /\ \A j \in m + 1 .. n - 1 : p[j].to # x

(* x has its tag in step n.                                                *)
TaggedAt(now, x, p, n) ==
  \E m \in 0 .. n - 1 :
    /\ IF m = 0 THEN now # "Null" ELSE Tags(p[m], x)
    /\ \A j \in m + 1 .. n - 1 : ~Alters(p[j], x)

(* Step n loses nothing.                                                   *)
TargetOK(c, p, n) ==
  p[n].to \in IF p[n].do = "copy" THEN {Copied} ELSE Roots \cup c.kept \cup {Tmp}

FillOK(s, p, n) ==
  p[n].do \in {"take", "copy", "Array", "Map"} =>
    EmptiedAt(Elements(s[p[n].to]), p[n].to, p, n)

TagOK(c, t, p, n) ==
  p[n].do \in {"emplace", "key"} =>
    \/ TaggedAt(t[p[n].to], p[n].to, p, n)
    \/ c.op \in Pushing /\ p[n].to = c.to /\ TaggedLater(p, n, p[n].to)

OrderOK(c, s, p, n) ==
  /\ p[n].do = "copy" => n < Len(p) /\ Puts(p[n + 1]) /\ p[n + 1].from = Copied
  /\ c.op \in Pushing /\ p[n].do = "take" => n = 1
  /\ c.op \in Pushing /\ p[n].do = "emplace" => p[n].to = c.to
  /\ p[n].do = "key" => /\ p[n].from \notin DOMAIN s[p[n].to].items
                        /\ \A j \in 1 .. n - 1 : p[j].do \in {"Map", "tag"}

Lossless(c, t, s, p) ==
  \A n \in 1 .. Len(p) :
    TargetOK(c, p, n) /\ FillOK(s, p, n) /\ TagOK(c, t, p, n) /\ OrderOK(c, s, p, n)

NoneLost ==
  /\ Anchored
  /\ FreeOwnNothing
  /\ Untagged
  /\ \E B \in SUBSET live : Apart(B)
  /\ CopyHeld
  /\ CopiedOnce
  /\ Lossless(call, tag, member, todo)

LInv == ~idle /\ ~Losing => NoneLost

-----------------------------------------------------------------------------
(* Circles.                                                                *)

(* Every Value stays anchored when what is moved, all in the closed set B, *)
(* goes to something outside of B, and each new cell is owned by something *)
(* that is neither new nor in B.                                           *)
LEMMA AnchoredStep ==
  ASSUME Anchored, FreeOwnNothing, live' \in SUBSET Heap, doomed \cap live' \subseteq doomed',
         NEW B \in SUBSET live, \A x \in B : Own(x) \subseteq B,
         \A y \in Addr \ B : \A x \in Own(y) \ B :
           x \in live' => x \in Elements(member'[y]) \cup doomed',
         \A y \in Addr : \A x \in Own(y) \cap B :
           x \in live' => \E z \in (Addr \ B) \cup {y} : x \in Elements(member'[z]) \cup doomed',
         \A n \in live' \ live :
           \E z \in Addr \ (B \cup (live' \ live)) : n \in Elements(member'[z])
  PROVE  Anchored'
<1>1. SUFFICES ASSUME NEW U \in SUBSET live', U # {},
                      \A x \in U : x \notin doomed'
                        /\ \A y \in Addr \ U : x \notin Elements(member'[y])
               PROVE  FALSE
  BY DEF Anchored, Own
<1>2. \A y \in Addr \ live : y \in U => Own(y) = {}
  BY <1>1 DEF FreeOwnNothing
<1>3. U \cap live \subseteq B
  <2> DEFINE V == (U \cap live) \ B
  <2>1. SUFFICES ASSUME V # {} PROVE FALSE
    OBVIOUS
  <2>2. PICK x \in V : x \in doomed \/ \E y \in Addr \ V : x \in Own(y)
    BY <2>1 DEF Anchored
  <2>3. x \notin doomed
    BY <1>1, <2>2
  <2>4. PICK y \in Addr \ V : x \in Own(y)
    BY <2>2, <2>3
  <2>5. y \notin B /\ y \notin U
    BY <1>2, <2>4
  <2>6. x \in Elements(member'[y]) \cup doomed'
    BY <1>1, <2>4, <2>5
  <2>7. QED BY <1>1, <2>4, <2>5, <2>6
<1>4. CASE U \subseteq live
  <2>1. PICK x \in U : x \in doomed \/ \E y \in Addr \ U : x \in Own(y)
    BY <1>1, <1>4 DEF Anchored
  <2>2. x \notin doomed
    BY <1>1, <2>1
  <2>3. PICK y \in Addr \ U : x \in Own(y)
    BY <2>1, <2>2
  <2>4. PICK z \in (Addr \ B) \cup {y} : x \in Elements(member'[z]) \cup doomed'
    BY <1>1, <1>3, <1>4, <2>3
  <2>5. z \notin U /\ z \in Addr
    BY <1>3, <1>4, <2>3
  <2>6. QED BY <1>1, <2>4, <2>5
<1>5. CASE ~(U \subseteq live)
  <2>1. PICK n \in U : n \in live' \ live
    BY <1>1, <1>5
  <2>2. PICK z \in Addr \ (B \cup (live' \ live)) : n \in Elements(member'[z])
    BY <2>1
  <2>3. z \notin U
    BY <1>1, <1>3, <2>2
  <2>4. QED BY <1>1, <2>2, <2>3
<1>6. QED BY <1>4, <1>5

(* Nothing is lost where nothing is moved: an element stays where it is,   *)
(* or its destructor is about to run.                                      *)
LEMMA AnchoredStays ==
  ASSUME Anchored, FreeOwnNothing, live' \in SUBSET Heap, doomed \cap live' \subseteq doomed',
         \A y \in Addr : \A x \in Own(y) :
           x \in live' => x \in Elements(member'[y]) \cup doomed',
         \A n \in live' \ live : \E z \in Addr \ (live' \ live) : n \in Elements(member'[z])
  PROVE  Anchored'
<1>1. {} \in SUBSET live /\ \A x \in {} : Own(x) \subseteq {}
  OBVIOUS
<1>2. \A y \in Addr : \A x \in Own(y) \cap {} :
        x \in live' => \E z \in (Addr \ {}) \cup {y} : x \in Elements(member'[z]) \cup doomed'
  OBVIOUS
<1>3. \A y \in Addr \ {} : \A x \in Own(y) \ {} :
        x \in live' => x \in Elements(member'[y]) \cup doomed'
  OBVIOUS
<1>4. \A n \in live' \ live :
        \E z \in Addr \ ({} \cup (live' \ live)) : n \in Elements(member'[z])
  OBVIOUS
<1>5. QED BY <1>1, <1>2, <1>3, <1>4, AnchoredStep

(* When every Value has an owner outside of any circle, and what owns one  *)
(* has its tag, the variables reach them all.                              *)
LEMMA AnchoredInReach ==
  ASSUME Cells, Anchored, FreeOwnNothing, doomed = {}, Own(Tmp) = {}, Own(Copied) = {},
         \A x \in Addr : Own(x) # {} => tag[x] # "Null"
  PROVE  live \subseteq Reachable
<1> DEFINE U == live \ Reachable
<1>1. SUFFICES ASSUME U # {} PROVE FALSE
  OBVIOUS
<1>2. PICK x \in U : \E y \in Addr \ U : x \in Own(y)
  BY <1>1 DEF Anchored
<1>3. PICK y \in Addr \ U : x \in Own(y)
  BY <1>2
<1>4. y \in Roots \cup live
  BY <1>3 DEF FreeOwnNothing, Addr
<1>5. PICK r \in Roots : y \in {r} \cup Below(r)
  BY <1>3, <1>4 DEF Reachable
<1>6. x \in Holds(y) /\ r \in Addr
  BY <1>3, HoldsOwn, AddrFacts
<1>7. x \in Below(r)
  BY <1>5, <1>6, BelowFacts DEF Encloses
<1>8. QED BY <1>2, <1>5, <1>7 DEF Reachable
-----------------------------------------------------------------------------
(* What is left of a program.                                              *)

(* A Value that will own nothing still will.                               *)
LEMMA EmptiedTail ==
  ASSUME NEW S, NEW p \in Seq(S), p # <<>>, NEW n \in 1 .. Len(p) - 1,
         NEW x, NEW e, NEW g, EmptiedAt(e, x, p, n + 1),
         Empties(Head(p), x) => g = {},
         e = {} /\ Head(p).to # x => g = {}
  PROVE  EmptiedAt(g, x, Tail(p), n)
<1>1. /\ Len(p) \in Nat /\ Head(p) = p[1] /\ \A j \in 1 .. Len(p) - 1 : Tail(p)[j] = p[j + 1]
      /\ n \in Nat /\ n < Len(p)
  BY TailFacts
<1>2. PICK m \in 0 .. n :
        /\ IF m = 0 THEN e = {} ELSE Empties(p[m], x)
        /\ \A j \in m + 1 .. n : p[j].to # x
  <2>1. (n + 1) - 1 = n
    BY <1>1
  <2>2. QED BY <2>1 DEF EmptiedAt
<1>3. CASE m \in {0, 1}
  <2>1. g = {}
    BY <1>1, <1>2, <1>3
  <2>2. \A j \in 0 + 1 .. n - 1 : Tail(p)[j].to # x
    <3>1. SUFFICES ASSUME NEW j \in 0 + 1 .. n - 1 PROVE Tail(p)[j].to # x
      OBVIOUS
    <3>2. j \in 1 .. Len(p) - 1 /\ j + 1 \in m + 1 .. n
      BY <1>1, <1>3
    <3>3. QED BY <1>1, <1>2, <3>2
  <2>3. 0 \in 0 .. n - 1
    BY <1>1
  <2>4. QED BY <2>1, <2>2, <2>3 DEF EmptiedAt
<1>4. CASE m \notin {0, 1}
  <2>1. m - 1 \in 1 .. n - 1 /\ m - 1 \in 0 .. n - 1 /\ m - 1 # 0
    BY <1>1, <1>2, <1>4
  <2>2. Tail(p)[m - 1] = p[m]
    <3>1. m - 1 \in 1 .. Len(p) - 1 /\ (m - 1) + 1 = m
      BY <1>1, <1>2, <2>1
    <3>2. QED BY <1>1, <3>1
  <2>3. Empties(p[m], x)
    BY <1>2, <1>4
  <2>4. \A j \in (m - 1) + 1 .. n - 1 : Tail(p)[j].to # x
    <3>1. SUFFICES ASSUME NEW j \in (m - 1) + 1 .. n - 1 PROVE Tail(p)[j].to # x
      OBVIOUS
    <3>2. j \in 1 .. Len(p) - 1 /\ j + 1 \in m + 1 .. n
      BY <1>1, <1>2, <2>1
    <3>3. QED BY <1>1, <1>2, <3>2
  <2>5. QED BY <2>1, <2>2, <2>3, <2>4 DEF EmptiedAt
<1>5. QED BY <1>3, <1>4

(* And one that will have its tag.                                         *)
LEMMA TaggedTail ==
  ASSUME NEW S, NEW p \in Seq(S), p # <<>>, NEW n \in 1 .. Len(p) - 1,
         NEW x, NEW t, NEW u, TaggedAt(t, x, p, n + 1),
         /\ Tags(Head(p), x) /\ \A j \in 2 .. n : ~Alters(p[j], x)
         => u # "Null",
         t # "Null" /\ ~Alters(Head(p), x) => u # "Null"
  PROVE  TaggedAt(u, x, Tail(p), n)
<1>1. /\ Len(p) \in Nat /\ Head(p) = p[1] /\ \A j \in 1 .. Len(p) - 1 : Tail(p)[j] = p[j + 1]
      /\ n \in Nat /\ n < Len(p) /\ 1 \in 0 + 1 .. n
  BY TailFacts
<1>2. PICK m \in 0 .. n :
        /\ IF m = 0 THEN t # "Null" ELSE Tags(p[m], x)
        /\ \A j \in m + 1 .. n : ~Alters(p[j], x)
  <2>1. (n + 1) - 1 = n
    BY <1>1
  <2>2. QED BY <2>1 DEF TaggedAt
<1>3. CASE m \in {0, 1}
  <2>1. u # "Null"
    <3>1. m = 1 => \A j \in 2 .. n : ~Alters(p[j], x)
      BY <1>2
    <3>2. QED BY <1>1, <1>2, <1>3, <3>1
  <2>2. \A j \in 0 + 1 .. n - 1 : ~Alters(Tail(p)[j], x)
    <3>1. SUFFICES ASSUME NEW j \in 0 + 1 .. n - 1 PROVE ~Alters(Tail(p)[j], x)
      OBVIOUS
    <3>2. j \in 1 .. Len(p) - 1 /\ j + 1 \in m + 1 .. n
      BY <1>1, <1>3
    <3>3. QED BY <1>1, <1>2, <3>2
  <2>3. 0 \in 0 .. n - 1
    BY <1>1
  <2>4. QED BY <2>1, <2>2, <2>3 DEF TaggedAt
<1>4. CASE m \notin {0, 1}
  <2>1. m - 1 \in 1 .. n - 1 /\ m - 1 \in 0 .. n - 1 /\ m - 1 # 0
    BY <1>1, <1>2, <1>4
  <2>2. Tail(p)[m - 1] = p[m]
    <3>1. m - 1 \in 1 .. Len(p) - 1 /\ (m - 1) + 1 = m
      BY <1>1, <1>2, <2>1
    <3>2. QED BY <1>1, <3>1
  <2>3. Tags(p[m], x)
    BY <1>2, <1>4
  <2>4. \A j \in (m - 1) + 1 .. n - 1 : ~Alters(Tail(p)[j], x)
    <3>1. SUFFICES ASSUME NEW j \in (m - 1) + 1 .. n - 1 PROVE ~Alters(Tail(p)[j], x)
      OBVIOUS
    <3>2. j \in 1 .. Len(p) - 1 /\ j + 1 \in m + 1 .. n
      BY <1>1, <1>2, <2>1
    <3>3. QED BY <1>1, <1>2, <3>2
  <2>5. QED BY <2>1, <2>2, <2>3, <2>4 DEF TaggedAt
<1>5. QED BY <1>3, <1>4

(* And one whose tag comes later.                                          *)
LEMMA LaterTail ==
  ASSUME NEW S, NEW p \in Seq(S), p # <<>>, NEW n \in 0 .. Len(p) - 1, NEW x,
         TaggedLater(p, n + 1, x)
  PROVE  TaggedLater(Tail(p), n, x)
<1>1. /\ Len(p) \in Nat \ {0} /\ Len(Tail(p)) = Len(p) - 1
      /\ \A j \in 1 .. Len(p) - 1 : Tail(p)[j] = p[j + 1]
  BY TailFacts
<1>2. PICK m \in (n + 1) + 1 .. Len(p) : Tags(p[m], x)
  BY DEF TaggedLater
<1>3. m - 1 \in n + 1 .. Len(p) - 1 /\ m - 1 \in 1 .. Len(p) - 1 /\ (m - 1) + 1 = m
  BY <1>1
<1>4. Tail(p)[m - 1] = p[m]
  BY <1>1, <1>3
<1>5. QED BY <1>1, <1>2, <1>3, <1>4 DEF TaggedLater

(* The rest of a program loses nothing, when its first step gave and took  *)
(* what it should: g and e tell what a Value owned before and after.       *)
LEMMA LosslessTail ==
  ASSUME NEW p \in Seq(Instructions), p # <<>>, NEW c, NEW t, NEW s, NEW u, NEW r,
         Lossless(c, t, s, p),
         \A x \in Roots \cup c.kept \cup {Tmp, Copied} :
           /\ Empties(Head(p), x) => Elements(r[x]) = {}
           /\ Elements(s[x]) = {} /\ Head(p).to # x => Elements(r[x]) = {},
         \A x \in Roots \cup c.kept \cup {Tmp, Copied} :
           t[x] # "Null" /\ ~Alters(Head(p), x) => u[x] # "Null",
         \A n \in 2 .. Len(p) :
           /\ p[n].do \in {"emplace", "key"} /\ Tags(Head(p), p[n].to)
           /\ \A j \in 2 .. n - 1 : ~Alters(p[j], p[n].to)
           => u[p[n].to] # "Null",
         \A n \in 2 .. Len(p) : p[n].do = "key" => p[n].from \notin DOMAIN r[p[n].to].items
  PROVE  Lossless(c, u, r, Tail(p))
<1>1. /\ Len(p) \in Nat \ {0} /\ Len(Tail(p)) = Len(p) - 1
      /\ Head(p) = p[1]
      /\ \A n \in 1 .. Len(p) - 1 : Tail(p)[n] = p[n + 1]
  BY TailFacts
<1>2. SUFFICES ASSUME NEW n \in 1 .. Len(p) - 1
               PROVE  /\ TargetOK(c, Tail(p), n) /\ FillOK(r, Tail(p), n)
                      /\ TagOK(c, u, Tail(p), n) /\ OrderOK(c, r, Tail(p), n)
  BY <1>1 DEF Lossless
<1> DEFINE i == Tail(p)[n]
<1>3. /\ n + 1 \in 1 .. Len(p) /\ i = p[n + 1] /\ n \in Nat /\ (n + 1) - 1 = n
      /\ n + 1 \in 2 .. Len(p) /\ n \in 0 .. Len(p) - 1
      /\ \A m \in 1 .. n - 1 : m + 1 \in 1 .. n /\ m \in 1 .. Len(p) - 1
  <2>1. Len(p) \in Nat
    BY <1>1
  <2>2. n + 1 \in 1 .. Len(p) /\ n \in Nat /\ (n + 1) - 1 = n
    BY <2>1
  <2>3. n + 1 \in 2 .. Len(p) /\ n \in 0 .. Len(p) - 1
    BY <2>1
  <2>4. \A m \in 1 .. n - 1 : m + 1 \in 1 .. n /\ m \in 1 .. Len(p) - 1
    BY <2>1
  <2>5. i = p[n + 1]
    BY <1>1
  <2>6. QED BY <2>2, <2>3, <2>4, <2>5
<1>4. /\ TargetOK(c, p, n + 1) /\ FillOK(s, p, n + 1)
      /\ TagOK(c, t, p, n + 1) /\ OrderOK(c, s, p, n + 1)
  BY <1>3 DEF Lossless
<1> HIDE DEF i
<1>5. i.to \in Roots \cup c.kept \cup {Tmp, Copied} /\ TargetOK(c, Tail(p), n)
  BY <1>3, <1>4 DEF TargetOK, i
<1>6. FillOK(r, Tail(p), n)
  <2>1. SUFFICES ASSUME i.do \in {"take", "copy", "Array", "Map"}
                 PROVE  EmptiedAt(Elements(r[i.to]), i.to, Tail(p), n)
    BY DEF FillOK, i
  <2>2. EmptiedAt(Elements(s[i.to]), i.to, p, n + 1)
    BY <1>3, <1>4, <2>1 DEF FillOK
  <2>3. /\ Empties(Head(p), i.to) => Elements(r[i.to]) = {}
        /\ Elements(s[i.to]) = {} /\ Head(p).to # i.to => Elements(r[i.to]) = {}
    BY <1>5
  <2> DEFINE e == Elements(s[i.to])
             g == Elements(r[i.to])
  <2>4. EmptiedAt(e, i.to, p, n + 1) /\ (Empties(Head(p), i.to) => g = {})
          /\ (e = {} /\ Head(p).to # i.to => g = {})
    BY <2>2, <2>3
  <2> HIDE DEF e, g
  <2>5. EmptiedAt(g, i.to, Tail(p), n)
    BY <2>4, EmptiedTail
  <2>6. QED BY <2>5 DEF g
<1>7. TagOK(c, u, Tail(p), n)
  <2>1. SUFFICES ASSUME i.do \in {"emplace", "key"}
                 PROVE  \/ TaggedAt(u[i.to], i.to, Tail(p), n)
                        \/ /\ c.op \in Pushing /\ i.to = c.to
                           /\ TaggedLater(Tail(p), n, i.to)
    BY DEF TagOK, i
  <2>2. \/ TaggedAt(t[i.to], i.to, p, n + 1)
        \/ c.op \in Pushing /\ i.to = c.to /\ TaggedLater(p, n + 1, i.to)
    BY <1>3, <1>4, <2>1 DEF TagOK
  <2>3. /\ Tags(Head(p), i.to) /\ \A j \in 2 .. n : ~Alters(p[j], i.to)
        => u[i.to] # "Null"
    BY <1>3, <2>1
  <2>4. t[i.to] # "Null" /\ ~Alters(Head(p), i.to) => u[i.to] # "Null"
    BY <1>5
  <2>5. TaggedAt(t[i.to], i.to, p, n + 1) => TaggedAt(u[i.to], i.to, Tail(p), n)
    BY <2>3, <2>4, TaggedTail
  <2>6. TaggedLater(p, n + 1, i.to) => TaggedLater(Tail(p), n, i.to)
    BY <1>3, LaterTail
  <2>7. QED BY <2>2, <2>5, <2>6
<1>8. OrderOK(c, r, Tail(p), n)
  <2>1. ASSUME i.do = "copy"
        PROVE  n < Len(Tail(p)) /\ Puts(Tail(p)[n + 1]) /\ Tail(p)[n + 1].from = Copied
    <3>1. n + 1 < Len(p) /\ Puts(p[(n + 1) + 1]) /\ p[(n + 1) + 1].from = Copied
      BY <1>3, <1>4, <2>1 DEF OrderOK
    <3>2. n < Len(p) - 1 /\ n + 1 \in 1 .. Len(p) - 1
      BY <1>1, <1>3, <3>1
    <3>3. QED BY <1>1, <3>1, <3>2
  <2>2. ~(c.op \in Pushing /\ i.do = "take")
    <3>1. n + 1 # 1
      BY <1>3
    <3>2. QED BY <1>3, <1>4, <3>1 DEF OrderOK
  <2>3. ASSUME i.do = "key"
        PROVE  /\ i.from \notin DOMAIN r[i.to].items
               /\ \A j \in 1 .. n - 1 : Tail(p)[j].do \in {"Map", "tag"}
    <3>1. \A j \in 1 .. n : p[j].do \in {"Map", "tag"}
      BY <1>3, <1>4, <2>3 DEF OrderOK
    <3>2. ASSUME NEW j \in 1 .. n - 1 PROVE Tail(p)[j].do \in {"Map", "tag"}
      <4>1. j + 1 \in 1 .. n /\ Tail(p)[j] = p[j + 1]
        BY <1>1, <1>3
      <4>2. QED BY <3>1, <4>1
    <3>3. i.from \notin DOMAIN r[i.to].items
      BY <1>3, <2>3
    <3>4. QED BY <3>2, <3>3
  <2>4. c.op \in Pushing /\ i.do = "emplace" => i.to = c.to
    BY <1>3, <1>4 DEF OrderOK
  <2>5. QED BY <2>1, <2>2, <2>3, <2>4 DEF OrderOK, i
<1>9. QED BY <1>5, <1>6, <1>7, <1>8
-----------------------------------------------------------------------------
(* The steps of a call.                                                    *)

(* What a call works on is allocated, or a variable.                       *)
Targets == Roots \cup call.kept \cup {Tmp, Copied}

(* What the program changes is allocated, and no memory has run out.       *)
LEMMA TargetFacts ==
  ASSUME HInv, RunInv, todo # <<>>
  PROVE  /\ Targets \subseteq Addr /\ Targets \cap (Heap \ live) = {}
         /\ outcome # "bad_alloc" /\ Cells
         /\ call.op \notin Freeing => doomed = {}
<1>1. call.kept \subseteq live /\ outcome # "bad_alloc" /\ Cells
  BY CallFacts
<1>2. live \subseteq Heap
  BY <1>1 DEF Cells
<1>3. QED BY <1>1, <1>2, AddrFacts, HeapAssumption, CallFacts DEF Targets

(* Where the tag is not set, the array of push_back is being put together. *)
LEMMA TagFacts ==
  ASSUME NoneLost, NEW x \in Addr, tag[x] = "Null", Own(x) # {}
  PROVE  /\ call.op \in Pushing /\ x = call.to
         /\ todo # <<>> /\ Head(todo).do # "take" /\ TaggedLater(todo, 0, x)
  BY DEF NoneLost, Untagged

(* What the first step needs.                                              *)
LEMMA HeadLoss ==
  ASSUME HInv, RunInv, NoneLost, todo # <<>>
  PROVE  /\ to \in IF Head(todo).do = "copy" THEN {Copied} ELSE Targets \ {Copied}
         /\ Head(todo).do \in {"take", "copy", "Array", "Map"} => Own(to) = {}
         /\ Head(todo).do \in {"emplace", "key"} =>
              \/ tag[to] # "Null"
              \/ call.op \in Pushing /\ to = call.to /\ TaggedLater(todo, 1, to)
         /\ Head(todo).do = "copy" =>
              1 < Len(todo) /\ Puts(todo[2]) /\ todo[2].from = Copied
         /\ Head(todo).do = "key" => from \notin DOMAIN member[to].items
         /\ Head(todo).do = "emplace" /\ call.op \in Pushing => to = call.to
         /\ call.op \in Pushing => \A n \in 2 .. Len(todo) : todo[n].do # "take"
<1>1. todo \in Seq(Instructions) /\ Head(todo) = todo[1] /\ 1 \in 1 .. Len(todo)
  BY TailFacts DEF HInv, HTypeOK
<1>2. /\ TargetOK(call, todo, 1) /\ FillOK(member, todo, 1)
      /\ TagOK(call, tag, todo, 1) /\ OrderOK(call, member, todo, 1)
  BY <1>1 DEF NoneLost, Lossless
<1>3. Copied \notin Roots \cup call.kept \cup {Tmp}
  <2>1. call.kept \subseteq Heap
    BY DEF RunInv, CallOK
  <2>2. QED BY <2>1, AddrFacts, HeapAssumption
<1>4. \A m \in 0 .. 1 - 1 : m = 0
  OBVIOUS
<1>5. \A e, x : EmptiedAt(e, x, todo, 1) => e = {}
  BY <1>4 DEF EmptiedAt
<1>6. \A t, x : TaggedAt(t, x, todo, 1) => t # "Null"
  BY <1>4 DEF TaggedAt
<1>7. to \in IF Head(todo).do = "copy" THEN {Copied} ELSE Targets \ {Copied}
  BY <1>1, <1>2, <1>3 DEF TargetOK, Targets, to
<1>8. Head(todo).do \in {"take", "copy", "Array", "Map"} => Own(to) = {}
  BY <1>1, <1>2, <1>5 DEF FillOK, Own, to
<1>9. Head(todo).do \in {"emplace", "key"} =>
        \/ tag[to] # "Null"
        \/ call.op \in Pushing /\ to = call.to /\ TaggedLater(todo, 1, to)
  BY <1>1, <1>2, <1>6 DEF TagOK, to
<1>10. /\ Head(todo).do = "copy" =>
            1 < Len(todo) /\ Puts(todo[2]) /\ todo[2].from = Copied
       /\ Head(todo).do = "key" => from \notin DOMAIN member[to].items
       /\ Head(todo).do = "emplace" /\ call.op \in Pushing => to = call.to
  <2>1. 1 + 1 = 2
    OBVIOUS
  <2>2. QED BY <1>1, <1>2, <2>1 DEF OrderOK, to, from
<1>11. ASSUME call.op \in Pushing, NEW n \in 2 .. Len(todo) PROVE todo[n].do # "take"
  <2>1. n \in 1 .. Len(todo) /\ n # 1
    BY <1>1
  <2>2. QED BY <1>11, <2>1 DEF NoneLost, Lossless, OrderOK
<1>12. QED BY <1>7, <1>8, <1>9, <1>10, <1>11

(* B stays apart when it gets what is new and held by it.                  *)
LEMMA ApartStep ==
  ASSUME HInv, RunInv, NoneLost, NEW B \in SUBSET live, Apart(B),
         todo # <<>> => todo' \in {todo, Tail(todo)}, todo = <<>> => todo' = <<>>,
         NEW C, C \in SUBSET live', C \ B \subseteq Heap \ live,
         \A x \in Addr : Own(x) \subseteq B => Elements(member'[x]) \subseteq C,
         \A x \in C \ B : Elements(member'[x]) \subseteq C,
         \A c \in copying' : c[1] \in C \cup {Copied}
  PROVE  Apart(C)'
<1>1. \A x \in C \cup {Tmp, Copied} : Elements(member'[x]) \subseteq C
  <2>1. B \subseteq Addr
    BY CallFacts DEF Cells
  <2>2. \A x \in B \cup {Tmp, Copied} : x \in Addr /\ Own(x) \subseteq B
    BY <2>1, AddrFacts DEF Apart
  <2>3. QED BY <2>2
<1>2. ASSUME NEW n \in 1 .. Len(todo')
      PROVE  /\ todo'[n].to \notin C
             /\ Puts(todo'[n]) /\ todo'[n].from # todo'[n].to
                => Elements(member'[todo'[n].from]) \subseteq C
  <2>1. todo # <<>>
    BY <1>2
  <2>2. PICK m \in 1 .. Len(todo) : todo'[n] = todo[m]
    <3>1. /\ Len(Tail(todo)) = Len(todo) - 1 /\ Len(todo) \in Nat
          /\ \A j \in 1 .. Len(todo) - 1 : Tail(todo)[j] = todo[j + 1]
      BY <2>1, TailFacts DEF HInv, HTypeOK
    <3>2. CASE todo' = todo
      BY <3>2
    <3>3. CASE todo' = Tail(todo)
      <4>1. n \in 1 .. Len(todo) - 1
        BY <3>1, <3>3
      <4>2. n + 1 \in 1 .. Len(todo)
        BY <3>1, <4>1
      <4>3. QED BY <3>1, <3>3, <4>1, <4>2
    <3>4. QED BY <2>1, <3>2, <3>3
  <2>3. /\ todo[m].to \notin B
        /\ Puts(todo[m]) /\ todo[m].from # todo[m].to => Own(todo[m].from) \subseteq B
    BY DEF Apart, Keeps
  <2>4. todo[m].to \notin Heap \ live
    <3>1. TargetOK(call, todo, m)
      BY DEF NoneLost, Lossless
    <3>2. todo[m].to \in Targets
      BY <3>1 DEF TargetOK, Targets
    <3>3. QED BY <2>1, <3>2, TargetFacts
  <2>5. Puts(todo[m]) => todo[m].from \in Addr
    <3>1. todo[m] \in Instructions
      BY DEF HInv, HTypeOK
    <3>2. QED BY <3>1 DEF Instructions, Puts
  <2>6. QED BY <2>2, <2>3, <2>4, <2>5
<1>3. QED BY <1>1, <1>2 DEF Apart, Keeps, Own
(* A member without elements has no places for them.                       *)
LEMMA NoPlaces ==
  ASSUME NEW m, Elements(m) = {}
  PROVE  DOMAIN m.items = {}
  BY DEF Elements, Items

(* The second of two instructions is the next.                             *)
LEMMA SecondFacts ==
  ASSUME NEW S, NEW p \in Seq(S), 1 < Len(p)
  PROVE  Tail(p) # <<>> /\ Head(Tail(p)) = p[2]
<1>1. p # <<>> /\ Len(p) \in Nat
  BY SMT
<1>2. Tail(p) \in Seq(S) /\ Len(Tail(p)) = Len(p) - 1
        /\ \A n \in 1 .. Len(p) - 1 : Tail(p)[n] = p[n + 1]
  BY <1>1, TailFacts
<1>3. Tail(p)[1] = p[2]
  <2>1. 1 \in 1 .. Len(p) - 1 /\ 1 + 1 = 2
    BY <1>1
  <2>2. QED BY <1>2, <2>1
<1>4. Tail(p) # <<>>
  <2>1. \A n \in Nat : 1 < n => n - 1 # 0
    OBVIOUS
  <2>2. Len(<<>>) = 0
    OBVIOUS
  <2>3. QED BY <1>1, <1>2, <2>1, <2>2
<1>5. QED BY <1>2, <1>3, <1>4, TailFacts

(* After an instruction that gave, took and tagged what it should.         *)
LEMMA InstructedLossless ==
  ASSUME HInv, RunInv, NoneLost, Proceed, todo # <<>>,
         \A x \in Targets :
           /\ Empties(Head(todo), x) => Elements(member'[x]) = {}
           /\ Own(x) = {} /\ to # x => Elements(member'[x]) = {}
           /\ tag[x] # "Null" /\ ~Alters(Head(todo), x) => tag'[x] # "Null",
         Head(todo).do = "tag" => tag'[to] = member[to].kind,
         \A x \in Addr :
           \/ Head(todo).do = "Map" /\ x = to
           \/ member'[x] = member[x]
           \/ Head(todo).do \notin {"Map", "tag"},
         Head(todo).do = "Map" => Elements(member'[to]) = {}
  PROVE  Lossless(call, tag, member, todo)' /\ todo' = Tail(todo) /\ call' = call
<1>1. todo' = Tail(todo) /\ call' = call /\ todo \in Seq(Instructions)
  BY DEF Proceed, HInv, HTypeOK
<1>2. Lossless(call, tag, member, todo)
  BY DEF NoneLost
<1>3. Head(todo) = todo[1] /\ 1 \in 1 .. Len(todo) /\ Len(todo) \in Nat
  BY <1>1, TailFacts
<1>4. ASSUME NEW n \in 2 .. Len(todo), todo[n].do \in {"emplace", "key"},
             Tags(Head(todo), todo[n].to),
             \A j \in 2 .. n - 1 : ~Alters(todo[j], todo[n].to)
      PROVE  tag'[todo[n].to] # "Null"
  <2> DEFINE x == todo[n].to
  <2>1. Head(todo).do = "tag" /\ to = x
    BY <1>4 DEF Tags, to
  <2>2. n \in 1 .. Len(todo) /\ n \in Nat
    BY <1>3
  <2>3. GrowOK(call, member, todo, n)
    BY <2>2 DEF RunInv, Planned, Plan
  <2>4. PICK type \in {"Array", "Map"} : BuiltAt(member[x].kind, x, type, todo, n)
    BY <1>4, <2>3 DEF GrowOK
  <2> HIDE DEF x
  <2>5. PICK m \in 0 .. n - 1 :
          IF m = 0 THEN member[x].kind = type ELSE todo[m].do = type /\ todo[m].to = x
    BY <2>4 DEF BuiltAt
  <2>6. m = 0
    <3>1. SUFFICES ASSUME m # 0 PROVE FALSE
      OBVIOUS
    <3>2. m # 1
      BY <1>3, <2>1, <2>5, <3>1
    <3>3. m \in 2 .. n - 1
      BY <2>2, <3>1, <3>2
    <3>4. Alters(todo[m], x)
      BY <2>4, <2>5, <3>1 DEF Alters
    <3>5. QED BY <1>4, <3>3, <3>4 DEF x
  <2>7. QED BY <2>1, <2>4, <2>5, <2>6 DEF x
<1>5. ASSUME NEW n \in 2 .. Len(todo), todo[n].do = "key"
      PROVE  todo[n].from \notin DOMAIN member'[todo[n].to].items
  <2>1. n \in 1 .. Len(todo) /\ 1 \in 1 .. n - 1
    BY <1>3
  <2>2. OrderOK(call, member, todo, n)
    BY <1>2, <2>1 DEF Lossless
  <2>3. /\ todo[n].from \notin DOMAIN member[todo[n].to].items
        /\ Head(todo).do \in {"Map", "tag"}
    BY <1>3, <1>5, <2>1, <2>2 DEF OrderOK
  <2>4. todo[n].to \in Addr
    <3>1. todo[n] \in Instructions
      BY <1>1, <2>1
    <3>2. QED BY <3>1 DEF Instructions
  <2>5. CASE Head(todo).do = "Map" /\ todo[n].to = to
    <3>1. DOMAIN member'[to].items = {}
      <4>1. Elements(member'[to]) = {}
        BY <2>5
      <4>2. QED BY <4>1, NoPlaces
    <3>2. QED BY <2>5, <3>1
  <2>6. CASE ~(Head(todo).do = "Map" /\ todo[n].to = to)
    <3>1. member'[todo[n].to] = member[todo[n].to]
      BY <2>3, <2>4, <2>6
    <3>2. QED BY <2>3, <3>1
  <2>7. QED BY <2>5, <2>6
<1>6. Lossless(call, tag', member', Tail(todo))
  <2>1. \A x \in Roots \cup call.kept \cup {Tmp, Copied} :
          /\ Empties(Head(todo), x) => Elements(member'[x]) = {}
          /\ Elements(member[x]) = {} /\ Head(todo).to # x => Elements(member'[x]) = {}
    BY DEF Targets, Own, to
  <2>2. \A x \in Roots \cup call.kept \cup {Tmp, Copied} :
          tag[x] # "Null" /\ ~Alters(Head(todo), x) => tag'[x] # "Null"
    BY DEF Targets
  <2>3. QED BY <1>1, <1>2, <1>4, <1>5, <2>1, <2>2, LosslessTail
<1>7. QED BY <1>1, <1>6

(* An instruction that keeps its share of the invariant keeps it all.      *)
LEMMA InstructedLoss ==
  ASSUME HInv, RunInv, NoneLost, Proceed, todo # <<>>,
         Anchored', FreeOwnNothing', Lossless(call, tag, member, todo)',
         \A x \in Addr : Elements(member'[x]) # {} /\ tag'[x] = "Null" =>
           \/ Own(x) # {} /\ tag[x] = "Null" /\ ~Tags(Head(todo), x)
           \/ call.op \in Pushing /\ x = call.to /\ TaggedLater(todo, 1, x),
         NEW B, B \in SUBSET live', Apart(B)',
         Elements(member'[Copied]) = {},
         IF Head(todo).do = "copy" THEN copying' = {<<Copied, from>>} ELSE copying' = {}
  PROVE  NoneLost'
<1>1. /\ todo' = Tail(todo) /\ call' = call /\ todo \in Seq(Instructions)
      /\ Len(todo) \in Nat /\ Len(todo') = Len(todo) - 1
      /\ \A n \in 1 .. Len(todo) - 1 : todo'[n] = todo[n + 1]
  BY TailFacts DEF Proceed, HInv, HTypeOK
<1>2. Untagged'
  <2>1. SUFFICES ASSUME NEW x \in Addr, Elements(member'[x]) # {}, tag'[x] = "Null"
                 PROVE  /\ call.op \in Pushing /\ x = call.to
                        /\ todo' # <<>> /\ Head(todo').do # "take"
                        /\ TaggedLater(todo', 0, x)
    BY <1>1 DEF Untagged, Own
  <2>2. call.op \in Pushing /\ x = call.to /\ TaggedLater(todo, 1, x)
    <3>1. ASSUME Own(x) # {}, tag[x] = "Null", ~Tags(Head(todo), x)
          PROVE  call.op \in Pushing /\ x = call.to /\ TaggedLater(todo, 1, x)
      <4>1. call.op \in Pushing /\ x = call.to /\ TaggedLater(todo, 0, x)
        BY <3>1, TagFacts
      <4>2. PICK m \in 0 + 1 .. Len(todo) : Tags(todo[m], x)
        BY <4>1 DEF TaggedLater
      <4>3. m # 1
        BY <1>1, <3>1, <4>2, TailFacts
      <4>4. m \in 1 + 1 .. Len(todo)
        BY <1>1, <4>3
      <4>5. QED BY <4>1, <4>2, <4>4 DEF TaggedLater
    <3>2. QED BY <2>1, <3>1
  <2>3. PICK m \in 1 + 1 .. Len(todo) : Tags(todo[m], x)
    BY <2>2 DEF TaggedLater
  <2>4. 2 \in 2 .. Len(todo) /\ 1 \in 1 .. Len(todo) - 1 /\ 0 + 1 = 1 /\ 1 + 1 = 2
    BY <1>1, <2>3
  <2>5. TaggedLater(todo', 0, x)
    <3>1. 0 \in 0 .. Len(todo) - 1
      BY <1>1, <2>4
    <3>2. QED BY <1>1, <2>2, <2>4, <3>1, LaterTail
  <2>6. todo' # <<>> /\ Head(todo') = todo[2]
    <3>1. 1 < Len(todo)
      BY <1>1, <2>4
    <3>2. QED BY <1>1, <3>1, SecondFacts
  <2>7. QED BY <2>2, <2>4, <2>5, <2>6, HeadLoss
<1>3. CopyHeld'
  <2>1. SUFFICES ASSUME Head(todo).do = "copy"
                 PROVE  /\ todo' # <<>> /\ Puts(Head(todo')) /\ Head(todo').from = Copied
    BY DEF CopyHeld, Own, from
  <2>2. 1 < Len(todo) /\ Puts(todo[2]) /\ todo[2].from = Copied
    BY <2>1, HeadLoss
  <2>3. QED BY <1>1, <2>2, SecondFacts
<1>4. CopiedOnce'
  BY DEF CopiedOnce, Own
<1>5. QED BY <1>2, <1>3, <1>4 DEF NoneLost
(* What a step takes away and leaves, when no element gets another owner.  *)
LEMMA DestructLoss ==
  ASSUME HInv, RunInv, NoneLost, DoDestruct
  PROVE  NoneLost'
<1>1. /\ Proceed /\ todo # <<>> /\ doomed = {} /\ copying = {} /\ copying' = {}
      /\ Head(todo).do = "destruct" /\ Unwind({to}) /\ live' = live
  BY DEF DoDestruct, Ready
<1>2. /\ Cells /\ to \in Addr /\ to \in Targets \ {Copied} /\ Targets \subseteq Addr
      /\ call.op \notin Pushing
  BY <1>1, TargetFacts, HeadLoss, HeadKinds
<1>3. /\ \A x \in Addr : member'[x] = IF x \in {to} /\ tag[x] # "Null" THEN None ELSE member[x]
      /\ \A x \in Addr : tag'[x] = IF x \in {to} THEN "Null" ELSE tag[x]
      /\ doomed' = UNION {Holds(x) : x \in {to}}
  BY <1>1, UnwindEffect
<1>4. /\ \A x \in Addr : x # to => member'[x] = member[x] /\ tag'[x] = tag[x]
      /\ doomed' = Own(to) /\ Elements(member'[to]) = {} /\ tag'[to] = "Null"
  <2>1. \A x \in Addr : x # to => member'[x] = member[x] /\ tag'[x] = tag[x]
    BY <1>3
  <2>2. tag'[to] = "Null" /\ doomed' = Holds(to)
    BY <1>2, <1>3
  <2>3. CASE tag[to] # "Null"
    <3>1. member'[to] = None
      BY <1>2, <1>3, <2>3
    <3>2. QED BY <2>1, <2>2, <2>3, <3>1, HoldsOwn, NoElements
  <2>4. CASE tag[to] = "Null"
    <3>1. Own(to) = {}
      BY <1>2, <2>4, TagFacts
    <3>2. Holds(to) = {} /\ member'[to] = member[to]
      BY <1>2, <1>3, <2>4, HoldsOwn
    <3>3. QED BY <2>1, <2>2, <3>1, <3>2 DEF Own
  <2>5. QED BY <2>3, <2>4
<1>5. \A x \in Addr : Elements(member'[x]) = IF x = to THEN {} ELSE Own(x)
  BY <1>4 DEF Own
<1>6. Anchored'
  <2>1. \A y \in Addr : \A x \in Own(y) :
          x \in live' => x \in Elements(member'[y]) \cup doomed'
    BY <1>4, <1>5
  <2>2. live' \in SUBSET Heap /\ doomed \cap live' \subseteq doomed' /\ live' \ live = {}
    BY <1>1, <1>2 DEF Cells
  <2>3. QED BY <2>1, <2>2, AnchoredStays DEF NoneLost
<1>7. FreeOwnNothing'
  BY <1>1, <1>5, AddrFacts DEF NoneLost, FreeOwnNothing, Own
<1>8. PICK B \in SUBSET live : Apart(B)
  BY DEF NoneLost
<1>9. Apart(B)'
  <2>1. \A x \in Addr : Own(x) \subseteq B => Elements(member'[x]) \subseteq B
    BY <1>5
  <2>2. todo' = Tail(todo)
    BY <1>1 DEF Proceed
  <2>3. QED BY <1>1, <1>8, <2>1, <2>2, ApartStep
<1>10. Lossless(call, tag, member, todo)'
  <2>1. \A x \in Targets :
          /\ Empties(Head(todo), x) => Elements(member'[x]) = {}
          /\ Own(x) = {} /\ to # x => Elements(member'[x]) = {}
          /\ tag[x] # "Null" /\ ~Alters(Head(todo), x) => tag'[x] # "Null"
    BY <1>1, <1>2, <1>4, <1>5 DEF Empties, Puts, Alters, to
  <2>2. QED BY <1>1, <2>1, InstructedLossless
<1>11. Elements(member'[Copied]) = {}
  <2>1. Own(Copied) = {}
    BY <1>1 DEF NoneLost, CopyHeld, Puts
  <2>2. QED BY <1>2, <1>5, <2>1, AddrFacts
<1>12. \A x \in Addr : Elements(member'[x]) # {} /\ tag'[x] = "Null" =>
         Own(x) # {} /\ tag[x] = "Null" /\ ~Tags(Head(todo), x)
  BY <1>1, <1>4, <1>5 DEF Tags
<1>13. QED BY <1>1, <1>6, <1>7, <1>8, <1>9, <1>10, <1>11, <1>12, InstructedLoss

(* move_from empties its source, and fills what was empty.                 *)
LEMMA TakeLoss ==
  ASSUME HInv, RunInv, NoneLost, DoTake
  PROVE  NoneLost'
<1>1. /\ Proceed /\ todo # <<>> /\ doomed = {} /\ copying = {} /\ copying' = {}
      /\ Head(todo).do = "take" /\ live' = live /\ doomed' = {}
  BY DEF DoTake, Ready
<1>2. /\ Cells /\ to \in Addr /\ from \in Addr /\ to \in Targets \ {Copied}
      /\ Targets \subseteq Addr /\ Own(to) = {}
  BY <1>1, TargetFacts, HeadLoss, TakeEffect
<1>3. /\ \A x \in Addr : member'[x] = After(to, from, x)
      /\ \A x \in Addr : tag'[x] =
           IF x = from THEN "Null" ELSE IF x = to THEN tag[from] ELSE tag[x]
  BY TakeEffect
<1>4. tag[from] = "Null" => Own(from) = {}
  BY <1>1, <1>2, TagFacts
<1>5. \A x \in Addr : Elements(member'[x]) =
        IF x = from THEN {} ELSE IF x = to THEN Own(from) ELSE Own(x)
  <2>1. CASE tag[from] = "Null"
    <3>1. \A x \in Addr : member'[x] = member[x]
      BY <1>3, <2>1 DEF After
    <3>2. QED BY <1>2, <1>4, <2>1, <3>1 DEF Own
  <2>2. CASE tag[from] # "Null"
    <3>1. \A x \in Addr : member'[x] =
            IF x = from THEN None ELSE IF x = to THEN member[from] ELSE member[x]
      BY <1>3, <2>2 DEF After
    <3>2. QED BY <3>1, NoElements DEF Own
  <2>3. QED BY <2>1, <2>2
<1>6. PICK B \in SUBSET live : Apart(B)
  BY DEF NoneLost
<1>7. to \notin B /\ (from # to => Own(from) \subseteq B)
  <2>1. 1 \in 1 .. Len(todo) /\ Head(todo) = todo[1]
    BY <1>1, TailFacts DEF HInv, HTypeOK
  <2>2. Puts(todo[1])
    BY <1>1, <2>1 DEF Puts
  <2>3. QED BY <1>6, <2>1, <2>2 DEF Apart, Keeps, to, from
<1>8. Anchored'
  <2>1. \A x \in B : Own(x) \subseteq B
    BY <1>6 DEF Apart
  <2>2. ASSUME NEW y \in Addr \ B, NEW x \in Own(y) \ B
        PROVE  x \in Elements(member'[y]) \cup doomed'
    <3>1. y # from /\ y # to
      BY <1>2, <1>7, <2>2
    <3>2. QED BY <1>5, <3>1
  <2>3. ASSUME NEW y \in Addr, NEW x \in Own(y) \cap B
        PROVE  \E z \in (Addr \ B) \cup {y} : x \in Elements(member'[z]) \cup doomed'
    <3>1. CASE y = from
      <4>1. to # from /\ to \in Addr \ B
        BY <1>2, <1>7, <2>3, <3>1
      <4>2. x \in Elements(member'[to])
        BY <1>5, <2>3, <3>1, <4>1
      <4>3. QED BY <4>1, <4>2
    <3>2. CASE y # from
      <4>1. y # to
        BY <1>2, <2>3
      <4>2. x \in Elements(member'[y])
        BY <1>5, <2>3, <3>2, <4>1
      <4>3. QED BY <4>2
    <3>3. QED BY <3>1, <3>2
  <2>4. live' \in SUBSET Heap /\ doomed \cap live' \subseteq doomed' /\ live' \ live = {}
    BY <1>1, <1>2 DEF Cells
  <2>5. QED BY <2>1, <2>2, <2>3, <2>4, AnchoredStep DEF NoneLost
<1>9. FreeOwnNothing'
  <2>1. to \notin Heap \ live
    BY <1>1, <1>2, TargetFacts
  <2>2. ASSUME NEW x \in Heap \ live PROVE Elements(member'[x]) = {}
    <3>1. x \in Addr /\ x # to /\ Own(x) = {}
      BY <2>1, AddrFacts DEF NoneLost, FreeOwnNothing
    <3>2. QED BY <1>5, <3>1
  <2>3. QED BY <1>1, <2>2 DEF FreeOwnNothing, Own
<1>10. Apart(B)'
  <2>1. ASSUME NEW x \in Addr, Own(x) \subseteq B PROVE Elements(member'[x]) \subseteq B
    BY <1>5, <1>7, <2>1
  <2>2. todo' = Tail(todo)
    BY <1>1 DEF Proceed
  <2>3. QED BY <1>1, <1>6, <2>1, <2>2, ApartStep
<1>11. Lossless(call, tag, member, todo)'
  <2>1. \A x \in Targets :
          /\ Empties(Head(todo), x) => Elements(member'[x]) = {}
          /\ Own(x) = {} /\ to # x => Elements(member'[x]) = {}
          /\ tag[x] # "Null" /\ ~Alters(Head(todo), x) => tag'[x] # "Null"
    BY <1>1, <1>2, <1>3, <1>5 DEF Empties, Alters, to, from
  <2>2. QED BY <1>1, <2>1, InstructedLossless
<1>12. Elements(member'[Copied]) = {}
  <2>1. Own(Copied) # {} => from = Copied
    BY DEF NoneLost, CopyHeld
  <2>2. QED BY <1>2, <1>5, <2>1, AddrFacts
<1>13. ASSUME NEW x \in Addr, Elements(member'[x]) # {}, tag'[x] = "Null"
       PROVE  Own(x) # {} /\ tag[x] = "Null" /\ ~Tags(Head(todo), x)
  <2>1. x # from
    BY <1>5, <1>13
  <2>2. x # to
    BY <1>3, <1>4, <1>5, <1>13, <2>1
  <2>3. QED BY <1>1, <1>3, <1>5, <1>13, <2>1, <2>2 DEF Tags
<1>14. QED BY <1>1, <1>6, <1>8, <1>9, <1>10, <1>11, <1>12, <1>13, InstructedLoss

(* construct_fromArray, construct_fromMap overwrite nothing.               *)
LEMMA BuildLoss ==
  ASSUME HInv, RunInv, NoneLost, DoBuild
  PROVE  NoneLost'
<1>1. /\ Proceed /\ todo # <<>> /\ doomed = {} /\ copying = {} /\ copying' = {}
      /\ Head(todo).do \in {"Array", "Map"} /\ live' = live /\ doomed' = {}
  BY DEF DoBuild, Ready
<1>2. /\ Cells /\ to \in Addr /\ to \in Targets \ {Copied}
      /\ Targets \subseteq Addr /\ Own(to) = {}
  BY <1>1, TargetFacts, HeadLoss
<1>3. /\ \A x \in Addr : x # to => member'[x] = member[x]
      /\ Elements(member'[to]) = {} /\ tag' = tag
  BY BuildEffect
<1>4. \A x \in Addr : Elements(member'[x]) = Own(x)
  BY <1>2, <1>3 DEF Own
<1>5. PICK B \in SUBSET live : Apart(B)
  BY DEF NoneLost
<1>6. Anchored'
  <2>1. live' \in SUBSET Heap /\ doomed \cap live' \subseteq doomed' /\ live' \ live = {}
    BY <1>1, <1>2 DEF Cells
  <2>2. QED BY <1>4, <2>1, AnchoredStays DEF NoneLost
<1>7. FreeOwnNothing'
  BY <1>1, <1>4, AddrFacts DEF NoneLost, FreeOwnNothing, Own
<1>8. Apart(B)'
  <2>1. \A x \in Addr : Own(x) \subseteq B => Elements(member'[x]) \subseteq B
    BY <1>4
  <2>2. todo' = Tail(todo)
    BY <1>1 DEF Proceed
  <2>3. QED BY <1>1, <1>5, <2>1, <2>2, ApartStep
<1>9. Lossless(call, tag, member, todo)'
  <2>1. \A x \in Targets :
          /\ Empties(Head(todo), x) => Elements(member'[x]) = {}
          /\ Own(x) = {} /\ to # x => Elements(member'[x]) = {}
          /\ tag[x] # "Null" /\ ~Alters(Head(todo), x) => tag'[x] # "Null"
    BY <1>1, <1>2, <1>3, <1>4 DEF Empties, Puts
  <2>2. \A x \in Addr :
          \/ Head(todo).do = "Map" /\ x = to
          \/ member'[x] = member[x]
          \/ Head(todo).do \notin {"Map", "tag"}
    BY <1>1, <1>3
  <2>3. QED BY <1>1, <1>3, <2>1, <2>2, InstructedLossless
<1>10. Elements(member'[Copied]) = {}
  <2>1. Own(Copied) = {}
    BY <1>1 DEF NoneLost, CopyHeld, Puts
  <2>2. QED BY <1>4, <2>1, AddrFacts
<1>11. \A x \in Addr : Elements(member'[x]) # {} /\ tag'[x] = "Null" =>
         Own(x) # {} /\ tag[x] = "Null" /\ ~Tags(Head(todo), x)
  BY <1>1, <1>3, <1>4 DEF Tags
<1>12. QED BY <1>1, <1>5, <1>6, <1>7, <1>8, <1>9, <1>10, <1>11, InstructedLoss

(* vtype gets the type of what is there.                                   *)
LEMMA SetTagLoss ==
  ASSUME HInv, RunInv, NoneLost, DoSetTag
  PROVE  NoneLost'
<1>1. /\ Proceed /\ todo # <<>> /\ doomed = {} /\ copying = {} /\ copying' = {}
      /\ Head(todo).do = "tag" /\ live' = live /\ doomed' = {} /\ member' = member
      /\ tag' = [tag EXCEPT ![to] = member[to].kind]
  BY DEF DoSetTag, Ready
<1>2. /\ Cells /\ to \in Addr /\ to \in Targets \ {Copied} /\ Targets \subseteq Addr
  BY <1>1, TargetFacts, HeadLoss
<1>3. \A x \in Addr : tag'[x] = IF x = to THEN member[to].kind ELSE tag[x]
  BY <1>1, <1>2 DEF Cells, Fits, Table
<1>4. \A x \in Addr : Elements(member'[x]) = Own(x)
  BY <1>1 DEF Own
<1>5. PICK B \in SUBSET live : Apart(B)
  BY DEF NoneLost
<1>6. Anchored'
  <2>1. live' \in SUBSET Heap /\ doomed \cap live' \subseteq doomed' /\ live' \ live = {}
    BY <1>1, <1>2 DEF Cells
  <2>2. QED BY <1>4, <2>1, AnchoredStays DEF NoneLost
<1>7. FreeOwnNothing'
  BY <1>1, <1>4, AddrFacts DEF NoneLost, FreeOwnNothing, Own
<1>8. Apart(B)'
  <2>1. \A x \in Addr : Own(x) \subseteq B => Elements(member'[x]) \subseteq B
    BY <1>4
  <2>2. todo' = Tail(todo)
    BY <1>1 DEF Proceed
  <2>3. QED BY <1>1, <1>5, <2>1, <2>2, ApartStep
<1>9. Lossless(call, tag, member, todo)'
  <2>1. ASSUME NEW x \in Targets, tag[x] # "Null" PROVE tag'[x] # "Null"
    <3>1. x \in Addr /\ member[x].kind = tag[x]
      BY <1>2, <2>1 DEF Cells, Fits, Truth
    <3>2. QED BY <1>3, <2>1, <3>1
  <2>2. \A x \in Targets :
          /\ Empties(Head(todo), x) => Elements(member'[x]) = {}
          /\ Own(x) = {} /\ to # x => Elements(member'[x]) = {}
          /\ tag[x] # "Null" /\ ~Alters(Head(todo), x) => tag'[x] # "Null"
    BY <1>1, <1>2, <1>4, <2>1 DEF Empties, Puts
  <2>3. tag'[to] = member[to].kind /\ \A x \in Addr : member'[x] = member[x]
    BY <1>1, <1>2, <1>3
  <2>4. QED BY <1>1, <2>2, <2>3, InstructedLossless
<1>10. Elements(member'[Copied]) = {}
  <2>1. Own(Copied) = {}
    BY <1>1 DEF NoneLost, CopyHeld, Puts
  <2>2. QED BY <1>4, <2>1, AddrFacts
<1>11. ASSUME NEW x \in Addr, Elements(member'[x]) # {}, tag'[x] = "Null"
       PROVE  Own(x) # {} /\ tag[x] = "Null" /\ ~Tags(Head(todo), x)
  <2>1. x # to
    <3>1. SUFFICES ASSUME x = to PROVE FALSE
      OBVIOUS
    <3>2. member[to].kind = "Null" /\ MemberOK(member[to])
      BY <1>2, <1>3, <1>11, <3>1 DEF Cells, Fits, Table
    <3>3. DOMAIN member[to].items = {}
      BY <3>2 DEF MemberOK
    <3>4. Own(to) = {}
      BY <3>3 DEF Own, Elements, Items
    <3>5. QED BY <1>4, <1>11, <3>1, <3>4
  <2>2. QED BY <1>3, <1>4, <1>11, <2>1 DEF Tags, to
<1>12. QED BY <1>1, <1>5, <1>6, <1>7, <1>8, <1>9, <1>10, <1>11, InstructedLoss

(* emplace_back: the new cell is owned, and what moves into it was apart.  *)
LEMMA EmplaceLoss ==
  ASSUME HInv, RunInv, NoneLost, DoEmplace
  PROVE  NoneLost'
<1>1. /\ Proceed /\ todo # <<>> /\ doomed = {} /\ copying = {} /\ copying' = {}
      /\ Head(todo).do = "emplace" /\ live' = live \cup {Fresh} /\ doomed' = {}
  BY DEF DoEmplace, Ready
<1>2. /\ Cells /\ to \in Targets \ {Copied} /\ Targets \subseteq Addr
      /\ Targets \cap (Heap \ live) = {}
  BY <1>1, TargetFacts, HeadLoss
<1>3. /\ \A x \in Addr : x # to => member'[x] = After(Fresh, from, x)
      /\ Elements(member'[to]) = Own(to) \cup {Fresh}
      /\ \A x \in Addr : tag'[x] =
           IF x = from THEN "Null" ELSE IF x = Fresh THEN tag[from] ELSE tag[x]
      /\ to \in Addr /\ from \in Addr /\ Fresh \in Heap \ live /\ Fresh \in Addr
      /\ to # Fresh /\ (from # to \/ tag[to] = "Null")
  BY EmplaceEffect, AddrFacts
<1>4. Own(Fresh) = {}
  BY <1>3 DEF NoneLost, FreeOwnNothing
<1>5. from # to /\ tag[from] = "Null" => Own(from) = {}
  BY <1>1, <1>3, TagFacts, HeadLoss
<1>6. \A x \in Addr : x # to =>
        Elements(member'[x]) =
          IF x = from THEN {} ELSE IF x = Fresh /\ from # to THEN Own(from) ELSE Own(x)
  <2>1. CASE tag[from] = "Null"
    <3>1. \A x \in Addr : x # to => member'[x] = member[x]
      BY <1>3, <2>1 DEF After
    <3>2. QED BY <1>3, <1>4, <1>5, <2>1, <3>1 DEF Own
  <2>2. CASE tag[from] # "Null"
    <3>1. \A x \in Addr : x # to => member'[x] =
            IF x = from THEN None ELSE IF x = Fresh THEN member[from] ELSE member[x]
      BY <1>3, <2>2 DEF After
    <3>2. from # to
      BY <1>3, <2>2
    <3>3. QED BY <3>1, <3>2, NoElements DEF Own
  <2>3. QED BY <2>1, <2>2
<1>7. PICK B \in SUBSET live : Apart(B)
  BY DEF NoneLost
<1>8. to \notin B /\ (from # to => Own(from) \subseteq B) /\ Fresh \notin B
  <2>1. 1 \in 1 .. Len(todo) /\ Head(todo) = todo[1]
    BY <1>1, TailFacts DEF HInv, HTypeOK
  <2>2. Puts(todo[1])
    BY <1>1, <2>1 DEF Puts
  <2>3. QED BY <1>3, <1>7, <2>1, <2>2 DEF Apart, Keeps, to, from
<1>9. Anchored'
  <2>1. \A x \in B : Own(x) \subseteq B
    BY <1>7 DEF Apart
  <2>2. ASSUME NEW y \in Addr \ B, NEW x \in Own(y) \ B
        PROVE  x \in Elements(member'[y]) \cup doomed'
    <3>1. CASE y = to
      BY <1>3, <2>2, <3>1
    <3>2. CASE y # to
      <4>1. y # from /\ y # Fresh
        BY <1>4, <1>8, <2>2, <3>2
      <4>2. QED BY <1>6, <2>2, <3>2, <4>1
    <3>3. QED BY <3>1, <3>2
  <2>3. ASSUME NEW y \in Addr, NEW x \in Own(y) \cap B
        PROVE  \E z \in (Addr \ B) \cup {y} : x \in Elements(member'[z]) \cup doomed'
    <3>1. CASE y = to
      <4>1. x \in Elements(member'[y])
        BY <1>3, <2>3, <3>1
      <4>2. QED BY <4>1
    <3>2. CASE y # to /\ y = from
      <4>1. Fresh \in Addr \ B /\ Fresh # from
        BY <1>3, <1>4, <1>8, <2>3, <3>2
      <4>2. x \in Elements(member'[Fresh])
        BY <1>3, <1>6, <2>3, <3>2, <4>1
      <4>3. QED BY <4>1, <4>2
    <3>3. CASE y # to /\ y # from
      <4>1. y # Fresh
        BY <1>4, <2>3
      <4>2. x \in Elements(member'[y])
        BY <1>6, <2>3, <3>3, <4>1
      <4>3. QED BY <4>2
    <3>4. QED BY <3>1, <3>2, <3>3
  <2>4. live' \in SUBSET Heap /\ doomed \cap live' \subseteq doomed' /\ live' \ live = {Fresh}
    BY <1>1, <1>2, <1>3 DEF Cells
  <2>5. \A n \in live' \ live :
          \E z \in Addr \ (B \cup (live' \ live)) : n \in Elements(member'[z])
    <3>1. to \in Addr \ (B \cup (live' \ live)) /\ Fresh \in Elements(member'[to])
      BY <1>3, <1>8, <2>4
    <3>2. QED BY <2>4, <3>1
  <2>6. QED BY <2>1, <2>2, <2>3, <2>4, <2>5, AnchoredStep DEF NoneLost
<1>10. FreeOwnNothing'
  <2>1. ASSUME NEW x \in Heap \ (live \cup {Fresh}) PROVE Elements(member'[x]) = {}
    <3>1. x \in Addr /\ x # to /\ Own(x) = {} /\ x # Fresh
      BY <1>2, <2>1, AddrFacts DEF NoneLost, FreeOwnNothing
    <3>2. QED BY <1>6, <3>1
  <2>2. QED BY <1>1, <2>1 DEF FreeOwnNothing, Own
<1>11. PICK C : C \in SUBSET live' /\ Apart(C)'
  <2>0. PICK C : C = B \cup {Fresh}
    OBVIOUS
  <2>1. C \in SUBSET live' /\ C \ B \subseteq Heap \ live
    BY <1>1, <1>3, <2>0
  <2>2. ASSUME NEW x \in Addr, Own(x) \subseteq B PROVE Elements(member'[x]) \subseteq C
    <3>1. CASE x = to
      BY <1>3, <2>0, <2>2, <3>1
    <3>2. CASE x # to
      BY <1>6, <1>8, <2>0, <2>2, <3>2
    <3>3. QED BY <3>1, <3>2
  <2>3. \A x \in C \ B : Elements(member'[x]) \subseteq C
    BY <1>3, <1>4, <2>0, <2>2
  <2>4. todo' = Tail(todo)
    BY <1>1 DEF Proceed
  <2>5. Apart(C)'
    BY <1>1, <1>7, <2>1, <2>2, <2>3, <2>4, ApartStep
  <2>6. QED BY <2>1, <2>5
<1>12. Lossless(call, tag, member, todo)'
  <2>1. ASSUME NEW x \in Targets
        PROVE  /\ Empties(Head(todo), x) => Elements(member'[x]) = {}
               /\ Own(x) = {} /\ to # x => Elements(member'[x]) = {}
               /\ tag[x] # "Null" /\ ~Alters(Head(todo), x) => tag'[x] # "Null"
    <3>1. x \in Addr /\ x # Fresh
      BY <1>2, <1>3
    <3>2. Empties(Head(todo), x) => x = from /\ x # to
      BY <1>1 DEF Empties, to, from
    <3>3. ~Alters(Head(todo), x) /\ x = from => x = to
      BY <1>1 DEF Alters, to, from
    <3>4. QED BY <1>3, <1>6, <3>1, <3>2, <3>3
  <2>2. QED BY <1>1, <2>1, InstructedLossless
<1>13. Elements(member'[Copied]) = {}
  <2>1. Own(Copied) # {} => from = Copied
    BY DEF NoneLost, CopyHeld
  <2>2. Copied # Fresh /\ Copied \in Addr /\ Copied # to
    BY <1>2, <1>3, AddrFacts
  <2>3. QED BY <1>6, <2>1, <2>2
<1>14. ASSUME NEW x \in Addr, Elements(member'[x]) # {}, tag'[x] = "Null"
       PROVE  \/ Own(x) # {} /\ tag[x] = "Null" /\ ~Tags(Head(todo), x)
              \/ call.op \in Pushing /\ x = call.to /\ TaggedLater(todo, 1, x)
  <2>1. CASE x = to
    <3>1. tag[to] = "Null"
      BY <1>3, <1>14, <2>1
    <3>2. QED BY <1>1, <2>1, <3>1, HeadLoss
  <2>2. CASE x # to
    <3>1. x # from
      BY <1>6, <1>14, <2>2
    <3>2. x # Fresh
      BY <1>3, <1>4, <1>5, <1>6, <1>14, <2>2, <3>1
    <3>3. QED BY <1>1, <1>3, <1>6, <1>14, <2>2, <3>1, <3>2 DEF Tags
  <2>3. QED BY <2>1, <2>2
<1>15. QED BY <1>1, <1>9, <1>10, <1>11, <1>12, <1>13, <1>14, InstructedLoss
(* map::operator[] adds one that was not there.                            *)
LEMMA KeyLoss ==
  ASSUME HInv, RunInv, NoneLost, DoEmplaceKey
  PROVE  NoneLost'
<1>1. /\ Proceed /\ todo # <<>> /\ doomed = {} /\ copying = {} /\ copying' = {}
      /\ Head(todo).do = "key" /\ live' = live \cup {Fresh} /\ doomed' = {}
  BY DEF DoEmplaceKey, Ready
<1>2. /\ Cells /\ to \in Targets \ {Copied} /\ Targets \subseteq Addr
      /\ Targets \cap (Heap \ live) = {} /\ from \notin DOMAIN member[to].items
  BY <1>1, TargetFacts, HeadLoss
<1>3. /\ \A x \in Addr : x # to => member'[x] = member[x]
      /\ Elements(member'[to]) = Own(to) \cup {Fresh} /\ tag' = tag
      /\ to \in Addr /\ Fresh \in Heap \ live /\ Fresh \in Addr /\ to # Fresh
  BY <1>2, KeyEffect, AddrFacts
<1>4. \A x \in Addr : x # to => Elements(member'[x]) = Own(x)
  BY <1>3 DEF Own
<1>5. PICK B \in SUBSET live : Apart(B)
  BY DEF NoneLost
<1>6. Anchored'
  <2>1. live' \in SUBSET Heap /\ doomed \cap live' \subseteq doomed' /\ live' \ live = {Fresh}
    BY <1>1, <1>2, <1>3 DEF Cells
  <2>2. \A y \in Addr : \A x \in Own(y) :
          x \in live' => x \in Elements(member'[y]) \cup doomed'
    BY <1>3, <1>4
  <2>3. to \in Addr \ (live' \ live) /\ Fresh \in Elements(member'[to])
    BY <1>3, <2>1
  <2>4. \A n \in live' \ live : \E z \in Addr \ (live' \ live) : n \in Elements(member'[z])
    BY <2>1, <2>3
  <2>5. QED BY <2>1, <2>2, <2>4, AnchoredStays DEF NoneLost
<1>7. FreeOwnNothing'
  <2>1. ASSUME NEW x \in Heap \ (live \cup {Fresh}) PROVE Elements(member'[x]) = {}
    <3>1. x \in Addr /\ x # to /\ Own(x) = {}
      BY <1>2, <2>1, AddrFacts DEF NoneLost, FreeOwnNothing
    <3>2. QED BY <1>4, <3>1
  <2>2. QED BY <1>1, <2>1 DEF FreeOwnNothing, Own
<1>8. PICK C : C \in SUBSET live' /\ Apart(C)'
  <2>0. PICK C : C = B \cup {Fresh}
    OBVIOUS
  <2>1. C \in SUBSET live' /\ C \ B \subseteq Heap \ live
    BY <1>1, <1>3, <2>0
  <2>2. ASSUME NEW x \in Addr, Own(x) \subseteq B PROVE Elements(member'[x]) \subseteq C
    BY <1>3, <1>4, <2>0, <2>2
  <2>3. \A x \in C \ B : Elements(member'[x]) \subseteq C
    <3>1. Own(Fresh) = {}
      BY <1>3 DEF NoneLost, FreeOwnNothing
    <3>2. QED BY <1>3, <2>0, <2>2, <3>1
  <2>4. todo' = Tail(todo)
    BY <1>1 DEF Proceed
  <2>5. Apart(C)'
    BY <1>1, <1>5, <2>1, <2>2, <2>3, <2>4, ApartStep
  <2>6. QED BY <2>1, <2>5
<1>9. Lossless(call, tag, member, todo)'
  <2>1. \A x \in Targets :
          /\ Empties(Head(todo), x) => Elements(member'[x]) = {}
          /\ Own(x) = {} /\ to # x => Elements(member'[x]) = {}
          /\ tag[x] # "Null" /\ ~Alters(Head(todo), x) => tag'[x] # "Null"
    BY <1>1, <1>2, <1>3, <1>4 DEF Empties, Puts
  <2>2. QED BY <1>1, <2>1, InstructedLossless
<1>10. Elements(member'[Copied]) = {}
  <2>1. Own(Copied) = {}
    BY <1>1 DEF NoneLost, CopyHeld, Puts
  <2>2. QED BY <1>2, <1>4, <2>1, AddrFacts
<1>11. ASSUME NEW x \in Addr, Elements(member'[x]) # {}, tag'[x] = "Null"
       PROVE  \/ Own(x) # {} /\ tag[x] = "Null" /\ ~Tags(Head(todo), x)
              \/ call.op \in Pushing /\ x = call.to /\ TaggedLater(todo, 1, x)
  <2>1. CASE x = to
    BY <1>1, <1>3, <1>11, <2>1, HeadLoss
  <2>2. CASE x # to
    BY <1>1, <1>3, <1>4, <1>11, <2>2 DEF Tags
  <2>3. QED BY <2>1, <2>2
<1>12. QED BY <1>1, <1>6, <1>7, <1>8, <1>9, <1>10, <1>11, InstructedLoss

(* A copy is begun when there is none.                                     *)
LEMMA CopyLoss ==
  ASSUME HInv, RunInv, NoneLost, DoCopy
  PROVE  NoneLost'
<1>1. /\ Proceed /\ todo # <<>> /\ doomed = {} /\ copying = {} /\ copying' = {<<Copied, from>>}
      /\ Head(todo).do = "copy" /\ live' = live /\ doomed' = {}
      /\ member' = member /\ tag' = tag
  BY DEF DoCopy, Ready
<1>2. Cells /\ to = Copied /\ Own(Copied) = {}
  BY <1>1, TargetFacts, HeadLoss
<1>3. \A x \in Addr : Elements(member'[x]) = Own(x)
  BY <1>1 DEF Own
<1>4. PICK B \in SUBSET live : Apart(B)
  BY DEF NoneLost
<1>5. Anchored' /\ FreeOwnNothing'
  BY <1>1 DEF NoneLost, Anchored, FreeOwnNothing, Own
<1>6. Apart(B)'
  <2>1. \A x \in Addr : Own(x) \subseteq B => Elements(member'[x]) \subseteq B
    BY <1>3
  <2>2. todo' = Tail(todo)
    BY <1>1 DEF Proceed
  <2>3. \A c \in copying' : c[1] \in B \cup {Copied}
    BY <1>1
  <2>4. QED BY <1>1, <1>4, <2>1, <2>2, <2>3, ApartStep
<1>7. Lossless(call, tag, member, todo)'
  <2>1. \A x \in Targets :
          /\ Empties(Head(todo), x) => Elements(member'[x]) = {}
          /\ Own(x) = {} /\ to # x => Elements(member'[x]) = {}
          /\ tag[x] # "Null" /\ ~Alters(Head(todo), x) => tag'[x] # "Null"
    BY <1>1 DEF Empties, Puts, Own
  <2>2. QED BY <1>1, <2>1, InstructedLossless
<1>8. Elements(member'[Copied]) = {}
  BY <1>1, <1>2 DEF Own
<1>9. \A x \in Addr : Elements(member'[x]) # {} /\ tag'[x] = "Null" =>
        Own(x) # {} /\ tag[x] = "Null" /\ ~Tags(Head(todo), x)
  BY <1>1 DEF Tags, Own
<1>10. QED BY <1>1, <1>4, <1>5, <1>6, <1>7, <1>8, <1>9, InstructedLoss
(* A program loses nothing while the Values that it changes stay.          *)
LEMMA LosslessStays ==
  ASSUME NEW c, NEW p, NEW t, NEW s, NEW u, NEW r, Lossless(c, t, s, p),
         \A n \in 1 .. Len(p) :
           IF p[n].do = "copy" THEN EmptiedAt(Elements(r[p[n].to]), p[n].to, p, n)
           ELSE r[p[n].to] = s[p[n].to] /\ u[p[n].to] = t[p[n].to]
  PROVE  Lossless(c, u, r, p)
<1>1. SUFFICES ASSUME NEW n \in 1 .. Len(p)
               PROVE  /\ TargetOK(c, p, n) /\ FillOK(r, p, n)
                      /\ TagOK(c, u, p, n) /\ OrderOK(c, r, p, n)
  BY DEF Lossless
<1>2. /\ TargetOK(c, p, n) /\ FillOK(s, p, n)
      /\ TagOK(c, t, p, n) /\ OrderOK(c, s, p, n)
  BY DEF Lossless
<1>3. CASE p[n].do = "copy"
  <2>1. FillOK(r, p, n)
    BY <1>3 DEF FillOK
  <2>2. TagOK(c, u, p, n)
    BY <1>3 DEF TagOK
  <2>3. OrderOK(c, r, p, n)
    BY <1>2, <1>3 DEF OrderOK
  <2>4. QED BY <1>2, <2>1, <2>2, <2>3
<1>4. CASE p[n].do # "copy"
  <2>1. r[p[n].to] = s[p[n].to] /\ u[p[n].to] = t[p[n].to]
    BY <1>4
  <2>2. FillOK(r, p, n)
    BY <1>2, <2>1 DEF FillOK
  <2>3. TagOK(c, u, p, n)
    BY <1>2, <2>1 DEF TagOK
  <2>4. OrderOK(c, r, p, n)
    BY <1>2, <2>1 DEF OrderOK
  <2>5. QED BY <1>2, <2>2, <2>3, <2>4
<1>5. QED BY <1>3, <1>4

(* A destructor reaches all elements: their container has its tag.         *)
LEMMA DestroyLoss ==
  ASSUME HInv, RunInv, NoneLost, ~Losing, DestroyElements
  PROVE  NoneLost'
<1>1. /\ live' = live \ doomed /\ doomed' = UNION {Holds(a) : a \in doomed}
      /\ UNCHANGED <<copying, todo, outcome, call>> /\ doomed # {}
  BY DEF DestroyElements
<1>2. /\ \A x \in Addr : member'[x] = IF x \in doomed THEN None ELSE member[x]
      /\ \A x \in Addr : tag'[x] = IF x \in doomed THEN "Null" ELSE tag[x]
  BY DestroyEffect
<1>3. Cells /\ doomed \subseteq live /\ live \subseteq Heap
  BY CallFacts DEF HInv, OwnedOnce, Cells
<1>4. call.op \in Freeing /\ LooseClosed /\ copying = {}
  <2>1. call.op \in Freeing
    BY <1>1 DEF RunInv, Losing
  <2>2. QED BY <1>1, <2>1 DEF RunInv, CopiesOK
<1>5. \A x \in Addr : Elements(member'[x]) = IF x \in doomed THEN {} ELSE Own(x)
  BY <1>2, NoElements DEF Own
<1>6. ASSUME NEW y \in doomed PROVE Own(y) \subseteq doomed'
  <2>1. y \in Addr /\ call.op \notin Pushing
    BY <1>3, <1>4, <1>6, AddrFacts DEF Freeing, Pushing
  <2>2. Own(y) = Holds(y)
    BY <2>1, HoldsOwn, TagFacts
  <2>3. QED BY <1>1, <1>6, <2>2
<1>7. \A x \in Addr : Own(x) \subseteq live \ doomed
  BY <1>3, OwnFacts
<1>8. Anchored'
  <2>1. live' \in SUBSET Heap /\ doomed \cap live' \subseteq doomed' /\ live' \ live = {}
    BY <1>1, <1>3
  <2>2. \A y \in Addr : \A x \in Own(y) :
          x \in live' => x \in Elements(member'[y]) \cup doomed'
    BY <1>5, <1>6
  <2>3. QED BY <2>1, <2>2, AnchoredStays DEF NoneLost
<1>9. FreeOwnNothing'
  <2>1. \A x \in Heap \ (live \ doomed) : Elements(member'[x]) = {}
    BY <1>5, AddrFacts DEF NoneLost, FreeOwnNothing
  <2>2. QED BY <1>1, <2>1 DEF FreeOwnNothing, Own
<1>10. Untagged'
  <2>1. \A x \in Addr : Elements(member'[x]) = {} \/ tag'[x] # "Null"
    BY <1>2, <1>4, <1>5, TagFacts DEF Freeing, Pushing
  <2>2. QED BY <2>1 DEF Untagged, Own
<1>11. PICK C : C \in SUBSET live' /\ Apart(C)'
  <2>1. PICK B \in SUBSET live : Apart(B)
    BY DEF NoneLost
  <2>2. PICK C : C = B \ doomed
    OBVIOUS
  <2>3. C \in SUBSET live' /\ C \ B \subseteq Heap \ live /\ C \ B = {}
    BY <1>1, <2>1, <2>2
  <2>4. \A x \in Addr : Own(x) \subseteq B => Elements(member'[x]) \subseteq C
    BY <1>5, <1>7, <2>2
  <2>5. \A c \in copying' : c[1] \in C \cup {Copied}
    BY <1>1, <1>4
  <2>6. Apart(C)'
    BY <1>1, <2>1, <2>3, <2>4, <2>5, ApartStep
  <2>7. QED BY <2>3, <2>6
<1>12. CopyHeld' /\ CopiedOnce'
  <2>1. Elements(member'[Copied]) = Own(Copied)
    BY <1>3, <1>5, AddrFacts
  <2>2. CopyHeld'
    BY <1>1, <2>1 DEF NoneLost, CopyHeld, Own, from
  <2>3. QED BY <1>1, <1>4, <2>2 DEF CopiedOnce
<1>13. Lossless(call, tag, member, todo)'
  <2>1. \A x \in Targets : member'[x] = member[x] /\ tag'[x] = tag[x]
    <3>1. \A x \in Targets : x \in Addr /\ x \notin doomed
      <4>1. doomed \cap call.kept = {} /\ call.kept \subseteq Addr
        BY <1>4, AddrFacts DEF LooseClosed, Loose, RunInv, CallOK
      <4>2. QED BY <1>3, <4>1, AddrFacts, HeapAssumption DEF Targets
    <3>2. QED BY <1>2, <3>1
  <2>2. ASSUME NEW n \in 1 .. Len(todo)
        PROVE  /\ member'[todo[n].to] = member[todo[n].to]
               /\ tag'[todo[n].to] = tag[todo[n].to]
               /\ todo[n].do = "copy" =>
                    EmptiedAt(Elements(member[todo[n].to]), todo[n].to, todo, n)
    <3>1. TargetOK(call, todo, n) /\ FillOK(member, todo, n)
      BY DEF NoneLost, Lossless
    <3>2. todo[n].to \in Targets
      BY <3>1 DEF TargetOK, Targets
    <3>3. QED BY <2>1, <3>1, <3>2 DEF FillOK
  <2>3. Lossless(call, tag', member', todo)
    BY <2>2, LosslessStays DEF NoneLost
  <2>4. QED BY <1>1, <2>3
<1>14. QED BY <1>8, <1>9, <1>10, <1>11, <1>12, <1>13 DEF NoneLost

(* A Value that is copied gets new cells, in one that owned nothing.       *)
LEMMA CopyValueLoss ==
  ASSUME HInv, RunInv, NoneLost, CopyValue
  PROVE  NoneLost'
<1>1. /\ copying # {} /\ UNCHANGED <<doomed, todo, outcome, call>>
      /\ todo # <<>> /\ Puts(Head(todo)) /\ from = Copied
  BY DEF CopyValue, NoneLost, CopyHeld
<1>2. PICK c, g : CopyStep(c, g)
  BY CopyEffect
<1> DEFINE d == c[1]
           f == IF tag[c[2]] = "Null" THEN <<>> ELSE member[c[2]].items
<1>3. PICK G : G = {g[i] : i \in DOMAIN f}
  OBVIOUS
<1>4. /\ d \in Addr /\ c \in copying /\ live' = live \cup G /\ G \subseteq Heap \ live
      /\ \A x \in Addr : x # d => member'[x] = member[x] /\ tag'[x] = tag[x]
      /\ tag'[d] = tag[c[2]]
      /\ IF tag[c[2]] = "Null" THEN member'[d] = member[d] ELSE Elements(member'[d]) = G
  BY <1>2, <1>3 DEF CopyStep
<1>5. /\ copying' = (copying \ {c}) \cup {<<g[i], f[i]>> : i \in DOMAIN f}
      /\ \A i \in DOMAIN f : g[i] \in G
      /\ \A i, j \in DOMAIN f : g[i] = g[j] => i = j
  BY <1>2, <1>3 DEF CopyStep
<1>6. tag[c[2]] = "Null" => G = {}
  BY <1>3
<1> HIDE DEF d, f
<1>7. Cells /\ d \in live \cup {Copied} /\ Own(d) = {}
  BY <1>1, <1>4, TargetFacts DEF NoneLost, CopiedOnce, d
<1>8. /\ \A x \in Addr : Elements(member'[x]) = IF x = d THEN G ELSE Own(x)
      /\ G # {} => tag'[d] # "Null"
  BY <1>4, <1>6, <1>7 DEF Own
<1>9. d \notin G /\ G \subseteq Addr /\ \A x \in G : Own(x) = {}
  BY <1>4, <1>7, AddrFacts DEF NoneLost, FreeOwnNothing
<1>10. Anchored'
  <2>1. live' \in SUBSET Heap /\ doomed \cap live' \subseteq doomed' /\ live' \ live = G
    BY <1>1, <1>4, <1>7 DEF Cells
  <2>2. \A y \in Addr : \A x \in Own(y) :
          x \in live' => x \in Elements(member'[y]) \cup doomed'
    BY <1>7, <1>8
  <2>3. \A n \in live' \ live : \E z \in Addr \ (live' \ live) : n \in Elements(member'[z])
    BY <1>4, <1>8, <1>9, <2>1
  <2>4. QED BY <2>1, <2>2, <2>3, AnchoredStays DEF NoneLost
<1>11. FreeOwnNothing'
  <2>1. \A x \in Heap \ (live \cup G) : Elements(member'[x]) = {}
    BY <1>7, <1>8, AddrFacts DEF NoneLost, FreeOwnNothing
  <2>2. QED BY <1>4, <2>1 DEF FreeOwnNothing, Own
<1>12. Untagged'
  <2>1. ASSUME NEW x \in Addr, Elements(member'[x]) # {}, tag'[x] = "Null"
        PROVE  Own(x) # {} /\ tag[x] = "Null"
    BY <1>4, <1>8, <2>1
  <2>2. QED BY <1>1, <2>1, TagFacts DEF Untagged, Own
<1>13. PICK B \in SUBSET live : Apart(B)
  BY DEF NoneLost
<1>14. PICK C : C \in SUBSET live' /\ Apart(C)'
  <2>1. PICK C : C = B \cup G
    OBVIOUS
  <2>2. C \in SUBSET live' /\ C \ B \subseteq Heap \ live
    BY <1>4, <2>1
  <2>3. \A x \in Addr : Own(x) \subseteq B => Elements(member'[x]) \subseteq C
    BY <1>8, <2>1
  <2>4. \A x \in C \ B : Elements(member'[x]) \subseteq C
    BY <1>9, <2>1, <2>3
  <2>5. \A e \in copying' : e[1] \in C \cup {Copied}
    BY <1>5, <1>13, <2>1 DEF Apart
  <2>6. Apart(C)'
    BY <1>1, <1>13, <2>2, <2>3, <2>4, <2>5, ApartStep
  <2>7. QED BY <2>2, <2>6
<1>15. CopyHeld'
  BY <1>1 DEF CopyHeld, from
<1>16. CopiedOnce'
  <2>1. \A e \in copying : e[1] \in (live \cup {Copied}) /\ e[1] \in Addr
    BY AddrFacts, <1>7 DEF NoneLost, CopiedOnce, Cells
  <2>2. ASSUME NEW e \in copying, e # c
        PROVE  /\ Elements(member'[e[1]]) = {} /\ e[1] \notin G
               /\ \A b \in copying : b[1] = e[1] => b = e
    <3>1. /\ Own(e[1]) = {} /\ \A b \in copying : b[1] = e[1] => b = e
      BY DEF NoneLost, CopiedOnce
    <3>2. e[1] # d
      BY <1>4, <2>2, <3>1 DEF d
    <3>3. e[1] \notin G
      BY <1>4, <2>1, AddrFacts
    <3>4. QED BY <1>8, <2>1, <3>1, <3>2, <3>3
  <2>3. ASSUME NEW i \in DOMAIN f
        PROVE  g[i] \in G /\ Elements(member'[g[i]]) = {}
    BY <1>5, <1>8, <1>9
  <2>4. ASSUME NEW e \in copying'
        PROVE  /\ e[1] \in live' \cup {Copied} /\ Elements(member'[e[1]]) = {}
               /\ \A b \in copying' : b[1] = e[1] => b = e
    <3>1. CASE e \in copying \ {c}
      <4>1. \A b \in copying' : b \in copying \/ b[1] \in G
        BY <1>5
      <4>2. QED BY <1>4, <2>1, <2>2, <3>1, <4>1
    <3>2. ASSUME NEW i \in DOMAIN f, e = <<g[i], f[i]>>
          PROVE  /\ e[1] \in live' \cup {Copied} /\ Elements(member'[e[1]]) = {}
                 /\ \A b \in copying' : b[1] = e[1] => b = e
      <4>1. e[1] = g[i]
        BY <3>2
      <4>2. ASSUME NEW b \in copying', b[1] = e[1] PROVE b = e
        <5>1. ~(b \in copying \ {c})
          BY <2>2, <2>3, <4>1, <4>2
        <5>2. PICK j \in DOMAIN f : b = <<g[j], f[j]>>
          BY <1>5, <5>1
        <5>3. g[j] = g[i]
          BY <4>1, <4>2, <5>2
        <5>4. QED BY <1>5, <3>2, <5>2, <5>3
      <4>3. QED BY <1>4, <2>3, <4>1, <4>2
    <3>3. QED BY <1>5, <3>1, <3>2
  <2>5. QED BY <2>4 DEF CopiedOnce, Own
<1>17. Lossless(call, tag, member, todo)'
  <2>1. todo \in Seq(Instructions) /\ Head(todo) = todo[1] /\ 1 \in 1 .. Len(todo)
    BY <1>1, TailFacts DEF HInv, HTypeOK
  <2>2. ASSUME NEW n \in 1 .. Len(todo), todo[n].do # "copy"
        PROVE  /\ member'[todo[n].to] = member[todo[n].to]
               /\ tag'[todo[n].to] = tag[todo[n].to]
    <3>1. TargetOK(call, todo, n)
      BY DEF NoneLost, Lossless
    <3>2. todo[n].to \in Addr /\ todo[n].to \notin B
      <4>1. todo[n] \in Instructions
        BY <2>1
      <4>2. QED BY <1>13, <4>1 DEF Apart, Keeps, Instructions
    <3>3. todo[n].to # Copied
      <4>1. call.kept \subseteq Heap
        BY DEF RunInv, CallOK
      <4>2. QED BY <2>2, <3>1, <4>1, AddrFacts, HeapAssumption DEF TargetOK
    <3>4. d \in B \cup {Copied}
      BY <1>4, <1>13 DEF Apart, d
    <3>5. QED BY <1>4, <3>2, <3>3, <3>4
  <2>3. ASSUME NEW n \in 1 .. Len(todo), todo[n].do = "copy"
        PROVE  EmptiedAt(Elements(member'[Copied]), Copied, todo, n) /\ todo[n].to = Copied
    <3>1. TargetOK(call, todo, n) /\ FillOK(member, todo, n)
      BY DEF NoneLost, Lossless
    <3>2. todo[n].to = Copied /\ EmptiedAt(Own(Copied), Copied, todo, n)
      BY <2>3, <3>1 DEF TargetOK, FillOK, Own
    <3>3. PICK m \in 0 .. n - 1 :
            /\ IF m = 0 THEN Own(Copied) = {} ELSE Empties(todo[m], Copied)
            /\ \A j \in m + 1 .. n - 1 : todo[j].to # Copied
      BY <3>2 DEF EmptiedAt
    <3>4. CASE m # 0
      BY <3>2, <3>3, <3>4 DEF EmptiedAt
    <3>5. CASE m = 0
      <4>1. n # 1
        BY <1>1, <2>1, <2>3 DEF Puts
      <4>2. n - 1 \in Nat /\ 1 \in 0 .. n - 1 /\ 1 \in 0 + 1 .. n - 1
              /\ \A j \in 1 + 1 .. n - 1 : j \in 0 + 1 .. n - 1
        BY <4>1
      <4>3. Empties(todo[1], Copied)
        BY <1>1, <2>1, <3>3, <3>5, <4>2 DEF Empties, from
      <4>4. \A j \in 1 + 1 .. n - 1 : todo[j].to # Copied
        BY <3>3, <3>5, <4>2
      <4>5. QED BY <3>2, <4>2, <4>3, <4>4 DEF EmptiedAt
    <3>6. QED BY <3>4, <3>5
  <2>4. Lossless(call, tag', member', todo)
    BY <2>2, <2>3, LosslessStays DEF NoneLost
  <2>5. QED BY <1>1, <2>4
<1>18. QED BY <1>10, <1>11, <1>12, <1>14, <1>15, <1>16, <1>17 DEF NoneLost

(* What operator new leaves behind when it fails is destroyed.             *)
LEMMA BadAllocLoss ==
  ASSUME HInv, RunInv, NoneLost, BadAlloc, call.op \notin Pushing
  PROVE  NoneLost'
<1>1. /\ copying' = {} /\ todo' = <<>> /\ live' = live /\ call' = call /\ doomed = {}
  BY DEF BadAlloc
<1>2. PICK gone : gone \in SUBSET Addr /\ Copied \in gone /\ Unwind(gone)
  <2>1. Ready("emplace") => from \in Addr
    BY HeadFacts DEF HInv, Ready
  <2>2. {Tmp, Copied} \in SUBSET Addr /\ (Ready("emplace") => {Tmp, Copied, from} \in SUBSET Addr)
    BY <2>1, AddrFacts
  <2>3. Copied \in {Tmp, Copied} /\ Copied \in {Tmp, Copied, from}
    OBVIOUS
  <2>4. \/ Unwind({Tmp, Copied})
        \/ Ready("emplace") /\ Unwind({Tmp, Copied, from})
    BY DEF BadAlloc
  <2>5. CASE Unwind({Tmp, Copied})
    BY <2>2, <2>3, <2>5
  <2>6. CASE Ready("emplace") /\ Unwind({Tmp, Copied, from})
    BY <2>2, <2>3, <2>6
  <2>7. QED BY <2>4, <2>5, <2>6
<1>3. Cells /\ \A x \in Addr : tag[x] = "Null" => Own(x) = {}
  BY CallFacts, TagFacts
<1>4. /\ \A x \in Addr : member'[x] = IF x \in gone /\ tag[x] # "Null" THEN None ELSE member[x]
      /\ \A x \in Addr : tag'[x] = IF x \in gone THEN "Null" ELSE tag[x]
      /\ doomed' = UNION {Holds(x) : x \in gone}
  BY <1>2, UnwindEffect
<1>5. \A x \in Addr : Elements(member'[x]) = IF x \in gone THEN {} ELSE Own(x)
  <2>1. ASSUME NEW x \in Addr
        PROVE  Elements(member'[x]) = IF x \in gone THEN {} ELSE Own(x)
    <3>1. CASE x \in gone /\ tag[x] # "Null"
      <4>1. member'[x] = None
        BY <1>4, <3>1
      <4>2. QED BY <3>1, <4>1, NoElements
    <3>2. CASE ~(x \in gone /\ tag[x] # "Null")
      <4>1. member'[x] = member[x] /\ (x \in gone => Own(x) = {})
        BY <1>3, <1>4, <3>2
      <4>2. QED BY <4>1 DEF Own
    <3>3. QED BY <3>1, <3>2
  <2>2. QED BY <2>1
<1>6. \A x \in gone : Own(x) \subseteq doomed'
  <2>1. ASSUME NEW x \in gone PROVE Own(x) \subseteq doomed'
    <3>1. Own(x) = Holds(x)
      BY <1>2, <1>3, HoldsOwn
    <3>2. QED BY <1>4, <3>1
  <2>2. QED BY <2>1
<1>7. Anchored'
  <2>1. live' \in SUBSET Heap /\ doomed \cap live' \subseteq doomed' /\ live' \ live = {}
    BY <1>1, <1>3 DEF Cells
  <2>2. \A y \in Addr : \A x \in Own(y) :
          x \in live' => x \in Elements(member'[y]) \cup doomed'
    BY <1>5, <1>6
  <2>3. QED BY <2>1, <2>2, AnchoredStays DEF NoneLost
<1>8. FreeOwnNothing'
  <2>1. \A x \in Heap \ live : Elements(member'[x]) = {}
    BY <1>5, AddrFacts DEF NoneLost, FreeOwnNothing
  <2>2. QED BY <1>1, <2>1 DEF FreeOwnNothing, Own
<1>9. Untagged'
  <2>1. \A x \in Addr : Elements(member'[x]) = {} \/ tag'[x] # "Null"
    BY <1>3, <1>4, <1>5
  <2>2. QED BY <2>1 DEF Untagged, Own
<1>10. Len(<<>>) = 0 /\ \A n \in 1 .. 0 : FALSE
  OBVIOUS
<1>11. PICK B \in SUBSET live : Apart(B)
  BY DEF NoneLost
<1>12. Apart(B)'
  <2>1. \A x \in B \cup {Tmp, Copied} : x \in Addr
    BY <1>3, AddrFacts DEF Cells
  <2>2. \A x \in B \cup {Tmp, Copied} : Elements(member'[x]) \subseteq B
    BY <1>5, <1>11, <2>1 DEF Apart
  <2>3. Keeps(B, todo)'
    BY <1>1, <1>10 DEF Keeps
  <2>4. QED BY <1>1, <2>2, <2>3 DEF Apart, Own
<1>13. CopyHeld' /\ CopiedOnce'
  <2>1. Elements(member'[Copied]) = {}
    BY <1>2, <1>5
  <2>2. QED BY <1>1, <2>1 DEF CopyHeld, CopiedOnce, Own
<1>14. Lossless(call, tag, member, todo)'
  BY <1>1, <1>10 DEF Lossless
<1>15. B \in SUBSET live'
  BY <1>1, <1>11
<1>16. QED BY <1>7, <1>8, <1>9, <1>12, <1>13, <1>14, <1>15 DEF NoneLost

(* A call that reads what is gone changes nothing that is modelled.        *)
LEMMA UndefinedLoss ==
  ASSUME NoneLost, Undefined
  PROVE  NoneLost'
<1>1. UNCHANGED <<tag, member, live, doomed, copying, todo, call>>
  BY DEF Undefined
<1>2. Anchored' /\ FreeOwnNothing'
  BY <1>1 DEF NoneLost, Anchored, FreeOwnNothing, Own
<1>3. Untagged' /\ CopyHeld' /\ CopiedOnce'
  BY <1>1 DEF NoneLost, Untagged, CopyHeld, CopiedOnce, Own, from
<1>4. Lossless(call, tag, member, todo)'
  BY <1>1 DEF NoneLost
<1>5. PICK B \in SUBSET live : Apart(B)
  BY DEF NoneLost
<1>6. B \in SUBSET live' /\ Apart(B)'
  BY <1>1, <1>5 DEF Apart, Keeps, Own
<1>7. QED BY <1>2, <1>3, <1>4, <1>6 DEF NoneLost

-----------------------------------------------------------------------------
(* The programs.                                                           *)

(* What owns nothing still does in step n.                                 *)
LEMMA EmptiedNow ==
  ASSUME NEW x, NEW p, NEW n \in Nat \ {0}, \A j \in 1 .. n - 1 : p[j].to # x
  PROVE  EmptiedAt({}, x, p, n)
<1>1. 0 \in 0 .. n - 1 /\ \A j \in 0 + 1 .. n - 1 : j \in 1 .. n - 1
  OBVIOUS
<1>2. QED BY <1>1 DEF EmptiedAt

(* The step before n empties x.                                            *)
LEMMA EmptiedLast ==
  ASSUME NEW e, NEW x, NEW p, NEW n \in Nat, n > 1, Empties(p[n - 1], x)
  PROVE  EmptiedAt(e, x, p, n)
<1>1. n - 1 \in 0 .. n - 1 /\ n - 1 # 0 /\ \A j \in (n - 1) + 1 .. n - 1 : FALSE
  OBVIOUS
<1>2. QED BY <1>1 DEF EmptiedAt

(* A caller's Values lie in each other in one way only.                    *)
LEMMA KinFacts ==
  ASSUME HInv, RInv, idle, NEW a \in Operands, NEW s \in Operands
  PROVE  /\ Kin(a, s) # "above" => a \notin Below(s)
         /\ Kin(a, s) \notin {"above", "below"} => s \notin Below(a)
<1>1. Cells /\ a \in Addr /\ s \in Addr /\ a \notin Below(a) /\ s \notin Below(s)
  BY StartFacts
<1>2. s \in Below(a) => a \notin Below(s)
  <2>1. Encloses(Below(a), a) /\ Below(a) \in SUBSET Heap
    BY <1>1, BelowFacts
  <2>2. s \in Below(a) => Below(s) \subseteq Below(a)
    BY <2>1 DEF Encloses, Below
  <2>3. QED BY <1>1, <2>2
<1>3. a \in Below(s) => Kin(a, s) = "above"
  BY <1>1, <1>2 DEF Kin
<1>4. s \in Below(a) => Kin(a, s) = "below"
  BY <1>1, <1>2 DEF Kin
<1>5. QED BY <1>3, <1>4

(* operator = (Value&&).                                                   *)
LEMMA MoveLossless ==
  ASSUME NEW c, NEW t, NEW m, NEW a, NEW s, c.op \notin Pushing, a \in Roots \cup c.kept
  PROVE  Lossless(c, t, m, MoveAssign(a, s))
<1> DEFINE p == MoveAssign(a, s)
<1>1. Len(p) = 2 /\ p[1] = Destruct(a) /\ p[2] = Take(a, s)
  BY DEF MoveAssign, move_from
<1> HIDE DEF p
<1>2. \A n \in 1 .. 2 : n = 1 \/ n = 2
  OBVIOUS
<1>3. \A n \in 1 .. 2 : TargetOK(c, p, n)
  BY <1>1, <1>2 DEF TargetOK, Destruct, Take
<1>4. EmptiedAt(Elements(m[a]), a, p, 2)
  <2>1. 2 \in Nat /\ 2 > 1 /\ 2 - 1 = 1 /\ Empties(p[1], a)
    BY <1>1 DEF Empties, Destruct
  <2>2. QED BY <2>1, EmptiedLast
<1>5. \A n \in 1 .. 2 : FillOK(m, p, n)
  BY <1>1, <1>2, <1>4 DEF FillOK, Destruct, Take
<1>6. \A n \in 1 .. 2 : TagOK(c, t, p, n)
  BY <1>1, <1>2 DEF TagOK, Destruct, Take
<1>7. \A n \in 1 .. 2 : OrderOK(c, m, p, n)
  BY <1>1, <1>2 DEF OrderOK, Destruct, Take
<1>8. QED BY <1>1, <1>3, <1>5, <1>6, <1>7 DEF Lossless, p

(* What is moved is outside of what it is moved from.                      *)
LEMMA MoveKeeps ==
  ASSUME NEW a, NEW s, NEW B, a \notin B, a # s => Own(s) \subseteq B
  PROVE  Keeps(B, MoveAssign(a, s))
<1> DEFINE p == MoveAssign(a, s)
<1>1. Len(p) = 2 /\ p[1] = Destruct(a) /\ p[2] = Take(a, s)
  BY DEF MoveAssign, move_from
<1> HIDE DEF p
<1>2. \A n \in 1 .. 2 : n = 1 \/ n = 2
  OBVIOUS
<1>3. QED BY <1>1, <1>2 DEF Keeps, Puts, Destruct, Take, p

(* operator = (const Value&).                                              *)
LEMMA CopyLossless ==
  ASSUME HInv, RInv, idle, NEW a \in Operands, NEW s, NEW c,
         c.op \notin Pushing, a \in Roots \cup c.kept
  PROVE  Lossless(c, tag, member, CopyAssign(a, s)) /\ Keeps({}, CopyAssign(a, s))
<1> DEFINE p == <<Destruct(a), Copy(s), Take(a, Copied)>>
<1>1. Len(p) = 3 /\ p[1] = Destruct(a) /\ p[2] = Copy(s) /\ p[3] = Take(a, Copied)
  OBVIOUS
<1>2. CopyAssign(a, s) \in {<<>>, p}
  BY DEF CopyAssign, copy_from
<1>3. Lossless(c, tag, member, <<>>) /\ Keeps({}, <<>>)
  BY DEF Lossless, Keeps
<1> HIDE DEF p
<1>4. \A n \in 1 .. 3 : n = 1 \/ n = 2 \/ n = 3
  OBVIOUS
<1>5. a # Copied /\ Own(Copied) = {}
  BY StartFacts
<1>6. \A n \in 1 .. 3 : TargetOK(c, p, n)
  BY <1>1, <1>4 DEF TargetOK, Destruct, Copy, Take
<1>7. EmptiedAt(Own(Copied), Copied, p, 2) /\ EmptiedAt(Own(a), a, p, 3)
  <2>1. \A j \in 1 .. 2 - 1 : p[j].to # Copied
    BY <1>1, <1>5 DEF Destruct
  <2>2. EmptiedAt(Own(Copied), Copied, p, 2)
    BY <1>5, <2>1, EmptiedNow
  <2>3. Empties(p[1], a) /\ p[2].to # a
    BY <1>1, <1>5 DEF Empties, Destruct, Copy
  <2>4. 1 \in 0 .. 3 - 1 /\ \A j \in 1 + 1 .. 3 - 1 : j = 2
    OBVIOUS
  <2>5. QED BY <2>2, <2>3, <2>4 DEF EmptiedAt
<1>8. \A n \in 1 .. 3 : FillOK(member, p, n)
  BY <1>1, <1>4, <1>7 DEF FillOK, Own, Destruct, Copy, Take
<1>9. \A n \in 1 .. 3 : TagOK(c, tag, p, n)
  BY <1>1, <1>4 DEF TagOK, Destruct, Copy, Take
<1>10. \A n \in 1 .. 3 : OrderOK(c, member, p, n)
  BY <1>1, <1>4 DEF OrderOK, Puts, Destruct, Copy, Take
<1>11. Lossless(c, tag, member, p)
  BY <1>1, <1>6, <1>8, <1>9, <1>10 DEF Lossless
<1>12. Keeps({}, p)
  BY <1>1, <1>4, <1>5 DEF Keeps, Puts, Destruct, Copy, Take
<1>13. QED BY <1>2, <1>3, <1>11, <1>12

(* swap empties each Value before it puts the other there.                 *)
LEMMA SwapLossless ==
  ASSUME HInv, RInv, idle, NEW a \in Operands, NEW s \in Operands, NEW c, NEW B,
         c.op \notin Pushing, a \in Roots \cup c.kept, s \in Roots \cup c.kept,
         {Tmp, a, s} \cap B = {}, Own(a) \cup Own(s) \subseteq B
  PROVE  Lossless(c, tag, member, swap(a, s)) /\ Keeps(B, swap(a, s))
<1> DEFINE p == <<Take(Tmp, s), Destruct(s), Take(s, a), Destruct(a), Take(a, Tmp)>>
<1>1. /\ Len(p) = 5 /\ p[1] = Take(Tmp, s) /\ p[2] = Destruct(s) /\ p[3] = Take(s, a)
      /\ p[4] = Destruct(a) /\ p[5] = Take(a, Tmp)
  OBVIOUS
<1> HIDE DEF p
<1>2. \A n \in 1 .. 5 : n = 1 \/ n = 2 \/ n = 3 \/ n = 4 \/ n = 5
  OBVIOUS
<1>3. Own(Tmp) = {}
  BY StartFacts
<1>4. \A n \in 1 .. 5 : TargetOK(c, p, n)
  BY <1>1, <1>2 DEF TargetOK, Take, Destruct
<1>5. EmptiedAt(Own(Tmp), Tmp, p, 1) /\ EmptiedAt(Own(s), s, p, 3) /\ EmptiedAt(Own(a), a, p, 5)
  <2>1. Empties(p[2], s) /\ Empties(p[4], a)
    BY <1>1 DEF Empties, Destruct
  <2>2. 3 \in Nat /\ 3 > 1 /\ 3 - 1 = 2 /\ 5 \in Nat /\ 5 > 1 /\ 5 - 1 = 4
    OBVIOUS
  <2>3. \A j \in 1 .. 1 - 1 : p[j].to # Tmp
    OBVIOUS
  <2>4. QED BY <1>3, <2>1, <2>2, <2>3, EmptiedLast, EmptiedNow
<1>6. \A n \in 1 .. 5 : FillOK(member, p, n)
  BY <1>1, <1>2, <1>5 DEF FillOK, Own, Take, Destruct
<1>7. \A n \in 1 .. 5 : TagOK(c, tag, p, n)
  BY <1>1, <1>2 DEF TagOK, Take, Destruct
<1>8. \A n \in 1 .. 5 : OrderOK(c, member, p, n)
  BY <1>1, <1>2 DEF OrderOK, Take, Destruct
<1>9. \A n \in 1 .. 5 : p[n].to \notin B
  BY <1>1, <1>2 DEF Take, Destruct
<1>10. \A n \in 1 .. 5 : Own(p[n].from) \subseteq B
  BY <1>1, <1>2, <1>3 DEF Take, Destruct
<1>11. QED
  BY <1>1, <1>4, <1>6, <1>7, <1>8, <1>9, <1>10 DEF Lossless, Keeps, swap, p

(* An array that is put together gets its tag in the end, or has it.       *)
LEMMA PushCopyLossless ==
  ASSUME HInv, RInv, idle, NEW a \in Operands, NEW s, NEW c, NEW B,
         c.op = "push_copy", c.to = a, a \in Roots \cup c.kept,
         {Tmp, Copied, a} \cap B = {}, Own(a) \subseteq B
  PROVE  /\ Lossless(c, tag, member, push_back_copy(a, s))
         /\ Keeps(B, push_back_copy(a, s))
<1>1. /\ a # Copied /\ a # Tmp /\ Own(Copied) = {} /\ Own(Tmp) = {}
      /\ (tag[a] = "Null" => Own(a) = {}) /\ Tmp # Copied
  BY StartFacts, HoldsOwn, AddrFacts
<1>2. CASE tag[a] = "Null"
  <2> DEFINE p == <<Build(a), SetTag(a), Copy(s), Emplace(a, Copied)>>
  <2>1. /\ Len(p) = 4 /\ p[1] = Build(a) /\ p[2] = SetTag(a) /\ p[3] = Copy(s)
        /\ p[4] = Emplace(a, Copied)
    OBVIOUS
  <2> HIDE DEF p
  <2>2. \A n \in 1 .. 4 : n = 1 \/ n = 2 \/ n = 3 \/ n = 4
    OBVIOUS
  <2>3. \A n \in 1 .. 4 : TargetOK(c, p, n)
    BY <2>1, <2>2 DEF TargetOK, Build, SetTag, Copy, Emplace
  <2>4. EmptiedAt(Own(a), a, p, 1) /\ EmptiedAt(Own(Copied), Copied, p, 3)
    <3>1. \A j \in 1 .. 1 - 1 : p[j].to # a
      OBVIOUS
    <3>2. \A j \in 1 .. 3 - 1 : p[j].to # Copied
      <4>1. \A j \in 1 .. 3 - 1 : j = 1 \/ j = 2
        OBVIOUS
      <4>2. QED BY <1>1, <2>1, <4>1 DEF Build, SetTag
    <3>3. QED BY <1>1, <1>2, <3>1, <3>2, EmptiedNow
  <2>5. \A n \in 1 .. 4 : FillOK(member, p, n)
    BY <2>1, <2>2, <2>4 DEF FillOK, Own, Build, SetTag, Copy, Emplace
  <2>6. TaggedAt(tag[a], a, p, 4)
    <3>1. Tags(p[2], a) /\ ~Alters(p[3], a)
      BY <1>1, <2>1 DEF Tags, Alters, SetTag, Copy
    <3>2. 2 \in 0 .. 4 - 1 /\ \A j \in 2 + 1 .. 4 - 1 : j = 3
      OBVIOUS
    <3>3. QED BY <3>1, <3>2 DEF TaggedAt
  <2>7. \A n \in 1 .. 4 : TagOK(c, tag, p, n)
    BY <2>1, <2>2, <2>6 DEF TagOK, Build, SetTag, Copy, Emplace
  <2>8. \A n \in 1 .. 4 : OrderOK(c, member, p, n)
    BY <2>1, <2>2 DEF OrderOK, Puts, Build, SetTag, Copy, Emplace
  <2>9. Keeps(B, p)
    BY <1>1, <2>1, <2>2 DEF Keeps, Puts, Build, SetTag, Copy, Emplace
  <2>10. Lossless(c, tag, member, p)
    BY <2>1, <2>3, <2>5, <2>7, <2>8 DEF Lossless
  <2>11. push_back_copy(a, s) = p
    BY <1>2 DEF push_back_copy, p
  <2>12. QED BY <2>9, <2>10, <2>11
<1>3. CASE tag[a] = "Array"
  <2> DEFINE p == <<Copy(s), Emplace(a, Copied)>>
  <2>1. Len(p) = 2 /\ p[1] = Copy(s) /\ p[2] = Emplace(a, Copied)
    OBVIOUS
  <2> HIDE DEF p
  <2>2. \A n \in 1 .. 2 : n = 1 \/ n = 2
    OBVIOUS
  <2>3. \A n \in 1 .. 2 : TargetOK(c, p, n)
    BY <2>1, <2>2 DEF TargetOK, Copy, Emplace
  <2>4. EmptiedAt(Own(Copied), Copied, p, 1)
    <3>1. \A j \in 1 .. 1 - 1 : p[j].to # Copied
      OBVIOUS
    <3>2. QED BY <1>1, <3>1, EmptiedNow
  <2>5. \A n \in 1 .. 2 : FillOK(member, p, n)
    BY <2>1, <2>2, <2>4 DEF FillOK, Own, Copy, Emplace
  <2>6. TaggedAt(tag[a], a, p, 2)
    <3>1. tag[a] # "Null" /\ ~Alters(p[1], a)
      BY <1>1, <1>3, <2>1 DEF Alters, Copy
    <3>2. 0 \in 0 .. 2 - 1 /\ \A j \in 0 + 1 .. 2 - 1 : j = 1
      OBVIOUS
    <3>3. QED BY <3>1, <3>2 DEF TaggedAt
  <2>7. \A n \in 1 .. 2 : TagOK(c, tag, p, n)
    BY <2>1, <2>2, <2>6 DEF TagOK, Copy, Emplace
  <2>8. \A n \in 1 .. 2 : OrderOK(c, member, p, n)
    BY <2>1, <2>2 DEF OrderOK, Puts, Copy, Emplace
  <2>9. Keeps(B, p)
    BY <1>1, <2>1, <2>2 DEF Keeps, Puts, Copy, Emplace
  <2>10. Lossless(c, tag, member, p)
    BY <2>1, <2>3, <2>5, <2>7, <2>8 DEF Lossless
  <2>11. push_back_copy(a, s) = p
    BY <1>3 DEF push_back_copy, p
  <2>12. QED BY <2>9, <2>10, <2>11
<1>4. CASE tag[a] \notin {"Null", "Array"}
  <2> DEFINE p == <<Take(Tmp, a), Build(a), Emplace(a, Tmp), Copy(s),
                    Emplace(a, Copied), SetTag(a)>>
  <2>1. /\ Len(p) = 6 /\ p[1] = Take(Tmp, a) /\ p[2] = Build(a) /\ p[3] = Emplace(a, Tmp)
        /\ p[4] = Copy(s) /\ p[5] = Emplace(a, Copied) /\ p[6] = SetTag(a)
    OBVIOUS
  <2> HIDE DEF p
  <2>2. \A n \in 1 .. 6 : n = 1 \/ n = 2 \/ n = 3 \/ n = 4 \/ n = 5 \/ n = 6
    OBVIOUS
  <2>3. \A n \in 1 .. 6 : TargetOK(c, p, n)
    BY <2>1, <2>2 DEF TargetOK, Take, Build, SetTag, Copy, Emplace
  <2>4. /\ EmptiedAt(Own(Tmp), Tmp, p, 1) /\ EmptiedAt(Own(a), a, p, 2)
        /\ EmptiedAt(Own(Copied), Copied, p, 4)
    <3>1. \A j \in 1 .. 1 - 1 : p[j].to # Tmp
      OBVIOUS
    <3>2. 2 \in Nat /\ 2 > 1 /\ 2 - 1 = 1 /\ Empties(p[1], a)
      BY <1>1, <2>1 DEF Empties, Puts, Take
    <3>3. \A j \in 1 .. 4 - 1 : p[j].to # Copied
      <4>1. \A j \in 1 .. 4 - 1 : j = 1 \/ j = 2 \/ j = 3
        OBVIOUS
      <4>2. QED BY <1>1, <2>1, <4>1 DEF Take, Build, Emplace
    <3>4. QED BY <1>1, <3>1, <3>2, <3>3, EmptiedNow, EmptiedLast
  <2>5. \A n \in 1 .. 6 : FillOK(member, p, n)
    BY <2>1, <2>2, <2>4 DEF FillOK, Own, Take, Build, SetTag, Copy, Emplace
  <2>6. \A n \in {3, 5} : TaggedLater(p, n, a)
    <3>1. Tags(p[6], a) /\ \A n \in {3, 5} : 6 \in n + 1 .. Len(p)
      BY <2>1 DEF Tags, SetTag
    <3>2. QED BY <3>1 DEF TaggedLater
  <2>7. \A n \in 1 .. 6 : TagOK(c, tag, p, n)
    BY <2>1, <2>2, <2>6 DEF TagOK, Pushing, Take, Build, SetTag, Copy, Emplace
  <2>8. \A n \in 1 .. 6 : OrderOK(c, member, p, n)
    BY <2>1, <2>2 DEF OrderOK, Puts, Take, Build, SetTag, Copy, Emplace
  <2>9. Keeps(B, p)
    <3>1. \A n \in 1 .. 6 : p[n].to \notin B
      BY <2>1, <2>2 DEF Take, Build, SetTag, Copy, Emplace
    <3>2. \A n \in 1 .. 6 : Puts(p[n]) => Own(p[n].from) \subseteq B
      BY <1>1, <2>1, <2>2 DEF Puts, Take, Build, SetTag, Copy, Emplace
    <3>3. QED BY <2>1, <3>1, <3>2 DEF Keeps
  <2>10. Lossless(c, tag, member, p)
    BY <2>1, <2>3, <2>5, <2>7, <2>8 DEF Lossless
  <2>11. push_back_copy(a, s) = p
    BY <1>4 DEF push_back_copy, p
  <2>12. QED BY <2>9, <2>10, <2>11
<1>5. QED BY <1>2, <1>3, <1>4

(* push_back(Value&&).                                                     *)
LEMMA PushMoveLossless ==
  ASSUME HInv, RInv, idle, NEW a \in Operands, NEW s \in Operands, NEW c, NEW B,
         c.op = "push_move", c.to = a, a \in Roots \cup c.kept,
         {Tmp, a} \cap B = {}, Own(a) \cup Own(s) \subseteq B
  PROVE  /\ Lossless(c, tag, member, push_back_move(a, s))
         /\ Keeps(B, push_back_move(a, s))
<1>1. a # Tmp /\ Own(Tmp) = {} /\ (tag[a] = "Null" => Own(a) = {})
  BY StartFacts, HoldsOwn
<1>2. CASE tag[a] = "Null"
  <2> DEFINE p == <<Build(a), SetTag(a), Emplace(a, s)>>
  <2>1. Len(p) = 3 /\ p[1] = Build(a) /\ p[2] = SetTag(a) /\ p[3] = Emplace(a, s)
    OBVIOUS
  <2> HIDE DEF p
  <2>2. \A n \in 1 .. 3 : n = 1 \/ n = 2 \/ n = 3
    OBVIOUS
  <2>3. \A n \in 1 .. 3 : TargetOK(c, p, n)
    BY <2>1, <2>2 DEF TargetOK, Build, SetTag, Emplace
  <2>4. EmptiedAt(Own(a), a, p, 1)
    <3>1. \A j \in 1 .. 1 - 1 : p[j].to # a
      OBVIOUS
    <3>2. 1 \in Nat \ {0} /\ Own(a) = {}
      BY <1>1, <1>2
    <3>3. EmptiedAt({}, a, p, 1)
      BY <3>1, <3>2, EmptiedNow
    <3>4. QED BY <3>2, <3>3
  <2>5. \A n \in 1 .. 3 : FillOK(member, p, n)
    BY <2>1, <2>2, <2>4 DEF FillOK, Own, Build, SetTag, Emplace
  <2>6. TaggedAt(tag[a], a, p, 3)
    <3>1. 2 \in 0 .. 3 - 1 /\ 2 # 0 /\ \A j \in 2 + 1 .. 3 - 1 : FALSE
      OBVIOUS
    <3>2. Tags(p[2], a)
      BY <2>1 DEF Tags, SetTag
    <3>3. QED BY <3>1, <3>2 DEF TaggedAt
  <2>7. \A n \in 1 .. 3 : TagOK(c, tag, p, n)
    BY <2>1, <2>2, <2>6 DEF TagOK, Build, SetTag, Emplace
  <2>8. \A n \in 1 .. 3 : OrderOK(c, member, p, n)
    BY <2>1, <2>2 DEF OrderOK, Build, SetTag, Emplace
  <2>9. Keeps(B, p)
    BY <2>1, <2>2 DEF Keeps, Puts, Build, SetTag, Emplace
  <2>10. Lossless(c, tag, member, p)
    BY <2>1, <2>3, <2>5, <2>7, <2>8 DEF Lossless
  <2>11. push_back_move(a, s) = p
    BY <1>2 DEF push_back_move, p
  <2>12. QED BY <2>9, <2>10, <2>11
<1>3. CASE tag[a] = "Array"
  <2> DEFINE p == <<Emplace(a, s)>>
  <2>1. Len(p) = 1 /\ p[1] = Emplace(a, s)
    OBVIOUS
  <2> HIDE DEF p
  <2>2. \A n \in 1 .. 1 : n = 1
    OBVIOUS
  <2>3. TargetOK(c, p, 1) /\ FillOK(member, p, 1)
    BY <2>1 DEF TargetOK, FillOK, Emplace
  <2>4. TaggedAt(tag[a], a, p, 1)
    <3>1. 0 \in 0 .. 1 - 1 /\ \A j \in 0 + 1 .. 1 - 1 : FALSE
      OBVIOUS
    <3>2. tag[a] # "Null"
      BY <1>3
    <3>3. QED BY <3>1, <3>2 DEF TaggedAt
  <2>5. TagOK(c, tag, p, 1) /\ OrderOK(c, member, p, 1)
    BY <2>1, <2>4 DEF TagOK, OrderOK, Emplace
  <2>6. Keeps(B, p)
    BY <2>1, <2>2 DEF Keeps, Emplace
  <2>7. Lossless(c, tag, member, p)
    BY <2>1, <2>2, <2>3, <2>5 DEF Lossless
  <2>8. push_back_move(a, s) = p
    BY <1>3 DEF push_back_move, p
  <2>9. QED BY <2>6, <2>7, <2>8
<1>4. CASE tag[a] \notin {"Null", "Array"}
  <2> DEFINE p == <<Take(Tmp, a), Build(a), Emplace(a, Tmp), Emplace(a, s), SetTag(a)>>
  <2>1. /\ Len(p) = 5 /\ p[1] = Take(Tmp, a) /\ p[2] = Build(a) /\ p[3] = Emplace(a, Tmp)
        /\ p[4] = Emplace(a, s) /\ p[5] = SetTag(a)
    OBVIOUS
  <2> HIDE DEF p
  <2>2. \A n \in 1 .. 5 : n = 1 \/ n = 2 \/ n = 3 \/ n = 4 \/ n = 5
    OBVIOUS
  <2>3. \A n \in 1 .. 5 : TargetOK(c, p, n)
    BY <2>1, <2>2 DEF TargetOK, Take, Build, SetTag, Emplace
  <2>4. EmptiedAt(Own(Tmp), Tmp, p, 1) /\ EmptiedAt(Own(a), a, p, 2)
    <3>1. \A j \in 1 .. 1 - 1 : p[j].to # Tmp
      OBVIOUS
    <3>2. 2 \in Nat /\ 2 > 1 /\ 2 - 1 = 1 /\ Empties(p[1], a)
      BY <1>1, <2>1 DEF Empties, Puts, Take
    <3>3. QED BY <1>1, <3>1, <3>2, EmptiedNow, EmptiedLast
  <2>5. \A n \in 1 .. 5 : FillOK(member, p, n)
    BY <2>1, <2>2, <2>4 DEF FillOK, Own, Take, Build, SetTag, Emplace
  <2>6. \A n \in {3, 4} : TaggedLater(p, n, a)
    <3>1. Tags(p[5], a) /\ \A n \in {3, 4} : 5 \in n + 1 .. Len(p)
      BY <2>1 DEF Tags, SetTag
    <3>2. QED BY <3>1 DEF TaggedLater
  <2>7. \A n \in 1 .. 5 : TagOK(c, tag, p, n)
    BY <2>1, <2>2, <2>6 DEF TagOK, Pushing, Take, Build, SetTag, Emplace
  <2>8. \A n \in 1 .. 5 : OrderOK(c, member, p, n)
    BY <2>1, <2>2 DEF OrderOK, Take, Build, SetTag, Emplace
  <2>9. Keeps(B, p)
    <3>1. \A n \in 1 .. 5 : p[n].to \notin B
      BY <2>1, <2>2 DEF Take, Build, SetTag, Emplace
    <3>2. \A n \in 1 .. 5 : Puts(p[n]) => Own(p[n].from) \subseteq B
      BY <1>1, <2>1, <2>2 DEF Puts, Take, Build, SetTag, Emplace
    <3>3. QED BY <2>1, <3>1, <3>2 DEF Keeps
  <2>10. Lossless(c, tag, member, p)
    BY <2>1, <2>3, <2>5, <2>7, <2>8 DEF Lossless
  <2>11. push_back_move(a, s) = p
    BY <1>4 DEF push_back_move, p
  <2>12. QED BY <2>9, <2>10, <2>11
<1>5. QED BY <1>2, <1>3, <1>4

(* The temporary of an initializer list has its tag before it has elements,*)
(* and each copy is moved before the next is made.                         *)
LEMMA ListLossless ==
  ASSUME HInv, RInv, idle, NEW a \in Operands, NEW s, NEW u, NEW c,
         c.op = "list", a \in Roots \cup c.kept
  PROVE  /\ Lossless(c, tag, member, AssignList(a, <<s>>)) /\ Keeps({}, AssignList(a, <<s>>))
         /\ Lossless(c, tag, member, AssignList(a, <<s, u>>))
         /\ Keeps({}, AssignList(a, <<s, u>>))
<1>1. a # Copied /\ a # Tmp /\ Own(Copied) = {} /\ Own(Tmp) = {} /\ Tmp # Copied
  BY StartFacts, AddrFacts
<1>2. Lossless(c, tag, member, AssignList(a, <<s>>)) /\ Keeps({}, AssignList(a, <<s>>))
  <2> DEFINE p == <<Copy(s), Take(Tmp, Copied), Destruct(a), Take(a, Tmp)>>
  <2>0. AssignList(a, <<s>>) = p
    BY DEF AssignList
  <2>1. /\ Len(p) = 4 /\ p[1] = Copy(s) /\ p[2] = Take(Tmp, Copied)
        /\ p[3] = Destruct(a) /\ p[4] = Take(a, Tmp)
    OBVIOUS
  <2> HIDE DEF p
  <2>2. \A n \in 1 .. 4 : n = 1 \/ n = 2 \/ n = 3 \/ n = 4
    OBVIOUS
  <2>3. \A n \in 1 .. 4 : TargetOK(c, p, n)
    BY <2>1, <2>2 DEF TargetOK, Take, Destruct, Copy
  <2>4. /\ EmptiedAt(Own(Copied), Copied, p, 1) /\ EmptiedAt(Own(Tmp), Tmp, p, 2)
        /\ EmptiedAt(Own(a), a, p, 4)
    <3>1. \A j \in 1 .. 1 - 1 : p[j].to # Copied
      OBVIOUS
    <3>2. \A j \in 1 .. 2 - 1 : p[j].to # Tmp
      BY <1>1, <2>1 DEF Copy
    <3>3. EmptiedAt({}, Copied, p, 1) /\ EmptiedAt({}, Tmp, p, 2)
      BY <3>1, <3>2, EmptiedNow
    <3>4. 4 \in Nat /\ 4 > 1 /\ 4 - 1 = 3 /\ Empties(p[3], a)
      BY <2>1 DEF Empties, Destruct
    <3>5. EmptiedAt(Own(a), a, p, 4)
      BY <3>4, EmptiedLast
    <3>6. QED BY <1>1, <3>3, <3>5
  <2>5. \A n \in 1 .. 4 : FillOK(member, p, n)
    BY <2>1, <2>2, <2>4 DEF FillOK, Own, Take, Destruct, Copy
  <2>6. \A n \in 1 .. 4 : TagOK(c, tag, p, n)
    BY <2>1, <2>2 DEF TagOK, Take, Destruct, Copy
  <2>7. \A n \in 1 .. 4 : OrderOK(c, member, p, n)
    BY <2>1, <2>2 DEF OrderOK, Puts, Pushing, Take, Destruct, Copy
  <2>8. Keeps({}, p)
    BY <1>1, <2>1, <2>2 DEF Keeps, Puts, Take, Destruct, Copy
  <2>9. Lossless(c, tag, member, p)
    BY <2>1, <2>3, <2>5, <2>6, <2>7 DEF Lossless
  <2>10. QED BY <2>0, <2>8, <2>9
<1>3. Lossless(c, tag, member, AssignList(a, <<s, u>>)) /\ Keeps({}, AssignList(a, <<s, u>>))
  <2> DEFINE p == <<Build(Tmp), SetTag(Tmp), Copy(s), Emplace(Tmp, Copied),
                    Copy(u), Emplace(Tmp, Copied), Destruct(a), Take(a, Tmp)>>
  <2>0. AssignList(a, <<s, u>>) = p
    BY DEF AssignList
  <2>1. /\ Len(p) = 8 /\ p[1] = Build(Tmp) /\ p[2] = SetTag(Tmp) /\ p[3] = Copy(s)
        /\ p[4] = Emplace(Tmp, Copied) /\ p[5] = Copy(u) /\ p[6] = Emplace(Tmp, Copied)
        /\ p[7] = Destruct(a) /\ p[8] = Take(a, Tmp)
    OBVIOUS
  <2> HIDE DEF p
  <2>2. \A n \in 1 .. 8 : \/ n = 1 \/ n = 2 \/ n = 3 \/ n = 4
                          \/ n = 5 \/ n = 6 \/ n = 7 \/ n = 8
    OBVIOUS
  <2>3. \A n \in 1 .. 8 : TargetOK(c, p, n)
    BY <2>1, <2>2 DEF TargetOK, Build, SetTag, Copy, Emplace, Take, Destruct
  <2>4. /\ EmptiedAt(Own(Tmp), Tmp, p, 1) /\ EmptiedAt(Own(Copied), Copied, p, 3)
        /\ EmptiedAt(Own(Copied), Copied, p, 5) /\ EmptiedAt(Own(a), a, p, 8)
    <3>1. \A j \in 1 .. 1 - 1 : p[j].to # Tmp
      OBVIOUS
    <3>2. \A j \in 1 .. 3 - 1 : p[j].to # Copied
      <4>1. \A j \in 1 .. 3 - 1 : j = 1 \/ j = 2
        OBVIOUS
      <4>2. QED BY <1>1, <2>1, <4>1 DEF Build, SetTag
    <3>3. EmptiedAt({}, Tmp, p, 1) /\ EmptiedAt({}, Copied, p, 3)
      BY <3>1, <3>2, EmptiedNow
    <3>4. Empties(p[4], Copied) /\ Empties(p[7], a)
      BY <1>1, <2>1 DEF Empties, Puts, Emplace, Destruct
    <3>5. 5 \in Nat /\ 5 > 1 /\ 5 - 1 = 4 /\ 8 \in Nat /\ 8 > 1 /\ 8 - 1 = 7
      OBVIOUS
    <3>6. EmptiedAt(Own(Copied), Copied, p, 5) /\ EmptiedAt(Own(a), a, p, 8)
      BY <3>4, <3>5, EmptiedLast
    <3>7. QED BY <1>1, <3>3, <3>6
  <2>5. \A n \in 1 .. 8 : FillOK(member, p, n)
    BY <2>1, <2>2, <2>4 DEF FillOK, Own, Build, SetTag, Copy, Emplace, Take, Destruct
  <2>6. \A n \in {4, 6} : TaggedAt(tag[Tmp], Tmp, p, n)
    <3>1. Tags(p[2], Tmp)
      BY <2>1 DEF Tags, SetTag
    <3>2. \A n \in {4, 6} : \A j \in 2 + 1 .. n - 1 : ~Alters(p[j], Tmp)
      <4>1. \A n \in {4, 6} : \A j \in 2 + 1 .. n - 1 : j = 3 \/ j = 4 \/ j = 5
        OBVIOUS
      <4>2. QED BY <1>1, <2>1, <4>1 DEF Alters, Copy, Emplace
    <3>3. \A n \in {4, 6} : 2 \in 0 .. n - 1
      OBVIOUS
    <3>4. QED BY <3>1, <3>2, <3>3 DEF TaggedAt
  <2>7. \A n \in 1 .. 8 : TagOK(c, tag, p, n)
    BY <2>1, <2>2, <2>6 DEF TagOK, Build, SetTag, Copy, Emplace, Take, Destruct
  <2>8. \A n \in 1 .. 8 : OrderOK(c, member, p, n)
    BY <2>1, <2>2 DEF OrderOK, Puts, Pushing, Build, SetTag, Copy, Emplace, Take, Destruct
  <2>9. Keeps({}, p)
    <3>1. \A n \in 1 .. 8 : Puts(p[n]) => Own(p[n].from) = {}
      BY <1>1, <2>1, <2>2 DEF Puts, Build, SetTag, Copy, Emplace, Take, Destruct
    <3>2. QED BY <2>1, <3>1 DEF Keeps
  <2>10. Lossless(c, tag, member, p)
    BY <2>1, <2>3, <2>5, <2>7, <2>8 DEF Lossless
  <2>11. QED BY <2>0, <2>9, <2>10
<1>4. QED BY <1>2, <1>3

(* operator[] adds what was not there.                                     *)
LEMMA IndexLossless ==
  ASSUME HInv, RInv, idle, NEW a \in Operands, NEW k, NEW c,
         c.op = "index", a \in Roots \cup c.kept
  PROVE  /\ Lossless(c, tag, member, operator_index(a, k))
         /\ Keeps({}, operator_index(a, k))
<1>1. tag[a] = "Null" => Own(a) = {} /\ k \notin DOMAIN member[a].items
  BY StartFacts, HoldsOwn, NoPlaces DEF Own
<1>2. CASE tag[a] = "Null"
  <2> DEFINE p == <<BuildMap(a), SetTag(a), EmplaceKey(a, k)>>
  <2>1. Len(p) = 3 /\ p[1] = BuildMap(a) /\ p[2] = SetTag(a) /\ p[3] = EmplaceKey(a, k)
    OBVIOUS
  <2> HIDE DEF p
  <2>2. \A n \in 1 .. 3 : n = 1 \/ n = 2 \/ n = 3
    OBVIOUS
  <2>3. \A n \in 1 .. 3 : TargetOK(c, p, n)
    BY <2>1, <2>2 DEF TargetOK, BuildMap, SetTag, EmplaceKey
  <2>4. EmptiedAt(Own(a), a, p, 1)
    <3>1. \A j \in 1 .. 1 - 1 : p[j].to # a
      OBVIOUS
    <3>2. 1 \in Nat \ {0} /\ Own(a) = {}
      BY <1>1, <1>2
    <3>3. EmptiedAt({}, a, p, 1)
      BY <3>1, <3>2, EmptiedNow
    <3>4. QED BY <3>2, <3>3
  <2>5. \A n \in 1 .. 3 : FillOK(member, p, n)
    BY <2>1, <2>2, <2>4 DEF FillOK, Own, BuildMap, SetTag, EmplaceKey
  <2>6. TaggedAt(tag[a], a, p, 3)
    <3>1. 2 \in 0 .. 3 - 1 /\ 2 # 0 /\ \A j \in 2 + 1 .. 3 - 1 : FALSE
      OBVIOUS
    <3>2. Tags(p[2], a)
      BY <2>1 DEF Tags, SetTag
    <3>3. QED BY <3>1, <3>2 DEF TaggedAt
  <2>7. \A n \in 1 .. 3 : TagOK(c, tag, p, n)
    BY <2>1, <2>2, <2>6 DEF TagOK, BuildMap, SetTag, EmplaceKey
  <2>8. \A n \in 1 .. 3 : OrderOK(c, member, p, n)
    <3>1. \A j \in 1 .. 3 - 1 : p[j].do \in {"Map", "tag"}
      <4>1. \A j \in 1 .. 3 - 1 : j = 1 \/ j = 2
        OBVIOUS
      <4>2. QED BY <2>1, <4>1 DEF BuildMap, SetTag
    <3>2. QED
      BY <1>1, <1>2, <2>1, <2>2, <3>1 DEF OrderOK, Pushing, BuildMap, SetTag, EmplaceKey
  <2>9. Keeps({}, p)
    BY <2>1, <2>2 DEF Keeps, Puts, BuildMap, SetTag, EmplaceKey
  <2>10. Lossless(c, tag, member, p)
    BY <2>1, <2>3, <2>5, <2>7, <2>8 DEF Lossless
  <2>11. operator_index(a, k) = p
    BY <1>2 DEF operator_index, p
  <2>12. QED BY <2>9, <2>10, <2>11
<1>3. CASE tag[a] = "Map" /\ k \notin DOMAIN member[a].items
  <2> DEFINE p == <<EmplaceKey(a, k)>>
  <2>1. Len(p) = 1 /\ p[1] = EmplaceKey(a, k)
    OBVIOUS
  <2> HIDE DEF p
  <2>2. \A n \in 1 .. 1 : n = 1
    OBVIOUS
  <2>3. TargetOK(c, p, 1) /\ FillOK(member, p, 1)
    BY <2>1 DEF TargetOK, FillOK, EmplaceKey
  <2>4. TaggedAt(tag[a], a, p, 1)
    <3>1. 0 \in 0 .. 1 - 1 /\ \A j \in 0 + 1 .. 1 - 1 : FALSE
      OBVIOUS
    <3>2. tag[a] # "Null"
      BY <1>3
    <3>3. QED BY <3>1, <3>2 DEF TaggedAt
  <2>5. TagOK(c, tag, p, 1)
    BY <2>1, <2>4 DEF TagOK, EmplaceKey
  <2>6. OrderOK(c, member, p, 1)
    <3>1. \A j \in 1 .. 1 - 1 : FALSE
      OBVIOUS
    <3>2. QED BY <1>3, <2>1, <3>1 DEF OrderOK, EmplaceKey
  <2>7. Keeps({}, p)
    BY <2>1, <2>2 DEF Keeps, Puts, EmplaceKey
  <2>8. Lossless(c, tag, member, p)
    BY <2>1, <2>2, <2>3, <2>5, <2>6 DEF Lossless
  <2>9. operator_index(a, k) = p
    BY <1>3 DEF operator_index, p
  <2>10. QED BY <2>7, <2>8, <2>9
<1>4. CASE tag[a] # "Null" /\ ~(tag[a] = "Map" /\ k \notin DOMAIN member[a].items)
  <2>1. operator_index(a, k) = <<>>
    BY <1>4 DEF operator_index
  <2>2. QED BY <2>1 DEF Lossless, Keeps
<1>5. QED BY <1>2, <1>3, <1>4

-----------------------------------------------------------------------------
(* Calls.                                                                  *)

(* Between two calls everything is in reach.                               *)
LEMMA StartAnchored ==
  ASSUME HInv, RInv, idle, NEW a \in Operands
  PROVE  Anchored /\ FreeOwnNothing
<1>1. Cells /\ live \subseteq Reachable /\ \A x \in Heap \ live : Own(x) = {}
  BY StartFacts
<1>2. ASSUME NEW U \in SUBSET live, U # {}
      PROVE  \E x \in U : x \in doomed \/ \E y \in Addr \ U : x \in Own(y)
  BY <1>1, <1>2, NoCircle, HoldsOwn
<1>3. QED BY <1>1, <1>2 DEF Anchored, FreeOwnNothing

(* A call that begins with a program that loses nothing.                   *)
LEMMA BegunLoss ==
  ASSUME HInv, RInv, idle, HInv', NEW a \in Operands, NEW p, Begin(p),
         \A x \in Addr : x # Tmp => member'[x] = member[x] /\ tag'[x] = tag[x],
         Elements(member'[Tmp]) = {},
         NEW B \in SUBSET live, \A x \in B : Own(x) \subseteq B, Keeps(B, p),
         Lossless(call', tag', member', p)
  PROVE  NoneLost'
<1>1. /\ Cells /\ doomed = {} /\ copying = {} /\ live \subseteq Heap
      /\ \A x \in {Tmp, Copied} \cup (Heap \ live) : Own(x) = {}
      /\ todo' = p /\ live' = live /\ doomed' = {} /\ copying' = {}
  BY StartFacts DEF Begin, Cells
<1>2. Anchored /\ FreeOwnNothing
  BY StartAnchored
<1>3. \A x \in Addr : Elements(member'[x]) = Own(x)
  BY <1>1 DEF Own
<1>4. Anchored'
  <2>1. live' \in SUBSET Heap /\ doomed \cap live' \subseteq doomed' /\ live' \ live = {}
    BY <1>1
  <2>2. \A y \in Addr : \A x \in Own(y) :
          x \in live' => x \in Elements(member'[y]) \cup doomed'
    BY <1>3
  <2>3. QED BY <1>2, <2>1, <2>2, AnchoredStays
<1>5. FreeOwnNothing'
  <2>1. \A x \in Heap \ live : Elements(member'[x]) = {}
    BY <1>1, <1>3, AddrFacts
  <2>2. QED BY <1>1, <2>1 DEF FreeOwnNothing, Own
<1>6. Untagged'
  <2>1. ASSUME NEW x \in Addr, Elements(member'[x]) # {} PROVE tag'[x] # "Null"
    <3>1. Own(x) # {} /\ x # Tmp
      BY <1>3, <2>1
    <3>2. tag[x] # "Null"
      BY <1>1, <3>1, StartFacts, OwnersInReach
    <3>3. QED BY <3>1, <3>2
  <2>2. QED BY <2>1 DEF Untagged, Own
<1>7. B \in SUBSET live' /\ Apart(B)'
  <2>1. \A x \in B \cup {Tmp, Copied} : x \in Addr
    BY <1>1, AddrFacts
  <2>2. \A x \in B \cup {Tmp, Copied} : Elements(member'[x]) \subseteq B
    BY <1>1, <1>3, <2>1
  <2>3. ASSUME NEW n \in 1 .. Len(p)
        PROVE  /\ p[n].to \notin B
               /\ Puts(p[n]) /\ p[n].from # p[n].to => Elements(member'[p[n].from]) \subseteq B
    <3>1. p[n] \in Instructions
      <4>1. todo' \in Seq(Instructions)
        BY DEF HInv, HTypeOK
      <4>2. p \in Seq(Instructions)
        BY <1>1, <4>1
      <4>3. QED BY <4>2
    <3>2. Puts(p[n]) => p[n].from \in Addr
      BY <3>1 DEF Puts, Instructions
    <3>3. QED BY <1>3, <3>2 DEF Keeps
  <2>4. Keeps(B, todo)'
    BY <1>1, <2>3 DEF Keeps, Own
  <2>5. QED BY <1>1, <2>2, <2>4 DEF Apart, Own
<1>8. CopyHeld' /\ CopiedOnce'
  <2>1. Elements(member'[Copied]) = {}
    BY <1>1, <1>3, AddrFacts
  <2>2. QED BY <1>1, <2>1 DEF CopyHeld, CopiedOnce, Own
<1>9. Lossless(call, tag, member, todo)'
  BY <1>1
<1>10. QED BY <1>4, <1>5, <1>6, <1>7, <1>8, <1>9 DEF NoneLost

(* remove takes one element out of its container, and leaves the others.   *)
LEMMA RemovedElements ==
  ASSUME HInv, RInv, NEW a \in Operands, NEW i \in DOMAIN member[a].items,
         RemoveElement(a, i)
  PROVE  /\ \A x \in Addr : x # a => member'[x] = member[x]
         /\ Own(a) \subseteq Elements(member'[a]) \cup {member[a].items[i]}
<1> DEFINE f == member[a].items
           r == IF tag[a] = "Array" THEN RemoveAt(f, i) ELSE Without(f, i)
<1>1. /\ member' = [member EXCEPT ![a] = Holding(a, r)] /\ tag[a] \in {"Array", "Map"}
      /\ Cells /\ a \in Addr
  BY StartFacts DEF RemoveElement
<1>2. MemberOK(member[a]) /\ member[a].kind = tag[a] /\ member = [x \in Addr |-> member[x]]
  BY <1>1 DEF Cells, Fits, Table, Truth
<1>3. f[i] = member[a].items[i] /\ i \in DOMAIN f
  OBVIOUS
<1>4. tag[a] = "Array" => f \in Seq(Heap)
  BY <1>2 DEF MemberOK
<1>5. Own(a) = Items(f)
  BY DEF Own, Elements
<1> HIDE DEF f
<1>6. ASSUME NEW j \in DOMAIN f, f[j] # f[i] PROVE \E n \in DOMAIN r : r[n] = f[j]
  <2>1. CASE tag[a] = "Array"
    <3>1. f \in Seq(Heap) /\ DOMAIN f = 1 .. Len(f) /\ Len(f) \in Nat
      BY <1>4, <2>1, LenProperties
    <3>2. r = RemoveAt(f, i)
      BY <2>1
    <3>3. /\ DOMAIN RemoveAt(f, i) = 1 .. Len(f) - 1
          /\ \A n \in 1 .. Len(f) - 1 : RemoveAt(f, i)[n] = f[IF n < i THEN n ELSE n + 1]
      BY <1>3, <3>1, RemoveAtFacts
    <3>4. CASE j < i
      <4>1. j \in 1 .. Len(f) - 1
        BY <1>3, <3>1, <3>4
      <4>2. RemoveAt(f, i)[j] = f[j]
        BY <3>3, <3>4, <4>1
      <4>3. QED BY <3>2, <3>3, <4>1, <4>2
    <3>5. CASE j > i
      <4>1. j - 1 \in 1 .. Len(f) - 1 /\ ~(j - 1 < i) /\ (j - 1) + 1 = j
        BY <1>3, <3>1, <3>5
      <4>2. RemoveAt(f, i)[j - 1] = f[j]
        BY <3>3, <4>1
      <4>3. QED BY <3>2, <3>3, <4>1, <4>2
    <3>6. j < i \/ j > i
      BY <1>3, <1>6, <3>1
    <3>7. QED BY <3>4, <3>5, <3>6
  <2>2. CASE tag[a] # "Array"
    <3>1. r = [n \in DOMAIN f \ {i} |-> f[n]]
      BY <2>2 DEF Without
    <3>2. j \in DOMAIN f \ {i}
      BY <1>6
    <3>3. QED BY <3>1, <3>2
  <2>3. QED BY <2>1, <2>2
<1> HIDE DEF r
<1>7. /\ \A x \in Addr : x # a => member'[x] = member[x]
      /\ member'[a].items = r
  BY <1>1, <1>2, HoldingFacts DEF Holding
<1>8. Elements(member'[a]) = Items(r)
  BY <1>7 DEF Elements
<1>9. Items(f) \subseteq Items(r) \cup {f[i]}
  BY <1>6 DEF Items
<1>10. QED BY <1>3, <1>5, <1>7, <1>8, <1>9

(* The element that remove destroys takes along all that is inside it.     *)
LEMMA RemoveLoss ==
  ASSUME HInv, RInv, NEW a \in Operands, NEW i \in DOMAIN member[a].items,
         RemoveElement(a, i)
  PROVE  NoneLost'
<1>1. /\ idle /\ doomed' = {member[a].items[i]}
      /\ UNCHANGED <<tag, live, copying, todo, outcome>>
  BY DEF RemoveElement
<1>2. /\ Cells /\ a \in Roots \cup live /\ a \in Addr /\ a \notin {Tmp, Copied}
      /\ todo = <<>> /\ doomed = {} /\ copying = {} /\ live \subseteq Heap
      /\ \A x \in {Tmp, Copied} \cup (Heap \ live) : Own(x) = {}
  BY <1>1, StartFacts DEF Cells
<1>3. Anchored /\ FreeOwnNothing
  BY <1>1, StartAnchored
<1>4. /\ \A x \in Addr : x # a => member'[x] = member[x]
      /\ Own(a) \subseteq Elements(member'[a]) \cup doomed'
  BY <1>1, RemovedElements
<1>5. \A x \in Addr : x # a => Elements(member'[x]) = Own(x)
  BY <1>4 DEF Own
<1>6. \A x \in {Tmp, Copied} \cup (Heap \ live) : Elements(member'[x]) = {}
  <2>1. \A x \in {Tmp, Copied} \cup (Heap \ live) : x \in Addr /\ x # a
    BY <1>2, AddrFacts, HeapAssumption
  <2>2. QED BY <1>2, <1>5, <2>1
<1>7. Anchored'
  <2>1. live' \in SUBSET Heap /\ doomed \cap live' \subseteq doomed' /\ live' \ live = {}
    BY <1>1, <1>2
  <2>2. \A y \in Addr : \A x \in Own(y) :
          x \in live' => x \in Elements(member'[y]) \cup doomed'
    BY <1>4, <1>5
  <2>3. QED BY <1>3, <2>1, <2>2, AnchoredStays
<1>8. FreeOwnNothing'
  BY <1>1, <1>6 DEF FreeOwnNothing, Own
<1>9. Untagged'
  <2>1. \A x \in Addr : Elements(member'[x]) = {} \/ tag'[x] # "Null"
    <3>1. tag[a] # "Null"
      BY DEF RemoveElement
    <3>2. \A x \in Addr : Own(x) = {} \/ tag[x] # "Null"
      BY <1>1, <1>2, StartFacts, OwnersInReach
    <3>3. QED BY <1>1, <1>5, <3>1, <3>2
  <2>2. QED BY <2>1 DEF Untagged, Own
<1>10. Len(<<>>) = 0 /\ \A n \in 1 .. 0 : FALSE
  OBVIOUS
<1>11. {} \in SUBSET live' /\ Apart({})'
  <2>1. \A x \in {} \cup {Tmp, Copied} : Elements(member'[x]) \subseteq {}
    BY <1>6
  <2>2. Keeps({}, todo)'
    BY <1>1, <1>2, <1>10 DEF Keeps
  <2>3. QED BY <1>1, <1>2, <2>1, <2>2 DEF Apart, Own
<1>12. CopyHeld' /\ CopiedOnce'
  BY <1>1, <1>2, <1>6 DEF CopyHeld, CopiedOnce, Own
<1>13. Lossless(call, tag, member, todo)'
  BY <1>1, <1>2, <1>10 DEF Lossless
<1>14. QED BY <1>7, <1>8, <1>9, <1>11, <1>12, <1>13 DEF NoneLost

(* Every call that may not lose a Value begins so that it will not.        *)
LEMMA CallLoss ==
  ASSUME HInv, RInv, HInv', Call
  PROVE  LInv'
<1>0. SUFFICES ASSUME ~Losing' PROVE NoneLost'
  BY DEF LInv
<1>1. PICK a \in Operands :
        \/ \E s \in Operands : \/ Assign(a, s) \/ Push(a, s) \/ Swap(a, s)
                               \/ List(a, <<s>>) \/ \E t \in {a, s} : List(a, <<s, t>>)
        \/ \E m \in {None} \cup {Text(d) : d \in Data} : AssignNew(a, m)
        \/ \E k \in Keys : Index(a, k)
        \/ \E i \in DOMAIN member[a].items : RemoveElement(a, i)
  BY DEF Call
<1>2. ASSUME idle, NEW s \in Operands
      PROVE  /\ s \in Roots \cup live /\ s \in Addr /\ s \notin {Tmp, Copied} /\ Cells
             /\ s \notin Below(s) /\ Own(s) \subseteq Below(s) /\ Below(s) \in SUBSET live
             /\ Tmp \notin Below(s) /\ Copied \notin Below(s)
             /\ \A x \in Below(s) : Own(x) \subseteq Below(s)
             /\ Own(Tmp) = {} /\ Own(Copied) = {}
  <2>1. /\ s \in Roots \cup live /\ s \in Addr /\ s \notin {Tmp, Copied} /\ Cells
        /\ s \notin Below(s) /\ Own(Tmp) = {} /\ Own(Copied) = {}
        /\ \A x \in Addr : Own(x) = Holds(x)
    BY <1>2, StartFacts
  <2>2. /\ Below(s) \subseteq live /\ Below(s) \subseteq Heap /\ Encloses(Below(s), s)
    BY <2>1, BelowFacts
  <2>3. Own(s) \subseteq Below(s) /\ \A x \in Below(s) : Own(x) \subseteq Below(s)
    BY <2>1, <2>2, AddrFacts DEF Encloses
  <2>4. QED BY <2>1, <2>2, <2>3, AddrFacts
<1>3. ASSUME NEW s \in Operands, Assign(a, s)
      PROVE  NoneLost'
  <2>1. idle /\ tag' = tag /\ member' = member
    BY <1>3 DEF Assign, Begin
  <2>2. /\ a \in Roots \cup live /\ a \notin Below(a) /\ Elements(member'[Tmp]) = {}
        /\ s \in Addr
    BY <1>2, <2>1 DEF Own
  <2>3. CASE Begin(CopyAssign(a, s)) /\ Called("copy", a, s, live \ Below(a))
    <3>1. call'.op \notin Pushing /\ a \in Roots \cup call'.kept
      BY <2>2, <2>3 DEF Called, Pushing
    <3>2. Lossless(call', tag', member', CopyAssign(a, s)) /\ Keeps({}, CopyAssign(a, s))
      BY <2>1, <3>1, CopyLossless
    <3>3. {} \in SUBSET live /\ \A x \in {} : Own(x) \subseteq {}
      OBVIOUS
    <3>4. QED BY <2>1, <2>2, <2>3, <3>2, <3>3, BegunLoss
  <2>4. CASE Begin(MoveAssign(a, s)) /\ Called("move", a, s, live \ Below(a))
    <3>1. /\ call'.op = "move" /\ call'.kin = Kin(a, s) /\ a \in Roots \cup call'.kept
      BY <2>2, <2>4 DEF Called
    <3>2. Kin(a, s) # "above"
      BY <1>0, <3>1 DEF Losing
    <3>3. a \notin Below(s)
      BY <2>1, <3>2, KinFacts
    <3>4. Lossless(call', tag', member', MoveAssign(a, s))
      BY <3>1, MoveLossless DEF Pushing
    <3>5. Keeps(Below(s), MoveAssign(a, s))
      BY <1>2, <2>1, <3>3, MoveKeeps
    <3>6. Below(s) \in SUBSET live /\ \A x \in Below(s) : Own(x) \subseteq Below(s)
      BY <1>2, <2>1
    <3>7. QED BY <2>1, <2>2, <2>4, <3>4, <3>5, <3>6, BegunLoss
  <2>5. QED BY <1>3, <2>3, <2>4 DEF Assign
<1>4. ASSUME NEW s \in Operands, Push(a, s)
      PROVE  NoneLost'
  <2>1. idle /\ tag' = tag /\ member' = member
    BY <1>4 DEF Push, Begin
  <2>2. /\ a \in Roots \cup live /\ a \notin Below(a) /\ Elements(member'[Tmp]) = {}
        /\ s \in Addr
    BY <1>2, <2>1 DEF Own
  <2>3. CASE Begin(push_back_copy(a, s)) /\ Called("push_copy", a, s, live)
    <3>1. call'.op = "push_copy" /\ call'.to = a /\ a \in Roots \cup call'.kept
      BY <2>2, <2>3 DEF Called
    <3>2. {Tmp, Copied, a} \cap Below(a) = {} /\ Own(a) \subseteq Below(a)
      BY <1>2, <2>1
    <3>3. /\ Lossless(call', tag', member', push_back_copy(a, s))
          /\ Keeps(Below(a), push_back_copy(a, s))
      BY <2>1, <3>1, <3>2, PushCopyLossless
    <3>4. Below(a) \in SUBSET live /\ \A x \in Below(a) : Own(x) \subseteq Below(a)
      BY <1>2, <2>1
    <3>5. QED BY <2>1, <2>2, <2>3, <3>3, <3>4, BegunLoss
  <2>4. CASE Begin(push_back_move(a, s)) /\ Called("push_move", a, s, live)
    <3>1. /\ call'.op = "push_move" /\ call'.kin = Kin(a, s) /\ call'.to = a
          /\ a \in Roots \cup call'.kept
      BY <2>2, <2>4 DEF Called
    <3>2. Kin(a, s) # "above"
      BY <1>0, <3>1 DEF Losing
    <3>3. a \notin Below(s)
      BY <2>1, <3>2, KinFacts
    <3>4. PICK B : B = Below(a) \cup Below(s)
      OBVIOUS
    <3>5. {Tmp, a} \cap B = {} /\ Own(a) \cup Own(s) \subseteq B
      BY <1>2, <2>1, <3>3, <3>4
    <3>6. Lossless(call', tag', member', push_back_move(a, s)) /\ Keeps(B, push_back_move(a, s))
      BY <2>1, <3>1, <3>5, PushMoveLossless
    <3>7. B \in SUBSET live /\ \A x \in B : Own(x) \subseteq B
      BY <1>2, <2>1, <3>4
    <3>8. QED BY <2>1, <2>2, <2>4, <3>6, <3>7, BegunLoss
  <2>5. QED BY <1>4, <2>3, <2>4 DEF Push
<1>5. ASSUME NEW s \in Operands, Swap(a, s)
      PROVE  NoneLost'
  <2>1. idle /\ tag' = tag /\ member' = member /\ Begin(swap(a, s))
    BY <1>5 DEF Swap, Begin
  <2>2. /\ a \in Roots \cup live /\ s \in Roots \cup live /\ Elements(member'[Tmp]) = {}
        /\ s \in Addr
    BY <1>2, <2>1 DEF Own
  <2>3. /\ call'.op = "swap" /\ call'.kin = Kin(a, s)
        /\ a \in Roots \cup call'.kept /\ s \in Roots \cup call'.kept
    BY <1>5, <2>2 DEF Swap, Called
  <2>4. Kin(a, s) \notin {"above", "below"}
    BY <1>0, <2>3 DEF Losing
  <2>5. a \notin Below(s) /\ s \notin Below(a)
    BY <2>1, <2>4, KinFacts
  <2>6. PICK B : B = Below(a) \cup Below(s)
    OBVIOUS
  <2>7. {Tmp, a, s} \cap B = {} /\ Own(a) \cup Own(s) \subseteq B
    BY <1>2, <2>1, <2>5, <2>6
  <2>8. Lossless(call', tag', member', swap(a, s)) /\ Keeps(B, swap(a, s))
    BY <2>1, <2>3, <2>7, SwapLossless DEF Pushing
  <2>9. B \in SUBSET live /\ \A x \in B : Own(x) \subseteq B
    BY <1>2, <2>1, <2>6
  <2>10. QED BY <2>1, <2>2, <2>8, <2>9, BegunLoss
<1>6. ASSUME NEW s \in Operands, NEW t \in Operands,
             NEW list \in {<<s>>, <<s, t>>}, List(a, list)
      PROVE  NoneLost'
  <2>1. idle /\ tag' = tag /\ member' = member /\ Begin(AssignList(a, list))
    BY <1>6 DEF List, Begin
  <2>2. a \in Roots \cup live /\ a \notin Below(a) /\ Elements(member'[Tmp]) = {}
    BY <1>2, <2>1 DEF Own
  <2>3. call'.op = "list" /\ a \in Roots \cup call'.kept
    BY <1>6, <2>2 DEF List, Called
  <2>4. Lossless(call', tag', member', AssignList(a, list)) /\ Keeps({}, AssignList(a, list))
    BY <2>1, <2>3, ListLossless
  <2>5. {} \in SUBSET live /\ \A x \in {} : Own(x) \subseteq {}
    OBVIOUS
  <2>6. QED BY <2>1, <2>2, <2>4, <2>5, BegunLoss
<1>7. ASSUME NEW k \in Keys, Index(a, k)
      PROVE  NoneLost'
  <2>1. idle /\ tag' = tag /\ member' = member /\ Begin(operator_index(a, k))
    BY <1>7 DEF Index, Begin
  <2>2. a \in Roots \cup live /\ Elements(member'[Tmp]) = {}
    BY <1>2, <2>1 DEF Own
  <2>3. call'.op = "index" /\ a \in Roots \cup call'.kept
    BY <1>7, <2>2 DEF Index, Called
  <2>4. Lossless(call', tag', member', operator_index(a, k)) /\ Keeps({}, operator_index(a, k))
    BY <2>1, <2>3, IndexLossless
  <2>5. {} \in SUBSET live /\ \A x \in {} : Own(x) \subseteq {}
    OBVIOUS
  <2>6. QED BY <2>1, <2>2, <2>4, <2>5, BegunLoss
<1>8. ASSUME NEW m \in {None} \cup {Text(d) : d \in Data}, AssignNew(a, m)
      PROVE  NoneLost'
  <2>1. idle /\ Begin(MoveAssign(a, Tmp))
    BY <1>8 DEF AssignNew, Begin
  <2>2. /\ a \in Roots \cup live /\ a \notin Below(a) /\ Cells /\ Own(Tmp) = {}
    BY <1>2, <2>1
  <2>3. member' = Replace(member, Tmp, m) /\ tag' = [tag EXCEPT ![Tmp] = m.kind]
    BY <1>8 DEF AssignNew, Replace
  <2>4. /\ \A x \in Addr : x # Tmp => member'[x] = member[x] /\ tag'[x] = tag[x]
        /\ Elements(member'[Tmp]) = {}
    <3>1. DOMAIN m.items = {}
      BY NoneOK, TextOK
    <3>2. member'[Tmp] = m /\ \A x \in Addr : x # Tmp => member'[x] = member[x]
      BY <2>2, <2>3, AddrFacts DEF Replace, Cells, Fits, Table
    <3>3. \A x \in Addr : x # Tmp => tag'[x] = tag[x]
      BY <2>3 DEF HInv, HTypeOK
    <3>4. Elements(m) = {}
      BY <3>1 DEF Elements, Items
    <3>5. QED BY <3>2, <3>3, <3>4
  <2>5. call'.op = "new" /\ a \in Roots \cup call'.kept
    BY <1>8, <2>2 DEF AssignNew, Called
  <2>6. Lossless(call', tag', member', MoveAssign(a, Tmp))
    BY <2>5, MoveLossless DEF Pushing
  <2>7. Keeps({}, MoveAssign(a, Tmp))
    BY <2>2, MoveKeeps
  <2>8. {} \in SUBSET live /\ \A x \in {} : Own(x) \subseteq {}
    OBVIOUS
  <2>9. QED BY <2>1, <2>4, <2>6, <2>7, <2>8, BegunLoss
<1>9. QED BY <1>1, <1>3, <1>4, <1>5, <1>6, <1>7, <1>8, RemoveLoss

-----------------------------------------------------------------------------
(* The theorems.                                                           *)

(* Nothing is lost before the first call.                                  *)
LEMMA LossInit == HInit => LInv
  BY DEF HInit, LInv, idle

(* No step of a call that loses nothing loses something.                   *)
LEMMA RunLoss ==
  ASSUME HInv, RunInv, NoneLost, ~Losing, ~Losing', Run, ~Return
  PROVE  NoneLost'
<1>1. CASE BadAlloc
  <2>1. call' = call /\ outcome' = "bad_alloc"
    BY <1>1 DEF BadAlloc
  <2>2. call.op \notin Pushing
    BY <2>1 DEF Losing, Excused
  <2>3. QED BY <1>1, <2>2, BadAllocLoss
<1>2. CASE DestroyElements \/ CopyValue \/ Undefined
  BY <1>2, DestroyLoss, CopyValueLoss, UndefinedLoss
<1>3. CASE DoDestruct \/ DoTake \/ DoBuild \/ DoSetTag \/ DoEmplace \/ DoEmplaceKey \/ DoCopy
  BY <1>3, DestructLoss, TakeLoss, BuildLoss, SetTagLoss, EmplaceLoss, KeyLoss, CopyLoss
<1>4. QED BY <1>1, <1>2, <1>3 DEF Run

(* The invariant is inductive, together with those it rests on.            *)
LEMMA LossStep == HInv /\ RInv /\ LInv /\ [HNext]_hvars => LInv'
<1> SUFFICES ASSUME HInv, RInv, LInv, [HNext]_hvars PROVE LInv'
  OBVIOUS
<1>1. CASE Call
  <2>1. HInv'
    BY HStepInv
  <2>2. QED BY <1>1, <2>1, CallLoss
<1>2. CASE Return
  BY <1>2 DEF Return, LInv, idle
<1>3. CASE UNCHANGED hvars
  <2>1. /\ UNCHANGED <<tag, member, live, doomed, copying, todo, outcome, call>>
        /\ idle' = idle /\ Losing' = Losing
    BY <1>3 DEF hvars, idle, Losing, Excused
  <2>2. SUFFICES ASSUME NoneLost PROVE NoneLost'
    BY <2>1 DEF LInv
  <2>3. Anchored' /\ FreeOwnNothing'
    BY <2>1, <2>2 DEF NoneLost, Anchored, FreeOwnNothing, Own
  <2>4. Untagged' /\ CopyHeld' /\ CopiedOnce'
    BY <2>1, <2>2 DEF NoneLost, Untagged, CopyHeld, CopiedOnce, Own, from
  <2>5. Lossless(call, tag, member, todo)'
    BY <2>1, <2>2 DEF NoneLost
  <2>6. PICK B \in SUBSET live : Apart(B)
    BY <2>2 DEF NoneLost
  <2>7. B \in SUBSET live' /\ Apart(B)'
    BY <2>1, <2>6 DEF Apart, Keeps, Own
  <2>8. QED BY <2>3, <2>4, <2>5, <2>7 DEF NoneLost
<1>4. CASE Run /\ ~Return
  <2>1. SUFFICES ASSUME ~idle', ~Losing' PROVE NoneLost'
    BY DEF LInv
  <2>2. /\ call' = call
        /\ outcome' = outcome \/ outcome' = "bad_alloc" \/ Undefined
    <3>1. Undefined => call' = call
      BY DEF Undefined
    <3>2. BadAlloc => call' = call /\ outcome' = "bad_alloc"
      BY DEF BadAlloc
    <3>3. QED
      BY <1>4, <3>1, <3>2
      DEF Run, DestroyElements, DoDestruct, DoTake, DoBuild, DoSetTag, DoEmplace,
          DoEmplaceKey, DoCopy, CopyValue, Proceed
  <2>3. ~idle
    BY <2>1, <2>2 DEF idle
  <2>4. RunInv
    BY <2>3 DEF RInv
  <2>5. ~Losing
    <3>1. Undefined => outcome # "bad_alloc"
      <4>1. Undefined => todo # <<>>
        BY DEF Undefined, Ready
      <4>2. QED BY <2>4, <4>1 DEF RunInv
    <3>2. Excused => Excused'
      BY <2>2, <3>1 DEF Excused
    <3>3. QED BY <2>1, <2>2, <3>2 DEF Losing
  <2>6. NoneLost
    BY <2>3, <2>5 DEF LInv
  <2>7. QED BY <1>4, <2>1, <2>4, <2>5, <2>6, RunLoss
<1>5. QED BY <1>1, <1>2, <1>3, <1>4 DEF HNext

(* No call but the excepted ones closes a circle of Values, or leaves an   *)
(* element where no destructor will look for it, at any of its steps.      *)
THEOREM LossInvariant == HSpec => []LInv
<1>1. HInit => HInv /\ RInv /\ LInv
  BY HInitInv, ReferenceInit, LossInit
<1>2. HInv /\ RInv /\ LInv /\ [HNext]_hvars => (HInv /\ RInv /\ LInv)'
  BY HStepInv, ReferenceStep, LossStep
<1>3. HSpec => [](HInv /\ RInv /\ LInv)
  BY <1>1, <1>2, PTL DEF HSpec
<1>4. QED BY <1>3, PTL

(* When a call is through, whatever it allocated or moved is inside one of *)
(* the caller's variables, where its destructor will find it: Values leak  *)
(* only where one is moved into a Value inside it, by operator =,          *)
(* push_back or swap, and where push_back runs out of memory.              *)
THEOREM NoValueLost == HSpec => []NothingLost
<1>1. HInv /\ RInv /\ LInv => NothingLost
  <2>1. SUFFICES ASSUME HInv, RInv, LInv, ~idle, todo = <<>>, doomed = {}, copying = {},
                        ~Losing
                 PROVE  live \subseteq Reachable
    BY DEF NothingLost, Losing, Excused, Pushing
  <2>2. NoneLost /\ Cells
    BY <2>1, CellsParts DEF LInv, HInv
  <2>3. \A x \in Addr : Own(x) # {} => tag[x] # "Null"
    BY <2>1, <2>2, TagFacts
  <2>4. Own(Copied) = {}
    BY <2>1, <2>2 DEF NoneLost, CopyHeld
  <2>5. Own(Tmp) = {}
    <3>1. Len(<<>>) = 0 /\ \A n \in 1 .. 0 : FALSE
      OBVIOUS
    <3>2. tag[Tmp] = "Null"
      BY <2>1, <3>1 DEF HInv, TmpHeld
    <3>3. QED BY <2>3, <3>2, AddrFacts
  <2>6. QED BY <2>1, <2>2, <2>3, <2>4, <2>5, AnchoredInReach DEF NoneLost
<1>2. HSpec => []HInv /\ []RInv /\ []LInv
  BY HeapInvariant, ReferenceInvariant, LossInvariant
<1>3. QED BY <1>1, <1>2, PTL
=============================================================================
