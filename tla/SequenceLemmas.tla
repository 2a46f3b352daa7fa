-------------------------- MODULE SequenceLemmas --------------------------
(***************************************************************************)
(* Facts about sequences and sets of numbers that the proofs about Values  *)
(* share.                                                                  *)
(***************************************************************************)
EXTENDS SequencesExt, SequenceTheorems, WellFoundedInduction, TLAPS

(* A function on 1..n is a sequence of length n.                           *)
LEMMA TableIsSeq ==
  ASSUME NEW S, NEW n \in Nat, NEW f \in [1..n -> S]
  PROVE  f \in Seq(S) /\ Len(f) = n
<1>1. f \in Seq(S)
  BY SeqDef
<1>2. DOMAIN f = 1..n /\ DOMAIN f = 1..Len(f) /\ Len(f) \in Nat
  BY <1>1, LenProperties
<1>3. QED BY <1>1, <1>2

(* The elements of two sequences put together.                             *)
LEMMA ConcatFacts ==
  ASSUME NEW S, NEW p \in Seq(S), NEW q \in Seq(S)
  PROVE  /\ p \o q \in Seq(S) /\ Len(p \o q) = Len(p) + Len(q)
         /\ \A n \in 1 .. Len(p) + Len(q) :
              (p \o q)[n] = IF n <= Len(p) THEN p[n] ELSE q[n - Len(p)]
  BY SMT

(* A sequence with one more element at its end, and with one less.         *)
LEMMA AppendFacts ==
  ASSUME NEW S, NEW s \in Seq(S), NEW e \in S, NEW t, t = Append(s, e)
  PROVE  /\ t \in Seq(S) /\ Len(s) \in Nat /\ Len(t) = Len(s) + 1 /\ t # <<>>
         /\ \A i \in 1..Len(s) : t[i] = s[i]
         /\ t[Len(s) + 1] = e
  OBVIOUS

LEMMA FrontFacts ==
  ASSUME NEW S, NEW s \in Seq(S), s # <<>>, NEW t, t = SubSeq(s, 1, Len(s) - 1)
  PROVE  /\ t \in Seq(S) /\ Len(t) = Len(s) - 1
         /\ \A i \in 1 .. Len(s) - 1 : t[i] = s[i]
<1>1. Len(s) \in Nat /\ Len(s) > 0
  BY EmptySeq, LenProperties
<1> DEFINE n == Len(s) - 1
<1>2. n \in Nat /\ \A i \in 1..n : s[i] \in S
  BY <1>1, ElementOfSeq
<1> HIDE DEF n
<1>3. /\ SubSeq(s, 1, n) \in Seq(S)
      /\ Len(SubSeq(s, 1, n)) = IF 1 <= n THEN n - 1 + 1 ELSE 0
      /\ \A i \in 1 .. n - 1 + 1 : SubSeq(s, 1, n)[i] = s[1 + i - 1]
  BY <1>2, SubSeqProperties
<1>4. Len(SubSeq(s, 1, n)) = n /\ \A i \in 1..n : SubSeq(s, 1, n)[i] = s[i]
  BY <1>2, <1>3
<1>5. QED BY <1>3, <1>4 DEF n

(* What the vector's erase returns.                                        *)
LEMMA RemoveAtFacts ==
  ASSUME NEW S, NEW f \in Seq(S), NEW i \in 1 .. Len(f)
  PROVE  /\ RemoveAt(f, i) \in Seq(S)
         /\ DOMAIN RemoveAt(f, i) = 1 .. Len(f) - 1
         /\ \A n \in 1 .. Len(f) - 1 :
              RemoveAt(f, i)[n] = f[IF n < i THEN n ELSE n + 1]
<1> DEFINE p == SubSeq(f, 1, i - 1)
           q == SubSeq(f, i + 1, Len(f))
           r == p \o q
<1>0. Len(f) \in Nat
  BY LenProperties
<1>1. p \in Seq(S) /\ Len(p) = i - 1 /\ \A n \in 1 .. i - 1 : p[n] = f[n]
  BY SMT
<1>2. q \in Seq(S) /\ Len(q) = Len(f) - i
        /\ \A n \in 1 .. Len(f) - i : q[n] = f[i + n]
  BY SMT
<1> HIDE DEF p, q
<1>3. /\ r \in Seq(S) /\ Len(r) = Len(p) + Len(q)
      /\ \A n \in 1 .. Len(p) + Len(q) :
           r[n] = IF n <= Len(p) THEN p[n] ELSE q[n - Len(p)]
  BY <1>1, <1>2, ConcatFacts
<1> HIDE DEF r
<1>4. RemoveAt(f, i) = r
  BY DEF RemoveAt, p, q, r
<1>5. ASSUME NEW n \in 1 .. Len(f) - 1
      PROVE  r[n] = f[IF n < i THEN n ELSE n + 1]
  <2>0. n \in 1 .. Len(p) + Len(q)
    BY <1>0, <1>1, <1>2
  <2>1. CASE n < i
    <3>1. n <= Len(p) /\ n \in 1 .. i - 1
      BY <1>0, <1>1, <2>1
    <3>2. r[n] = p[n]
      BY <1>3, <2>0, <3>1
    <3>3. QED BY <1>1, <2>1, <3>1, <3>2
  <2>2. CASE ~(n < i)
    <3>1. n - (i - 1) \in 1 .. Len(f) - i /\ i + (n - (i - 1)) = n + 1
      BY <1>0, <2>2
    <3>2. r[n] = q[n - (i - 1)]
      <4>1. ~(n <= Len(p))
        BY <1>0, <1>1, <2>2
      <4>2. r[n] = q[n - Len(p)]
        BY <1>3, <2>0, <4>1
      <4>3. QED BY <1>1, <4>2
    <3>3. QED BY <1>2, <2>2, <3>1, <3>2
  <2>3. QED BY <2>1, <2>2
<1>6. DOMAIN r = 1 .. Len(f) - 1
  BY <1>0, <1>1, <1>2, <1>3, LenProperties
<1>7. QED BY <1>3, <1>4, <1>5, <1>6

(* Every set of natural numbers has a least element: Min finds it.         *)
LEMMA MinFacts ==
  ASSUME NEW T, T \subseteq Nat, T # {}
  PROVE  Min(T) \in T /\ \A y \in T : Min(T) <= y
<1> DEFINE below == OpToRel(<, Nat)
<1>1. PICK m \in T : \A y \in T : ~(<<y, m>> \in below)
  <2> HIDE DEF below
  <2>1. IsWellFoundedOn(below, Nat)
    BY NatLessThanWellFounded DEF below
  <2>2. QED BY <2>1, WFMin
<1>2. \A y \in T : m <= y
  <2>1. TAKE y \in T
  <2>2. <<y, m>> \in below <=> y < m
    BY DEF OpToRel
  <2> HIDE DEF below
  <2>3. ~(y < m) /\ y \in Nat /\ m \in Nat
    BY <1>1, <2>2
  <2>4. QED BY <2>3
<1>3. QED BY <1>2 DEF Min

(* Where a sequence without repetitions is cut in two, the parts are.      *)
LEMMA InjectiveConcat ==
  ASSUME NEW S, NEW s \in Seq(S), NEW t \in Seq(S)
  PROVE  IsInjective(s \o t) <=>
           IsInjective(s) /\ IsInjective(t) /\ Range(s) \cap Range(t) = {}
<1> DEFINE r == s \o t
<1>1. /\ DOMAIN s = 1 .. Len(s) /\ DOMAIN t = 1 .. Len(t)
      /\ Len(s) \in Nat /\ Len(t) \in Nat
  BY LenProperties
<1>2. DOMAIN r = 1 .. Len(s) + Len(t)
  BY ConcatProperties, LenProperties
<1>3. \A i \in DOMAIN s : i \in DOMAIN r /\ r[i] = s[i]
  BY <1>1, <1>2, ConcatProperties
<1>4. \A i \in DOMAIN t : Len(s) + i \in DOMAIN r /\ r[Len(s) + i] = t[i]
  BY <1>1, <1>2, ConcatProperties
<1>5. \A i \in DOMAIN r :
        \/ i \in DOMAIN s
        \/ i - Len(s) \in DOMAIN t /\ Len(s) + (i - Len(s)) = i
  BY <1>1, <1>2
<1> HIDE DEF r
<1>6. ASSUME IsInjective(r)
      PROVE  IsInjective(s) /\ IsInjective(t) /\ Range(s) \cap Range(t) = {}
  <2>1. IsInjective(s)
    BY <1>3, <1>6 DEF IsInjective
  <2>2. IsInjective(t)
    <3>1. ASSUME NEW i \in DOMAIN t, NEW j \in DOMAIN t, t[i] = t[j]
          PROVE  i = j
      <4>1. Len(s) + i = Len(s) + j
        BY <1>4, <1>6, <3>1 DEF IsInjective
      <4>2. QED BY <1>1, <4>1
    <3>2. QED BY <3>1 DEF IsInjective
  <2>3. ASSUME NEW i \in DOMAIN s, NEW j \in DOMAIN t, s[i] = t[j]
        PROVE  FALSE
    <3>1. i = Len(s) + j
      BY <1>3, <1>4, <1>6, <2>3 DEF IsInjective
    <3>2. QED BY <1>1, <3>1
  <2>4. QED BY <2>1, <2>2, <2>3 DEF Range
<1>7. ASSUME IsInjective(s), IsInjective(t), Range(s) \cap Range(t) = {},
             NEW i \in DOMAIN r, NEW j \in DOMAIN r, r[i] = r[j]
      PROVE  i = j
  <2>1. \A m \in DOMAIN s, n \in DOMAIN t : s[m] # t[n]
    BY <1>7 DEF Range
  <2>2. CASE i \in DOMAIN s /\ j \in DOMAIN s
    BY <1>3, <1>7, <2>2 DEF IsInjective
  <2>3. CASE i - Len(s) \in DOMAIN t /\ j - Len(s) \in DOMAIN t
    <3>1. r[i] = t[i - Len(s)] /\ r[j] = t[j - Len(s)]
      BY <1>1, <1>2, <1>4, <1>5, <2>3
    <3>2. i - Len(s) = j - Len(s)
      BY <1>7, <2>3, <3>1 DEF IsInjective
    <3>3. QED BY <1>1, <1>2, <3>2
  <2>4. CASE i \in DOMAIN s /\ j - Len(s) \in DOMAIN t
    BY <1>1, <1>2, <1>3, <1>4, <1>7, <2>1, <2>4
  <2>5. CASE i - Len(s) \in DOMAIN t /\ j \in DOMAIN s
    BY <1>1, <1>2, <1>3, <1>4, <1>7, <2>1, <2>5
  <2>6. QED BY <1>5, <2>2, <2>3, <2>4, <2>5
<1>8. QED BY <1>6, <1>7 DEF IsInjective, r

(* Taking one element out of a sequence without repetitions.               *)
LEMMA RemoveAtInjective ==
  ASSUME NEW S, NEW s \in Seq(S), IsInjective(s), NEW i \in 1 .. Len(s)
  PROVE  /\ IsInjective(RemoveAt(s, i))
         /\ Range(RemoveAt(s, i)) = Range(s) \ {s[i]}
<1> DEFINE r == RemoveAt(s, i)
           at(n) == IF n < i THEN n ELSE n + 1
<1>1. Len(s) \in Nat /\ DOMAIN s = 1 .. Len(s)
  BY LenProperties
<1>2. DOMAIN r = 1 .. Len(s) - 1 /\ \A n \in DOMAIN r : r[n] = s[at(n)]
  BY RemoveAtFacts
<1> HIDE DEF r
<1>3. \A n \in DOMAIN r : at(n) \in DOMAIN s /\ at(n) # i
  BY <1>1, <1>2
<1>4. \A m, n \in DOMAIN r : at(m) = at(n) => m = n
  BY <1>1, <1>2
<1>5. \A m \in DOMAIN s \ {i} : \E n \in DOMAIN r : at(n) = m
  <2>1. TAKE m \in DOMAIN s \ {i}
  <2>2. CASE m < i
    BY <1>1, <1>2, <2>2
  <2>3. CASE m > i
    <3>1. m - 1 \in DOMAIN r /\ at(m - 1) = m
      BY <1>1, <1>2, <2>3
    <3>2. QED BY <3>1
  <2>4. QED BY <1>1, <2>2, <2>3
<1> HIDE DEF at
<1>6. IsInjective(r)
  BY <1>2, <1>3, <1>4 DEF IsInjective
<1>7. Range(r) \subseteq Range(s) \ {s[i]}
  BY <1>1, <1>2, <1>3 DEF IsInjective, Range
<1>8. Range(s) \ {s[i]} \subseteq Range(r)
  <2>1. ASSUME NEW m \in DOMAIN s, s[m] # s[i]
        PROVE  \E n \in DOMAIN r : r[n] = s[m]
    BY <1>2, <1>5, <2>1
  <2>2. QED BY <2>1 DEF Range
<1>9. QED BY <1>6, <1>7, <1>8 DEF r
=============================================================================
