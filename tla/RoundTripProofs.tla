-------------------------- MODULE RoundTripProofs --------------------------
(***************************************************************************)
(* What the writer writes, the reader reads back.                          *)
(*                                                                         *)
(* First the bytes of one integer; then the places of RoundTripInvariant,  *)
(* and that every step of the writer goes from one place to the next and   *)
(* hands over the bytes between them; then that every step of the reader   *)
(* takes the bytes that lead to the next place and goes there.  So none of *)
(* the steps in which a call fails is ever taken, and the pair implements  *)
(* the channel of Values.                                                  *)
(***************************************************************************)
EXTENDS RoundTripInvariant, StreamReaderProofs, StreamWriterProofs

-----------------------------------------------------------------------------
(* The bytes of an integer.                                                *)

(* The bytes bs, most significant first, are those shifted out of q[1].    *)
ShiftedOut(bs, w, q) ==
  /\ bs \in [1 .. w -> Byte] /\ q \in [1 .. 8 -> Int]
  /\ q[w] = bs[1]
  /\ \A k \in 1 .. w - 1 : q[k] = bs[w - k + 1] + 256 * q[k + 1]

LEMMA UnsignedSums ==
  ASSUME NEW w \in 1 .. 8, NEW bs, NEW q, ShiftedOut(bs, w, q)
  PROVE  Unsigned(bs) = q[1]
<1> USE DEF ShiftedOut
<1>0. \A k \in 1 .. w : bs[k] \in Int
  <2>1. \A x \in Byte : x \in Int
    BY DEF Byte
  <2>2. QED BY <2>1
<1>1. Len(bs) = w
  BY TableIsSeq
<1> DEFINE d(i) == IF i < w THEN bs[w - i] ELSE 0
           p(i) == IF i < w THEN q[i + 1] ELSE 0
<1>2. Unsigned(bs) = d(0) + 256 * (d(1) + 256 * (d(2) + 256 * (d(3) + 256 * (d(4)
                       + 256 * (d(5) + 256 * (d(6) + 256 * d(7)))))))
  BY <1>1 DEF Unsigned
<1>3. ASSUME NEW i \in 0 .. 7 PROVE p(i) = d(i) + 256 * p(i + 1)
  <2>1. CASE i < w - 1
    <3>1. i + 1 \in 1 .. w - 1 /\ w - (i + 1) + 1 = w - i /\ i < w /\ i + 1 < w
      BY <2>1
    <3>2. q[i + 1] = bs[w - i] + 256 * q[i + 1 + 1]
      BY <3>1
    <3>3. QED BY <3>1, <3>2
  <2>2. CASE i = w - 1
    <3>1. i + 1 = w /\ w - i = 1 /\ bs[1] \in Int
      BY <1>0, <2>2, SMTT(20)
    <3>2. p(i) = bs[1] /\ d(i) = bs[1]
      BY <2>2, <3>1, SMTT(20)
    <3>3. p(i + 1) = 0
      BY <3>1
    <3>4. QED BY <3>1, <3>2, <3>3, SMTT(20)
  <2>3. CASE i >= w
    BY <2>3
  <2>4. QED BY <2>1, <2>2, <2>3
<1>4. ASSUME NEW i \in 0 .. 8 PROVE d(i) \in Int /\ p(i) \in Int
  <2>1. i < w => w - i \in 1 .. w /\ i + 1 \in 1 .. 8
    BY SMTT(20)
  <2>2. i < w => bs[w - i] \in Int /\ q[i + 1] \in Int
    BY <1>0, <2>1, ZenonT(30)
  <2>3. QED BY <2>1, <2>2
<1>5. p(0) = q[1] /\ p(8) = 0
  OBVIOUS
<1> HIDE DEF d, p
<1>6. /\ d(0) \in Int /\ d(1) \in Int /\ d(2) \in Int /\ d(3) \in Int
      /\ d(4) \in Int /\ d(5) \in Int /\ d(6) \in Int /\ d(7) \in Int
      /\ p(0) \in Int /\ p(1) \in Int /\ p(2) \in Int /\ p(3) \in Int
      /\ p(4) \in Int /\ p(5) \in Int /\ p(6) \in Int /\ p(7) \in Int
  BY <1>4
<1>7. /\ p(0) = d(0) + 256 * p(1) /\ p(1) = d(1) + 256 * p(2)
      /\ p(2) = d(2) + 256 * p(3) /\ p(3) = d(3) + 256 * p(4)
      /\ p(4) = d(4) + 256 * p(5) /\ p(5) = d(5) + 256 * p(6)
      /\ p(6) = d(6) + 256 * p(7) /\ p(7) = d(7) + 256 * p(8)
  <2>1. /\ p(0) = d(0) + 256 * p(0 + 1) /\ p(1) = d(1) + 256 * p(1 + 1)
        /\ p(2) = d(2) + 256 * p(2 + 1) /\ p(3) = d(3) + 256 * p(3 + 1)
        /\ p(4) = d(4) + 256 * p(4 + 1) /\ p(5) = d(5) + 256 * p(5 + 1)
        /\ p(6) = d(6) + 256 * p(6 + 1) /\ p(7) = d(7) + 256 * p(7 + 1)
    BY <1>3
  <2>2. QED BY <2>1
<1>8. QED BY <1>2, <1>5, <1>6, <1>7

LEMMA SignedBack ==
  ASSUME NEW n \in Int, NEW w \in 1 .. 8, InRange(n, w)
  PROVE  Signed(BigEndian(n, w)) = n
<1> DEFINE q == Shifted(n)
           bs == BigEndian(n, w)
<1>1. /\ q[1] = n
      /\ \A k \in 1 .. 8 : q[k] \in Int /\ q[k] % 256 \in Byte
      /\ \A k \in 1 .. 7 : q[k] = (q[k] % 256) + 256 * q[k + 1]
      /\ \A k \in 1 .. 8 : n >= 0 <=> q[k] >= 0
      /\ q[w] \in -128 .. 127
  BY ShiftedFacts DEF InRange
<1>2. bs \in [1 .. w -> Byte] /\ \A i \in 1 .. w : bs[i] = q[w - i + 1] % 256
  <2>1. /\ bs \in Seq(Byte) /\ Len(bs) = w
        /\ \A i \in 1 .. w : bs[i] = q[w - i + 1] % 256
    BY BigEndianBytes, ZenonT(30)
  <2> HIDE DEF bs
  <2>2. QED BY <2>1
<1> HIDE DEF q, bs
<1>0. \A x \in Byte : x \in Int /\ x >= 0 /\ x <= 255 /\ 255 - x \in Byte
  BY DEF Byte
<1>01. \A x \in Int : /\ x \in 0 .. 127 => x % 256 = x
                     /\ x \in -128 .. -1 => x % 256 = x + 256
  BY SMT
<1>02. \A k \in 1 .. w - 1 : k + 1 \in 1 .. 8
  OBVIOUS
<1>3. \A k \in 1 .. w - 1 : /\ w - k + 1 \in 1 .. w /\ w - (w - k + 1) + 1 = k
                            /\ k \in 1 .. 7
  OBVIOUS
<1>4. \A k \in 1 .. w - 1 : q[k] = bs[w - k + 1] + 256 * q[k + 1]
  <2>1. SUFFICES ASSUME NEW k \in 1 .. w - 1
                 PROVE  q[k] = bs[w - k + 1] + 256 * q[k + 1]
    OBVIOUS
  <2>2. w - k + 1 \in 1 .. w /\ w - (w - k + 1) + 1 = k /\ k \in 1 .. 7
    BY <1>3
  <2>3. bs[w - k + 1] = q[w - (w - k + 1) + 1] % 256
    BY <1>2, <2>2
  <2>4. QED BY <1>1, <2>2, <2>3
<1>5. bs[1] = q[w] % 256 /\ Len(bs) = w
  <2>1. 1 \in 1 .. w /\ w - 1 + 1 = w
    OBVIOUS
  <2>2. QED BY <1>2, <2>1, TableIsSeq
<1>6. CASE n >= 0
  <2>1. q[w] \in 0 .. 127
    BY <1>1, <1>6, SMTT(20)
  <2> DEFINE x == q[w]
  <2> HIDE DEF x
  <2>11. x \in 0 .. 127 /\ bs[1] = x % 256
    BY <1>5, <2>1 DEF x
  <2>12. bs[1] = x /\ bs[1] < 128
    BY <2>11
  <2>2. bs[1] = q[w] /\ bs[1] < 128
    BY <2>12 DEF x
  <2> DEFINE r == [k \in 1 .. 8 |-> q[k]]
  <2>3. r \in [1 .. 8 -> Int] /\ r[w] = bs[1] /\ r[1] = n
    BY <1>1, <2>2
  <2>4. \A k \in 1 .. w - 1 : r[k] = bs[w - k + 1] + 256 * r[k + 1]
    BY <1>4, <1>3
  <2> HIDE DEF r
  <2>5. Unsigned(bs) = n
    <3>1. Unsigned(bs) = r[1]
      <4>1. ShiftedOut(bs, w, r)
        BY <1>2, <2>3, <2>4 DEF ShiftedOut
      <4>2. QED BY <4>1, UnsignedSums
    <3>2. QED BY <2>3, <3>1
  <2>6. QED BY <2>2, <2>5 DEF Signed, bs
<1>7. CASE n < 0
  <2>1. q[w] \in -128 .. -1
    BY <1>1, <1>7, SMTT(20)
  <2> DEFINE x == q[w]
  <2> HIDE DEF x
  <2>11. x \in -128 .. -1 /\ bs[1] = x % 256
    BY <1>5, <2>1 DEF x
  <2>12. bs[1] = x + 256 /\ bs[1] >= 128
    BY <2>11
  <2>2. bs[1] = q[w] + 256 /\ bs[1] >= 128
    BY <2>12 DEF x
  <2> DEFINE r == [k \in 1 .. 8 |-> -1 - q[k]]
             cs == [i \in 1 .. w |-> 255 - bs[i]]
  <2>3. cs \in [1 .. w -> Byte]
    BY <1>0, <1>2
  <2>31. cs[1] = 255 - bs[1]
    OBVIOUS
  <2>4. r \in [1 .. 8 -> Int] /\ r[w] = cs[1] /\ r[1] = -1 - n
    <3>1. r \in [1 .. 8 -> Int] /\ r[w] = -1 - q[w] /\ r[1] = -1 - q[1]
      BY <1>1
    <3>2. q[w] \in Int
      BY <2>1
    <3> HIDE DEF r, cs
    <3>3. -1 - q[w] = 255 - (q[w] + 256)
      BY <3>2
    <3>4. QED BY <1>1, <2>2, <2>31, <3>1, <3>3
  <2>5. \A k \in 1 .. w - 1 : r[k] = cs[w - k + 1] + 256 * r[k + 1]
    <3>1. SUFFICES ASSUME NEW k \in 1 .. w - 1
                   PROVE  -1 - q[k] = (255 - bs[w - k + 1]) + 256 * (-1 - q[k + 1])
      BY <1>3, SMTT(20)
    <3>2. q[k] = bs[w - k + 1] + 256 * q[k + 1]
      BY <1>4
    <3>3. q[k] \in Int /\ bs[w - k + 1] \in Int /\ q[k + 1] \in Int
      <4>1. bs[w - k + 1] \in Byte
        BY <1>2, <1>3
      <4>2. q[k] \in Int /\ q[k + 1] \in Int
        <5>1. k \in 1 .. 8 /\ k + 1 \in 1 .. 8
          OBVIOUS
        <5>2. \A j \in 1 .. 8 : q[j] \in Int
          BY <1>1
        <5>3. QED BY <5>1, <5>2
      <4>3. QED BY <1>0, <4>1, <4>2
    <3>4. QED BY <3>2, <3>3
  <2> HIDE DEF r
  <2>6. Unsigned(cs) = -1 - n
    <3> HIDE DEF cs
    <3>1. Unsigned(cs) = r[1]
      <4>1. ShiftedOut(cs, w, r)
        BY <2>3, <2>4, <2>5 DEF ShiftedOut
      <4>2. QED BY <4>1, UnsignedSums
    <3>2. QED BY <2>4, <3>1
  <2>7. Signed(bs) = -1 - Unsigned(cs)
    <3>1. ~(bs[1] < 128)
      BY <2>2, <2>11 DEF x
    <3>2. QED BY <1>5, <3>1 DEF Signed
  <2>8. QED BY <2>6, <2>7 DEF bs
<1>8. QED BY <1>6, <1>7

-----------------------------------------------------------------------------
(* Ways to the end of a Value.                                             *)

(* What continues from a place: nothing at the end, else a step and what   *)
(* continues from there.                                                   *)
LEMMA ContinuesOn ==
  ASSUME NEW p, NEW bs, Continues(p, bs)
  PROVE  /\ Placed(p) /\ bs \in Seq(Byte)
         /\ \/ AtEnd(p) /\ bs = <<>>
            \/ \E e, q, rest : /\ Emits(p, e, q) /\ e \in Seq(Byte)
                               /\ bs = e \o rest /\ Continues(q, rest)
<1>1. PICK W : Ways(W) /\ <<p, bs>> \in W
  BY DEF Continues
<1>2. /\ Placed(p) /\ bs \in Seq(Byte)
      /\ \/ AtEnd(p) /\ bs = <<>>
         \/ \E e, q, rest : /\ Emits(p, e, q) /\ e \in Seq(Byte)
                            /\ bs = e \o rest /\ <<q, rest>> \in W
  BY <1>1 DEF Ways
<1>3. \A q, rest : <<q, rest>> \in W => Continues(q, rest)
  BY <1>1 DEF Continues
<1>4. QED BY <1>2, <1>3

LEMMA ContinuesAtEnd ==
  ASSUME NEW p, Placed(p), AtEnd(p)
  PROVE  Continues(p, <<>>)
<1> DEFINE W == {<<p, <<>>>>}
<1>1. Ways(W)
  <2>1. SUFFICES ASSUME NEW q, NEW bs, <<q, bs>> \in W
                 PROVE  /\ Placed(q) /\ bs \in Seq(Byte)
                        /\ AtEnd(q) /\ bs = <<>>
    BY DEF Ways
  <2>2. q = p /\ bs = <<>>
    BY <2>1
  <2>3. QED BY <2>2
<1>2. QED BY <1>1 DEF Continues

LEMMA ContinuesFrom ==
  ASSUME NEW p, Placed(p), NEW e \in Seq(Byte), NEW q, Emits(p, e, q),
         NEW rest, Continues(q, rest)
  PROVE  Continues(p, e \o rest)
<1>1. PICK W : Ways(W) /\ <<q, rest>> \in W
  BY DEF Continues
<1>2. rest \in Seq(Byte)
  BY <1>1 DEF Ways
<1> DEFINE bs == e \o rest
<1>3. bs \in Seq(Byte)
  BY <1>2
<1> HIDE DEF bs
<1> DEFINE V == W \cup {<<p, bs>>}
<1>4. Ways(V)
  <2>1. SUFFICES ASSUME NEW r, NEW cs, <<r, cs>> \in V
                 PROVE  /\ Placed(r) /\ cs \in Seq(Byte)
                        /\ \/ AtEnd(r) /\ cs = <<>>
                           \/ \E f, s, others : /\ Emits(r, f, s) /\ f \in Seq(Byte)
                                                /\ cs = f \o others /\ <<s, others>> \in V
    BY DEF Ways
  <2>2. CASE <<r, cs>> \in W
    <3>1. /\ Placed(r) /\ cs \in Seq(Byte)
          /\ \/ AtEnd(r) /\ cs = <<>>
             \/ \E f, s, others : /\ Emits(r, f, s) /\ f \in Seq(Byte)
                                  /\ cs = f \o others /\ <<s, others>> \in W
      BY <1>1, <2>2 DEF Ways
    <3>2. QED BY <3>1
  <2>3. CASE r = p /\ cs = bs
    <3>1. Emits(p, e, q) /\ cs = e \o rest /\ <<q, rest>> \in V
      BY <1>1, <2>3 DEF bs
    <3>2. QED BY <1>3, <2>3, <3>1
  <2>4. QED BY <2>1, <2>2, <2>3
<1>5. QED BY <1>4 DEF Continues, bs

LEMMA CarriesNothing == Carries(<<>>, <<>>)
<1> DEFINE C == {<<<<>>, <<>>>>}
<1>1. Chains(C)
  BY DEF Chains
<1>2. QED BY <1>1 DEF Carries

LEMMA CarriesHead ==
  ASSUME NEW ms, NEW bs, Carries(ms, bs)
  PROVE  \/ ms = <<>> /\ bs = <<>>
         \/ /\ ms # <<>>
            /\ \E first, others :
                 /\ IsSentAs(Head(ms), first) /\ others \in Seq(Byte)
                 /\ bs = first \o others /\ Carries(Tail(ms), others)
<1>1. PICK C : Chains(C) /\ <<ms, bs>> \in C
  BY DEF Carries
<1>2. \/ ms = <<>> /\ bs = <<>>
      \/ /\ ms # <<>>
         /\ \E first, others :
              /\ IsSentAs(Head(ms), first) /\ others \in Seq(Byte)
              /\ bs = first \o others /\ <<Tail(ms), others>> \in C
  BY <1>1 DEF Chains
<1>3. \A ns, others : <<ns, others>> \in C => Carries(ns, others)
  BY <1>1 DEF Carries
<1>4. QED BY <1>2, <1>3

LEMMA ConcatThree ==
  ASSUME NEW S, NEW r \in Seq(S), NEW s \in Seq(S), NEW t \in Seq(S)
  PROVE  /\ (r \o s) \o t = r \o (s \o t)
         /\ s \o t \in Seq(S) /\ r \o s \in Seq(S)
  OBVIOUS

LEMMA MovedIn ==
  ASSUME NEW S, NEW r \in Seq(S), NEW s \in Seq(S), NEW t \in Seq(S), NEW u, u = r \o s,
         NEW v, v = u \o t
  PROVE  v = r \o (s \o t) /\ s \o t \in Seq(S)
<1>1. (r \o s) \o t = r \o (s \o t) /\ s \o t \in Seq(S)
  BY ConcatThree, SMTT(30)
<1>2. QED BY <1>1

LEMMA CarriesTyped ==
  ASSUME NEW ms, NEW bs, Carries(ms, bs)
  PROVE  bs \in Seq(Byte)
<1>1. CASE ms = <<>> /\ bs = <<>>
  BY <1>1
<1>2. CASE ms # <<>>
  <2>1. PICK first, others :
          /\ IsSentAs(Head(ms), first) /\ others \in Seq(Byte)
          /\ bs = first \o others /\ Carries(Tail(ms), others)
    BY <1>2, CarriesHead
  <2>2. first \in Seq(Byte)
    BY <2>1, ContinuesOn DEF IsSentAs, Encodes
  <2>3. QED BY <2>1, <2>2
<1>3. QED BY <1>1, <1>2, CarriesHead

LEMMA CarriesOneMore ==
  ASSUME NEW ms \in Seq(Messages), NEW bs, Carries(ms, bs),
         NEW m \in Messages, NEW cs, IsSentAs(m, cs)
  PROVE  Carries(Append(ms, m), bs \o cs)
<1>1. PICK C : Chains(C) /\ <<ms, bs>> \in C
  BY DEF Carries
<1>2. cs \in Seq(Byte) /\ bs \in Seq(Byte)
  BY ContinuesOn, CarriesTyped DEF IsSentAs, Encodes
<1> DEFINE More(ns, ds) == \E ks \in Seq(Messages), es \in Seq(Byte) :
                             /\ <<ks, es>> \in C
                             /\ ns = Append(ks, m) /\ ds = es \o cs
           D == {u \in Seq(Messages) \X Seq(Byte) : u = <<<<>>, <<>>>> \/ More(u[1], u[2])}
<1>0. \A ns \in Seq(Messages), ds \in Seq(Byte) :
        <<ns, ds>> \in D <=> ((ns = <<>> /\ ds = <<>>) \/ More(ns, ds))
  <2> HIDE DEF More
  <2>1. QED OBVIOUS
<1>01. \A ns, ds : <<ns, ds>> \in D => ns \in Seq(Messages) /\ ds \in Seq(Byte)
  OBVIOUS
<1> HIDE DEF D
<1>3. ASSUME NEW ns, NEW ds, <<ns, ds>> \in D
      PROVE  \/ ns = <<>> /\ ds = <<>>
             \/ /\ ns # <<>>
                /\ \E first, others :
                     /\ IsSentAs(Head(ns), first) /\ others \in Seq(Byte)
                     /\ ds = first \o others /\ <<Tail(ns), others>> \in D
  <2>0. ns \in Seq(Messages) /\ ds \in Seq(Byte)
    BY <1>01, <1>3
  <2>1. CASE ns = <<>> /\ ds = <<>>
    BY <2>1
  <2>2. CASE ~(ns = <<>> /\ ds = <<>>)
    <3>0. More(ns, ds)
      BY <1>3, <1>0, <2>0, <2>2
    <3>2. PICK ks \in Seq(Messages), es \in Seq(Byte) :
            <<ks, es>> \in C /\ ns = Append(ks, m) /\ ds = es \o cs
      BY <3>0
    <3> HIDE DEF More
    <3>3. ns # <<>>
      BY <3>2, AppendFacts
    <3>4. CASE ks = <<>>
      <4>1. es = <<>>
        BY <1>1, <3>2, <3>4 DEF Chains
      <4>2. ds = cs /\ ds = cs \o <<>>
        BY <1>2, <3>2, <4>1, ConcatEmptySeq
      <4>3. Head(ns) = m /\ Tail(ns) = <<>>
        BY <3>2, <3>4, HeadTailAppend
      <4>4. <<Tail(ns), <<>>>> \in D
        <5>1. <<>> \in Seq(Messages) /\ <<>> \in Seq(Byte)
          OBVIOUS
        <5>2. QED BY <1>0, <4>3, <5>1
      <4>5. IsSentAs(Head(ns), cs) /\ <<>> \in Seq(Byte)
        BY <4>3
      <4>6. QED BY <3>3, <4>2, <4>4, <4>5
    <3>5. CASE ks # <<>>
      <4>1. PICK first, others :
              /\ IsSentAs(Head(ks), first) /\ others \in Seq(Byte)
              /\ es = first \o others /\ <<Tail(ks), others>> \in C
        BY <1>1, <3>2, <3>5 DEF Chains
      <4>2. Head(ns) = Head(ks) /\ Tail(ks) \in Seq(Messages) /\ Tail(ns) = Append(Tail(ks), m)
        BY <3>2, <3>5, HeadTailAppend, HeadTailProperties
      <4>3. first \in Seq(Byte)
        BY <4>1, ContinuesOn DEF IsSentAs, Encodes
      <4>4. ds = first \o (others \o cs) /\ others \o cs \in Seq(Byte)
        <5>1. others \in Seq(Byte) /\ es = first \o others
          BY <4>1
        <5>2. QED BY <1>2, <3>2, <4>3, <5>1, MovedIn, SMTT(60)
      <4>5. <<Tail(ns), others \o cs>> \in D
        <5>1. More(Tail(ns), others \o cs)
          BY <4>1, <4>2 DEF More
        <5>2. Tail(ns) \in Seq(Messages)
          <6> DEFINE ts == Tail(ks)
          <6> HIDE DEF ts
          <6>1. ts \in Seq(Messages)
            BY <4>2 DEF ts
          <6>2. Append(ts, m) \in Seq(Messages)
            BY <6>1, AppendProperties
          <6>3. QED BY <4>2, <6>2, Zenon DEF ts
        <5>3. QED BY <1>0, <5>1, <5>2, <4>4
      <4>6. QED BY <3>3, <4>1, <4>2, <4>4, <4>5
    <3>6. QED BY <3>4, <3>5
  <2>3. QED BY <2>1, <2>2
<1>4. Chains(D)
  BY <1>3 DEF Chains
<1>5. <<Append(ms, m), bs \o cs>> \in D
  <2>1. More(Append(ms, m), bs \o cs)
    BY <1>1, <1>2
  <2>2. Append(ms, m) \in Seq(Messages) /\ bs \o cs \in Seq(Byte)
    BY <1>2
  <2> HIDE DEF More
  <2>3. QED BY <1>0, <2>1, <2>2
<1>6. QED BY <1>4, <1>5 DEF Carries

-----------------------------------------------------------------------------
(* Places in a Value.                                                      *)

(* A container of the Value that has been entered.                         *)
LEMMA LevelFacts ==
  ASSUME NEW l, LevelOK(l)
  PROVE  /\ l \in Level /\ l.of \in Nodes /\ WellFormed(l.of)
         /\ l.i \in Nat /\ l.keys \subseteq Seq(Byte) /\ l.key \in Seq(Byte)
         /\ l.of.type = "Array" \/ l.of.type = "Map"
         /\ l.of.type = "Array" => l.of.Array \in Seq(Nodes) /\ l.i <= Len(l.of.Array)
         /\ l.of.type = "Map" => /\ l.keys \subseteq DOMAIN l.of.Map
                                 /\ DOMAIN l.of.Map \subseteq Seq(Byte)
                                 /\ \A k \in DOMAIN l.of.Map : l.of.Map[k] \in Nodes
         /\ Begun(l) => Item(l) \in Nodes
<1>1. /\ l \in Level /\ l.of \in Nodes
      /\ l.i \in Nat /\ l.keys \subseteq Seq(Byte) /\ l.key \in Seq(Byte)
      /\ l.of.type = "Array" \/ l.of.type = "Map"
  BY DEF LevelOK, Level
<1>2. WellFormed(l.of)
  BY <1>1, WriterAssumption
<1> DEFINE v == l.of
<1>3. v.type = "Array" => v.Array \in Seq(Nodes)
  BY <1>2 DEF WellFormed
<1>4. v.type = "Map" => /\ DOMAIN v.Map \subseteq Seq(Byte)
                        /\ \A k \in DOMAIN v.Map : v.Map[k] \in Nodes
  BY <1>2 DEF WellFormed
<1>5. v.type = "Array" => l.i <= Len(v.Array)
  BY DEF LevelOK
<1>6. v.type = "Map" => l.keys \subseteq DOMAIN v.Map
  BY DEF LevelOK
<1>7. ASSUME Begun(l) PROVE Item(l) \in Nodes
  <2>1. CASE v.type = "Array"
    <3>1. l.i >= 1 /\ Item(l) = v.Array[l.i]
      BY <1>7, <2>1 DEF Begun, Item
    <3>2. l.i \in 1 .. Len(v.Array)
      BY <1>1, <1>3, <1>5, <2>1, <3>1, LenProperties
    <3>3. QED BY <1>3, <2>1, <3>1, <3>2, ElementOfSeq
  <2>2. CASE v.type = "Map"
    <3>1. l.key \in DOMAIN v.Map /\ Item(l) = v.Map[l.key]
      BY <1>7, <2>2 DEF Begun, Item
    <3>2. QED BY <1>4, <2>2, <3>1
  <2>3. QED BY <1>1, <2>1, <2>2
<1>8. QED BY <1>1, <1>2, <1>3, <1>4, <1>5, <1>6, <1>7

LEMMA PlaceFacts ==
  ASSUME NEW p, Placed(p)
  PROVE  /\ p = At(p.root, p.path, p.mode)
         /\ p.root \in Nodes /\ p.path \in Seq(Level) /\ p.mode \in Modes
         /\ Len(p.path) \in Nat /\ Len(p.path) <= MaxDepth
         /\ p.mode = "next" => p.path # <<>>
         /\ p.path # <<>> <=> Len(p.path) > 0
         /\ \A n \in 1 .. Len(p.path) : Linked(p, n)
         /\ p.path # <<>> => /\ LevelOK(Innermost(p)) /\ Innermost(p) \in Level
                             /\ Linked(p, Len(p.path))
                             /\ p.mode # "next" => Begun(Innermost(p))
         /\ p.mode # "next" => Current(p) \in Nodes
<1>1. /\ p = At(p.root, p.path, p.mode)
      /\ p.root \in Nodes /\ p.path \in Seq(Level) /\ p.mode \in Modes
      /\ Len(p.path) <= MaxDepth
      /\ p.mode = "next" => p.path # <<>>
      /\ \A n \in 1 .. Len(p.path) : Linked(p, n)
  BY DEF Placed
<1>2. Len(p.path) \in Nat /\ (p.path # <<>> <=> Len(p.path) > 0)
  BY <1>1, LenProperties, EmptySeq
<1>3. ASSUME p.path # <<>>
      PROVE  /\ LevelOK(Innermost(p)) /\ Innermost(p) \in Level
             /\ Linked(p, Len(p.path))
             /\ p.mode # "next" => Begun(Innermost(p))
  <2>1. Len(p.path) \in 1 .. Len(p.path)
    BY <1>2, <1>3
  <2>2. Linked(p, Len(p.path))
    BY <1>1, <2>1
  <2>3. QED BY <2>2, LevelFacts DEF Linked, Innermost, Busy
<1>4. p.mode # "next" => Current(p) \in Nodes
  BY <1>1, <1>3, LevelFacts DEF Current
<1>5. QED BY <1>1, <1>2, <1>3, <1>4

(* A place is known by its three parts.                                    *)
LEMMA AtParts ==
  ASSUME NEW r, NEW s, NEW m, NEW q, q = At(r, s, m)
  PROVE  q.root = r /\ q.path = s /\ q.mode = m /\ q = At(q.root, q.path, q.mode)
BY DEF At

Agree(s, t, n) == \A i \in 1 .. n : t[i] = s[i]

LEMMA ReplaceFacts ==
  ASSUME NEW s \in Seq(Level), s # <<>>, NEW l \in Level, NEW t, t = Replace(s, l)
  PROVE  /\ t \in Seq(Level) /\ Len(t) = Len(s) /\ t # <<>>
         /\ t[Len(s)] = l
         /\ Agree(s, t, Len(s) - 1)
<1>1. Len(s) \in Nat /\ Len(s) > 0
  BY LenProperties, EmptySeq
<1>2. Len(s) \in 1 .. Len(s)
  BY <1>1
<1>3. t \in Seq(Level) /\ Len(t) = Len(s)
  BY <1>2, ExceptSeq DEF Replace
<1>4. t[Len(s)] = l /\ Agree(s, t, Len(s) - 1)
  BY <1>1, <1>2 DEF Replace, Agree
<1>5. t # <<>>
  BY <1>1, <1>3
<1>6. QED BY <1>3, <1>4, <1>5

LEMMA OpenedFacts ==
  ASSUME NEW v \in Nodes, v.type \in {"Array", "Map"}
  PROVE  LevelOK(Opened(v)) /\ Opened(v).of = v
<1>1. WellFormed(v)
  BY WriterAssumption
<1>2. CASE v.type = "Array"
  <2>1. Opened(v) = [of |-> v, i |-> 0, keys |-> {}, key |-> <<>>]
    BY <1>2 DEF Opened
  <2>2. v.Array \in Seq(Nodes) /\ 0 <= Len(v.Array)
    BY <1>1, <1>2, LenProperties DEF WellFormed
  <2>3. QED BY <1>2, <2>1, <2>2 DEF LevelOK, Level
<1>3. CASE v.type = "Map"
  <2>1. Opened(v) = [of |-> v, i |-> 0, keys |-> DOMAIN v.Map, key |-> <<>>]
    BY <1>3 DEF Opened
  <2>2. DOMAIN v.Map \subseteq Seq(Byte)
    BY <1>1, <1>3 DEF WellFormed
  <2>3. QED BY <1>3, <2>1, <2>2 DEF LevelOK, Level
<1>4. QED BY <1>2, <1>3

LEMMA PlacedScalar ==
  ASSUME NEW p, Placed(p), NEW e, NEW q, EmitsScalar(p, e, q)
  PROVE  Placed(q) /\ q.root = p.root /\ q.path = p.path /\ q.mode = "return"
<1>1. q.root = p.root /\ q.path = p.path /\ q.mode = "return" /\ p.mode = "append"
      /\ q = At(q.root, q.path, q.mode)
  BY AtParts DEF EmitsScalar
<1>2. \A n \in 1 .. Len(q.path) : Linked(q, n)
  BY <1>1 DEF Placed, Linked, Busy
<1>3. QED BY <1>1, <1>2 DEF Placed, Modes

LEMMA PlacedStart ==
  ASSUME NEW p, Placed(p), NEW e, NEW q, EmitsStart(p, e, q), Len(q.path) <= MaxDepth
  PROVE  /\ Placed(q) /\ q.root = p.root /\ q.mode = "next"
         /\ q.path = Append(p.path, Opened(Current(p)))
         /\ Innermost(q) = Opened(Current(p))
<1> DEFINE l == Opened(Current(p))
           N == Len(p.path)
<1> DEFINE path == Append(p.path, l)
<1>0. /\ q = At(p.root, path, "next") /\ p.mode = "append"
      /\ Current(p).type \in {"Array", "Map"}
  BY DEF EmitsStart
<1>1. /\ q.root = p.root /\ q.path = Append(p.path, l) /\ q.mode = "next"
      /\ p.mode = "append" /\ q = At(q.root, q.path, q.mode)
      /\ Current(p).type \in {"Array", "Map"}
  <2> HIDE DEF path
  <2>1. q.root = p.root /\ q.path = path /\ q.mode = "next" /\ q = At(q.root, q.path, q.mode)
    BY <1>0, AtParts
  <2>2. QED BY <1>0, <2>1 DEF path
<1> HIDE DEF path
<1>2. /\ p.root \in Nodes /\ p.path \in Seq(Level) /\ N \in Nat
      /\ Current(p) \in Nodes /\ (p.path # <<>> <=> N > 0)
      /\ \A n \in 1 .. N : Linked(p, n)
  BY <1>1, PlaceFacts
<1>3. LevelOK(l) /\ l.of = Current(p) /\ l \in Level
  BY <1>1, <1>2, OpenedFacts DEF LevelOK
<1> HIDE DEF l
<1>4. /\ q.path \in Seq(Level) /\ Len(q.path) = N + 1 /\ q.path # <<>>
      /\ \A n \in 1 .. N : q.path[n] = p.path[n]
      /\ q.path[N + 1] = l
  BY <1>1, <1>2, <1>3, AppendFacts
<1>5. ASSUME NEW n \in 1 .. Len(q.path) PROVE Linked(q, n)
  <2>1. CASE n \in 1 .. N
    <3>1. Linked(p, n) /\ Busy(p, n) /\ q.path[n] = p.path[n]
      BY <1>1, <1>2, <1>4, <2>1 DEF Busy
    <3>2. n # 1 => q.path[n - 1] = p.path[n - 1]
      BY <1>2, <1>4, <2>1
    <3>3. QED BY <1>1, <3>1, <3>2 DEF Linked
  <2>2. CASE n = N + 1
    <3>1. ~Busy(q, n)
      BY <1>1, <1>2, <1>4, <2>2 DEF Busy
    <3>2. l.of = IF n = 1 THEN q.root ELSE Item(q.path[n - 1])
      <4>1. CASE p.path = <<>>
        <5>1. n = 1
          BY <1>2, <2>2, <4>1
        <5>2. QED BY <1>1, <1>3, <4>1, <5>1 DEF Current
      <4>2. CASE p.path # <<>>
        <5>1. n # 1 /\ n - 1 = N /\ N \in 1 .. N
          BY <1>2, <2>2, <4>2
        <5>2. Current(p) = Item(p.path[N])
          BY <4>2 DEF Current, Innermost
        <5>3. QED BY <1>3, <1>4, <5>1, <5>2
      <4>3. QED BY <4>1, <4>2
    <3>3. QED BY <1>3, <1>4, <2>2, <3>1, <3>2 DEF Linked
  <2>3. QED BY <1>2, <1>4, <2>1, <2>2
<1>6. Placed(q)
  BY <1>1, <1>2, <1>4, <1>5 DEF Placed, Modes
<1>7. Innermost(q) = l
  BY <1>4 DEF Innermost
<1>8. QED BY <1>1, <1>6, <1>7 DEF l

(* The item of the innermost container becomes another one.                *)
LEMMA PlacedReplace ==
  ASSUME NEW p, Placed(p), p.mode = "next",
         NEW l, LevelOK(l), Begun(l), l.of = Innermost(p).of,
         NEW q, q = At(p.root, Replace(p.path, l), "append")
  PROVE  /\ Placed(q) /\ q.root = p.root /\ q.mode = "append"
         /\ q.path = Replace(p.path, l) /\ Len(q.path) = Len(p.path)
         /\ q.path # <<>> /\ q.path[Len(p.path)] = l
         /\ \A n \in 1 .. Len(p.path) - 1 : q.path[n] = p.path[n]
         /\ Innermost(q) = l /\ Current(q) = Item(l)
<1> DEFINE N == Len(p.path)
<1>1. /\ q.root = p.root /\ q.path = Replace(p.path, l) /\ q.mode = "append"
      /\ q = At(q.root, q.path, q.mode)
  BY AtParts
<1>2. /\ p.root \in Nodes /\ p.path \in Seq(Level) /\ N \in Nat /\ N > 0
      /\ N <= MaxDepth /\ p.path # <<>>
      /\ \A n \in 1 .. N : Linked(p, n)
  BY PlaceFacts
<1>3. l \in Level
  BY DEF LevelOK
<1>4. /\ q.path \in Seq(Level) /\ Len(q.path) = N /\ q.path # <<>>
      /\ q.path[N] = l
      /\ \A n \in 1 .. N - 1 : q.path[n] = p.path[n]
  <2> DEFINE s == p.path
             t == q.path
  <2>1. s \in Seq(Level) /\ s # <<>> /\ t = Replace(s, l) /\ N = Len(s)
    BY <1>1, <1>2
  <2> HIDE DEF s, t, N
  <2>2. /\ t \in Seq(Level) /\ Len(t) = N /\ t # <<>>
        /\ t[N] = l
        /\ \A n \in 1 .. N - 1 : t[n] = s[n]
    <3>1. /\ t \in Seq(Level) /\ Len(t) = Len(s) /\ t # <<>>
          /\ t[Len(s)] = l
          /\ \A n \in 1 .. Len(s) - 1 : t[n] = s[n]
      <4>1. s \in Seq(Level) /\ s # <<>> /\ t = Replace(s, l) /\ l \in Level
        BY <1>3, <2>1
      <4>2. t \in Seq(Level) /\ Len(t) = Len(s) /\ t # <<>>
        BY <4>1, ReplaceFacts
      <4>3. t[Len(s)] = l
        BY <4>1, ReplaceFacts
      <4>4. \A n \in 1 .. Len(s) - 1 : t[n] = s[n]
        <5>1. Agree(s, t, Len(s) - 1)
          BY <4>1, ReplaceFacts
        <5>2. QED BY <5>1 DEF Agree
      <4>5. QED BY <4>2, <4>3, <4>4
    <3>2. QED BY <2>1, <3>1
  <2>3. QED BY <2>2 DEF s, t
<1>5. ASSUME NEW n \in 1 .. Len(q.path) PROVE Linked(q, n)
  <2>1. n # 1 => q.path[n - 1] = p.path[n - 1]
    BY <1>2, <1>4
  <2>2. Linked(p, n)
    BY <1>2, <1>4
  <2>3. CASE n \in 1 .. N - 1
    <3>1. Busy(p, n) /\ q.path[n] = p.path[n]
      BY <1>2, <1>4, <2>3 DEF Busy
    <3>2. QED BY <1>1, <2>1, <2>2, <3>1 DEF Linked
  <2>4. CASE n = N
    <3>1. q.path[n] = l /\ p.path[n].of = l.of
      BY <1>4, <2>4 DEF Innermost
    <3>2. QED BY <1>1, <2>1, <2>2, <3>1 DEF Linked
  <2>5. QED BY <1>2, <1>4, <2>3, <2>4
<1>6. Placed(q)
  BY <1>1, <1>2, <1>4, <1>5 DEF Placed, Modes
<1>7. Innermost(q) = l /\ Current(q) = Item(l)
  BY <1>4 DEF Innermost, Current
<1>8. QED BY <1>1, <1>4, <1>6, <1>7

LEMMA NextIndexFacts ==
  ASSUME NEW l, LevelOK(l), l.of.type = "Array", ~AllBegun(l)
  PROVE  /\ LevelOK(NextIndex(l)) /\ Begun(NextIndex(l)) /\ NextIndex(l).of = l.of
         /\ NextIndex(l).i = l.i + 1 /\ NextIndex(l).keys = l.keys
         /\ NextIndex(l).key = l.key
         /\ l.i + 1 <= Len(l.of.Array) /\ l.i + 1 \in DOMAIN l.of.Array
         /\ Item(NextIndex(l)) = l.of.Array[l.i + 1]
<1> DEFINE m == NextIndex(l)
<1>1. /\ l \in Level /\ l.i \in Nat /\ l.i <= Len(l.of.Array)
      /\ l.of.Array \in Seq(Nodes)
  BY LevelFacts
<1>2. Len(l.of.Array) \in Nat /\ DOMAIN l.of.Array = 1 .. Len(l.of.Array)
  BY <1>1, LenProperties
<1>3. l.i # Len(l.of.Array)
  BY DEF AllBegun
<1>4. /\ m \in Level /\ m.of = l.of /\ m.i = l.i + 1
      /\ m.keys = l.keys /\ m.key = l.key
  BY <1>1 DEF NextIndex, Level
<1>5. l.i + 1 <= Len(l.of.Array) /\ l.i + 1 \in DOMAIN l.of.Array /\ m.i >= 1
  BY <1>1, <1>2, <1>3, <1>4
<1> HIDE DEF m
<1>6. LevelOK(m) /\ Begun(m) /\ Item(m) = l.of.Array[l.i + 1]
  BY <1>4, <1>5 DEF LevelOK, Begun, Item
<1>7. QED BY <1>4, <1>5, <1>6 DEF m

LEMMA TakeKeyFacts ==
  ASSUME NEW l, LevelOK(l), l.of.type = "Map", NEW k \in l.keys
  PROVE  /\ LevelOK(TakeKey(l, k)) /\ Begun(TakeKey(l, k)) /\ TakeKey(l, k).of = l.of
         /\ TakeKey(l, k).i = l.i /\ TakeKey(l, k).keys = l.keys \ {k}
         /\ TakeKey(l, k).key = k
         /\ k \in Seq(Byte) /\ k \in DOMAIN l.of.Map
         /\ Item(TakeKey(l, k)) = l.of.Map[k]
<1> DEFINE m == TakeKey(l, k)
<1>1. /\ l \in Level /\ l.keys \subseteq DOMAIN l.of.Map
      /\ DOMAIN l.of.Map \subseteq Seq(Byte) /\ l.keys \subseteq Seq(Byte)
  BY LevelFacts
<1>2. k \in Seq(Byte) /\ k \in DOMAIN l.of.Map
  BY <1>1
<1>3. /\ m \in Level /\ m.of = l.of /\ m.i = l.i
      /\ m.keys = l.keys \ {k} /\ m.key = k
  BY <1>1, <1>2 DEF TakeKey, Level
<1> HIDE DEF m
<1>4. LevelOK(m) /\ Begun(m) /\ Item(m) = l.of.Map[k]
  BY <1>1, <1>2, <1>3 DEF LevelOK, Begun, Item
<1>5. QED BY <1>2, <1>3, <1>4 DEF m

LEMMA PlacedEnd ==
  ASSUME NEW p, Placed(p), p.mode = "next",
         NEW q, q = At(p.root, Outer(p.path), "return")
  PROVE  /\ Placed(q) /\ q.root = p.root /\ q.mode = "return"
         /\ q.path = Outer(p.path) /\ Len(q.path) = Len(p.path) - 1
         /\ \A n \in 1 .. Len(p.path) - 1 : q.path[n] = p.path[n]
         /\ Current(q) = Innermost(p).of
<1> DEFINE N == Len(p.path)
<1>1. /\ q.root = p.root /\ q.path = Outer(p.path) /\ q.mode = "return"
      /\ q = At(q.root, q.path, q.mode)
  BY AtParts
<1>2. /\ p.root \in Nodes /\ p.path \in Seq(Level) /\ N \in Nat /\ N > 0
      /\ N <= MaxDepth /\ p.path # <<>>
      /\ \A n \in 1 .. N : Linked(p, n)
  BY PlaceFacts
<1>3. q.path \in Seq(Level) /\ Len(q.path) = N - 1
      /\ \A n \in 1 .. N - 1 : q.path[n] = p.path[n]
  BY <1>1, <1>2, FrontFacts, SMTT(30) DEF Outer
<1>4. ASSUME NEW n \in 1 .. Len(q.path) PROVE Linked(q, n)
  <2>1. /\ n # 1 => q.path[n - 1] = p.path[n - 1]
        /\ Linked(p, n) /\ Busy(p, n) /\ q.path[n] = p.path[n]
    BY <1>2, <1>3 DEF Busy
  <2>2. QED BY <1>1, <2>1 DEF Linked
<1>5. Len(q.path) <= MaxDepth
  BY <1>2, <1>3, ReaderAssumption
<1>6. Placed(q)
  BY <1>1, <1>2, <1>3, <1>4, <1>5 DEF Placed, Modes
<1>7. Current(q) = Innermost(p).of
  <2>1. Linked(p, N)
    BY <1>2
  <2>2. CASE N = 1
    <3>1. q.path = <<>>
      BY <1>3, <2>2, EmptySeq
    <3>2. QED BY <1>1, <2>1, <2>2, <3>1 DEF Current, Innermost, Linked
  <2>3. CASE N # 1
    <3>1. q.path # <<>> /\ Innermost(q) = p.path[N - 1]
      <4>1. Len(q.path) = N - 1 /\ N - 1 > 0 /\ N - 1 \in 1 .. N - 1
        <5>1. Len(q.path) = N - 1 /\ N \in Nat /\ N > 0
          BY <1>2, <1>3
        <5> HIDE DEF N
        <5>2. QED BY <2>3, <5>1
      <4>2. q.path # <<>>
        BY <4>1
      <4>3. QED BY <1>3, <4>1, <4>2 DEF Innermost
    <3>2. QED BY <2>1, <2>3, <3>1 DEF Current, Innermost, Linked
  <2>4. QED BY <2>2, <2>3
<1>8. QED BY <1>1, <1>3, <1>6, <1>7

LEMMA PlacedCollects ==
  ASSUME NEW p, Placed(p), NEW e, NEW q, Collects(p, e, q)
  PROVE  Placed(q) /\ q.root = p.root /\ q.path = p.path /\ q.mode = "next"
<1>1. /\ q.root = p.root /\ q.path = p.path /\ q.mode = "next" /\ p.mode = "return"
      /\ p.path # <<>> /\ q = At(q.root, q.path, q.mode)
  BY AtParts DEF Collects
<1>2. \A n \in 1 .. Len(q.path) : Linked(q, n)
  BY <1>1 DEF Placed, Linked, Busy
<1>3. QED BY <1>1, <1>2 DEF Placed, Modes

-----------------------------------------------------------------------------
(* The writer goes from place to place.                                    *)

(* What the stream of the writer takes, the stream of the reader holds.    *)
LEMMA TransferAll ==
  ASSUME WTypeOK, Len(out) = offered, NEW bs \in Seq(Byte), Write(bs),
         offered' <= Capacity, Transfer, stream \in Seq(Byte)
  PROVE  /\ stream' = stream \o bs /\ Len(out') = offered'
         /\ offered' = offered + Len(bs)
<1>1. out \in Seq(Byte) /\ offered \in Nat /\ Len(bs) \in Nat /\ Len(out) \in Nat
  BY LenProperties DEF WTypeOK
<1>2. offered' = offered + Len(bs)
  BY DEF Write
<1>3. Len(bs) <= Capacity - Len(out)
  BY <1>1, <1>2, WriterAssumption
<1>4. out' = out \o SubSeq(bs, 1, Len(bs))
  BY <1>3 DEF Write
<1>5. SubSeq(bs, 1, Len(bs)) = bs
  BY SubSeqFull
<1>6. out' = out \o bs
  BY <1>4, <1>5
<1>7. Len(out') = Len(out) + Len(bs)
  BY <1>1, <1>6, ConcatProperties
<1>8. SubSeq(out', Len(out) + 1, Len(out')) = bs
  BY <1>1, <1>6, <1>7, SubSeqOfConcat2
<1>9. QED BY <1>1, <1>2, <1>7, <1>8 DEF Transfer

LEMMA TransferNothing ==
  ASSUME WTypeOK, Len(out) = offered, UNCHANGED <<out, offered>>, Transfer,
         stream \in Seq(Byte)
  PROVE  /\ stream' = stream \o <<>> /\ Len(out') = offered'
         /\ offered' = offered + Len(<<>>)
<1>1. out \in Seq(Byte) /\ offered \in Nat /\ Len(out) \in Nat
  BY LenProperties DEF WTypeOK
<1>2. SubSeq(out', Len(out) + 1, Len(out')) = <<>>
  BY <1>1
<1>3. QED BY <1>1, <1>2 DEF Transfer

(* Where the writer goes, the bytes it writes lead.                        *)
LEMMA LeadsFurther ==
  ASSUME NEW p, Placed(p), NEW e \in Seq(Byte), NEW q, Emits(p, e, q),
         NEW v, NEW part \in Seq(Byte), LeadsTo(v, part, p)
  PROVE  LeadsTo(v, part \o e, q)
<1>1. SUFFICES ASSUME NEW rest \in Seq(Byte), Continues(q, rest)
               PROVE  Encodes(v, (part \o e) \o rest)
  BY DEF LeadsTo
<1>2. Continues(p, e \o rest) /\ e \o rest \in Seq(Byte)
  BY <1>1, ContinuesFrom, ConcatProperties
<1>3. Encodes(v, part \o (e \o rest))
  BY <1>2 DEF LeadsTo
<1>4. (part \o e) \o rest = part \o (e \o rest)
  BY ConcatThree
<1>5. QED BY <1>3, <1>4

LEMMA WriterMoves ==
  ASSUME NEW p, NEW done, NEW part, WriterAt(p, done, part),
         NEW e \in Seq(Byte), NEW q, Emits(p, e, q), Placed(q), Mirrors(q)',
         stream' = stream \o e, offered' = offered + Len(e),
         UNCHANGED <<sent, written, start>>, offered \in Nat, start \in Nat
  PROVE  WriterAt(q, done, part \o e)'
<1>1. /\ Placed(p) /\ done \in Seq(Byte) /\ part \in Seq(Byte)
      /\ stream = done \o part /\ Carries(sent, done)
      /\ LeadsTo(written, part, p) /\ Len(part) = offered - start
  BY DEF WriterAt
<1>2. LeadsTo(written, part \o e, q)
  BY <1>1, LeadsFurther
<1>3. LeadsTo(written', part \o e, q) /\ Carries(sent', done)
  BY <1>1, <1>2
<1>4. part \o e \in Seq(Byte) /\ Len(part \o e) = Len(part) + Len(e)
  BY <1>1, ConcatProperties
<1>5. (done \o part) \o e = done \o (part \o e)
  BY <1>1, ConcatThree, SMTT(20)
<1>6. stream' = done \o (part \o e)
  BY <1>1, <1>5
<1>7. Len(part \o e) = offered' - start'
  BY <1>1, <1>4, LenProperties
<1>8. QED BY <1>1, <1>3, <1>4, <1>6, <1>7 DEF WriterAt

LEMMA WriterGoesOn ==
  ASSUME RTInv, wpc # "idle", wpc' # "idle", UNCHANGED OtherReaderVars,
         UNCHANGED <<sent, written>>, Len(out') = offered',
         NEW q, NEW done, NEW part, WriterAt(q, done, part)'
  PROVE  RTInv'
<1>1. pc = "idle" /\ pc' = pc /\ result' = result /\ written \in Values
  BY DEF RTInv, WriterInPlace, OtherReaderVars
<1>2. WriterInPlace'
  BY <1>1 DEF WriterInPlace
<1>3. QED BY <1>1, <1>2 DEF RTInv, ReaderInPlace, BothIdle, NeverRefused

(* Bytes handed to the stream, if any.                                     *)
Handed(e) == Write(e) \/ (e = <<>> /\ UNCHANGED <<out, offered>>)

(* The writer goes from p to q.                                            *)
Goes(p, e, q) ==
  /\ e \in Seq(Byte) /\ Handed(e) /\ Emits(p, e, q) /\ Placed(q) /\ Mirrors(q)'

LEMMA MirrorFacts ==
  ASSUME WInv, NEW p, Placed(p), Mirrors(p)
  PROVE  /\ wpc = p.mode /\ Len(wframes) = Len(p.path) /\ wframes \in Seq(OpenCall)
         /\ Len(wframes) \in Nat
         /\ wframes # <<>> <=> p.path # <<>>
         /\ \A n \in 1 .. Len(wframes) :
              /\ wframes[n].of = p.path[n].of
              /\ p.path[n].of.type = "Array" => wframes[n].i = p.path[n].i + 1
              /\ p.path[n].of.type = "Map" => wframes[n].keys = p.path[n].keys
         /\ wpc = "append" => value = Current(p)
         /\ p.path # <<>> =>
              /\ WTop.of = Innermost(p).of
              /\ Innermost(p).of.type = "Array" => WTop.i = Innermost(p).i + 1
              /\ Innermost(p).of.type = "Map" => WTop.keys = Innermost(p).keys
<1>1. /\ wpc = p.mode /\ Len(wframes) = Len(p.path)
      /\ \A n \in 1 .. Len(wframes) :
           /\ wframes[n].of = p.path[n].of
           /\ p.path[n].of.type = "Array" => wframes[n].i = p.path[n].i + 1
           /\ p.path[n].of.type = "Map" => wframes[n].keys = p.path[n].keys
      /\ wpc = "append" => value = Current(p)
  BY DEF Mirrors
<1>2. wframes \in Seq(OpenCall)
  BY DEF WInv, WTypeOK, OpenCall, PairType
<1>3. Len(wframes) \in Nat /\ (wframes # <<>> <=> Len(wframes) > 0)
      /\ (p.path # <<>> <=> Len(p.path) > 0)
  BY <1>2, PlaceFacts, LenProperties, EmptySeq
<1>4. p.path # <<>> => Len(wframes) \in 1 .. Len(wframes)
  BY <1>1, <1>3
<1>5. QED BY <1>1, <1>2, <1>3, <1>4 DEF WTop, Innermost

LEMMA ScalarGoes ==
  ASSUME WInv, NEW p, Placed(p), Mirrors(p), AppendScalar
  PROVE  \E e, q : Goes(p, e, q)
<1> DEFINE e == ScalarBytes(value)
           q == At(p.root, p.path, "return")
<1>1. wpc = "append" /\ value = Current(p) /\ p.mode = "append" /\ value \in Nodes
  BY MirrorFacts, PlaceFacts DEF AppendScalar
<1>2. e \in Seq(Byte) /\ Handed(e)
  BY <1>1, ScalarBytesSize DEF AppendScalar, Handed
<1>3. EmitsScalar(p, e, q)
  BY <1>1 DEF AppendScalar, EmitsScalar
<1> HIDE DEF e, q
<1>4. Placed(q) /\ q.path = p.path /\ q.mode = "return"
  BY <1>3, PlacedScalar
<1>5. Mirrors(q)'
  <2>1. wframes' = wframes /\ wpc' = "return"
    BY DEF AppendScalar
  <2>2. QED BY <1>4, <2>1 DEF Mirrors
<1>6. QED BY <1>2, <1>3, <1>4, <1>5 DEF Goes, Emits

LEMMA ContainerGoes ==
  ASSUME WInv, NEW p, Placed(p), Mirrors(p), AppendArray \/ AppendObject,
         Len(wframes') <= MaxDepth
  PROVE  \E e, q : Goes(p, e, q)
<1> DEFINE e == <<StartMarker(value)>>
           l == Opened(Current(p))
           N == Len(wframes)
<1>1. /\ wpc = "append" /\ value = Current(p) /\ p.mode = "append" /\ value \in Nodes
      /\ value.type \in {"Array", "Map"} /\ wpc' = "next"
  BY MirrorFacts, PlaceFacts DEF AppendArray, AppendObject
<1>2. PICK f : /\ wframes' = Append(wframes, f)
               /\ f.of = value
               /\ value.type = "Array" => f.i = 1
               /\ value.type = "Map" => f.keys = DOMAIN value.Map
  BY <1>1 DEF AppendArray, AppendObject
<1>3. /\ l.of = value
      /\ value.type = "Array" => l.i = 0
      /\ value.type = "Map" => l.keys = DOMAIN value.Map
  BY <1>1 DEF Opened
<1> DEFINE path == Append(p.path, l)
           q == At(p.root, path, "next")
<1>4. e \in Seq(Byte) /\ Handed(e)
  <2>1. StartMarker(value) \in Byte
    BY DEF StartMarker, Marker, Byte
  <2>2. Write(e)
    BY <1>1 DEF AppendArray, AppendObject, StartMarker
  <2>3. QED BY <2>1, <2>2 DEF Handed
<1>5. EmitsStart(p, e, q)
  BY <1>1 DEF EmitsStart
<1> HIDE DEF e, l
<1>6. q.path = path /\ q.mode = "next"
  <2> HIDE DEF path
  <2>1. QED BY AtParts
<1> HIDE DEF q
<1>7. /\ wframes \in Seq(OpenCall) /\ N \in Nat /\ N = Len(p.path) /\ p.path \in Seq(Level)
      /\ \A n \in 1 .. N :
           /\ wframes[n].of = p.path[n].of
           /\ p.path[n].of.type = "Array" => wframes[n].i = p.path[n].i + 1
           /\ p.path[n].of.type = "Map" => wframes[n].keys = p.path[n].keys
  BY MirrorFacts, PlaceFacts
<1>8. /\ Len(path) = N + 1 /\ path[N + 1] = l
      /\ \A n \in 1 .. N : path[n] = p.path[n]
  <2>1. l \in Level
    BY <1>1, OpenedFacts DEF LevelOK, l
  <2>2. QED BY <1>7, <2>1, AppendFacts
<1>9. /\ Len(wframes') = N + 1 /\ wframes'[N + 1] = f
      /\ \A n \in 1 .. N : wframes'[n] = wframes[n]
  BY <1>2, <1>7, AppendProperties
<1> HIDE DEF path, N
<1>10. Placed(q)
  <2>1. Len(q.path) <= MaxDepth
    BY <1>6, <1>8, <1>9
  <2>2. QED BY <1>5, <2>1, PlacedStart
<1>11. Mirrors(q)'
  <2>1. ASSUME NEW n \in 1 .. Len(q.path)
        PROVE  /\ wframes'[n].of = q.path[n].of
               /\ q.path[n].of.type = "Array" => wframes'[n].i = q.path[n].i + 1
               /\ q.path[n].of.type = "Map" => wframes'[n].keys = q.path[n].keys
    <3>1. CASE n \in 1 .. N
      BY <1>6, <1>7, <1>8, <1>9, <3>1
    <3>2. CASE n = N + 1
      BY <1>2, <1>3, <1>6, <1>8, <1>9, <3>2
    <3>3. QED BY <1>6, <1>7, <1>8, <3>1, <3>2
  <2>2. wpc' = q.mode /\ Len(wframes') = Len(q.path) /\ wpc' # "append"
    BY <1>1, <1>6, <1>8, <1>9
  <2>3. /\ wpc' = q.mode /\ Len(wframes') = Len(q.path)
        /\ wpc' = "append" => value' = Current(q)
    BY <2>2
  <2>4. QED BY <2>1, <2>3 DEF Mirrors
<1>12. Goes(p, e, q)
  BY <1>4, <1>5, <1>10, <1>11 DEF Goes, Emits
<1>13. QED BY <1>12

LEMMA NextItemGoes ==
  ASSUME WInv, NEW p, Placed(p), Mirrors(p), NextItem
  PROVE  \E e, q : Goes(p, e, q)
<1> DEFINE N == Len(wframes)
           l == NextIndex(Innermost(p))
           q == At(p.root, Replace(p.path, l), "append")
<1>1. /\ wpc = "next" /\ p.mode = "next" /\ p.path # <<>> /\ wpc' = "append"
      /\ WTop.of.type = "Array" /\ WTop.i <= Len(WTop.of.Array)
      /\ UNCHANGED <<out, offered>>
  BY MirrorFacts, PlaceFacts DEF NextItem
<1>2. /\ WTop.of = Innermost(p).of /\ WTop.i = Innermost(p).i + 1
      /\ Innermost(p).of.type = "Array" /\ LevelOK(Innermost(p))
  BY <1>1, MirrorFacts, PlaceFacts
<1>3. ~AllBegun(Innermost(p))
  <2>1. Innermost(p).i \in Nat
    BY <1>2, LevelFacts
  <2>2. QED BY <1>1, <1>2, <2>1 DEF AllBegun
<1>4. /\ LevelOK(l) /\ Begun(l) /\ l.of = Innermost(p).of
      /\ l.i = Innermost(p).i + 1
      /\ Item(l) = Innermost(p).of.Array[Innermost(p).i + 1]
  BY <1>2, <1>3, NextIndexFacts
<1>5. EmitsNextItem(p, <<>>, q)
  BY <1>1, <1>2, <1>3 DEF EmitsNextItem
<1> HIDE DEF l
<1>6. /\ Placed(q) /\ q.mode = "append" /\ Len(q.path) = Len(p.path)
      /\ q.path[Len(p.path)] = l
      /\ \A n \in 1 .. Len(p.path) - 1 : q.path[n] = p.path[n]
      /\ Current(q) = Item(l)
  BY <1>1, <1>4, PlacedReplace
<1> HIDE DEF q
<1>7. /\ wframes \in Seq(OpenCall) /\ N \in Nat /\ N = Len(p.path)
      /\ \A n \in 1 .. N :
           /\ wframes[n].of = p.path[n].of
           /\ p.path[n].of.type = "Array" => wframes[n].i = p.path[n].i + 1
           /\ p.path[n].of.type = "Map" => wframes[n].keys = p.path[n].keys
  BY MirrorFacts
<1>8. /\ Len(wframes') = N
      /\ wframes'[N].of = WTop.of /\ wframes'[N].i = WTop.i + 1
      /\ \A n \in 1 .. N - 1 : wframes'[n] = wframes[n]
  <2>1. N \in 1 .. N
    BY <1>1, <1>7, MirrorFacts, PlaceFacts
  <2>2. wframes' = [wframes EXCEPT ![N] = [WTop EXCEPT !.i = WTop.i + 1]]
    BY DEF NextItem, WTop
  <2>3. WTop \in OpenCall
    BY <1>1, <1>7, <2>1, TopFacts, MirrorFacts
  <2> DEFINE f == [WTop EXCEPT !.i = WTop.i + 1]
  <2>4. f.of = WTop.of /\ f.i = WTop.i + 1 /\ f \in OpenCall
    BY <2>3 DEF OpenCall
  <2> HIDE DEF f
  <2>5. Len(wframes') = N
    BY <1>7, <2>1, <2>2, <2>4, ExceptSeq DEF f
  <2>6. QED BY <1>7, <2>1, <2>2, <2>4, <2>5 DEF f
<1>9. value' = Current(q)
  BY <1>2, <1>4, <1>6 DEF NextItem
<1>10. Mirrors(q)'
  <2>1. ASSUME NEW n \in 1 .. Len(q.path)
        PROVE  /\ wframes'[n].of = q.path[n].of
               /\ q.path[n].of.type = "Array" => wframes'[n].i = q.path[n].i + 1
               /\ q.path[n].of.type = "Map" => wframes'[n].keys = q.path[n].keys
    <3>1. CASE n \in 1 .. N - 1
      BY <1>6, <1>7, <1>8, <3>1
    <3>2. CASE n = N
      BY <1>2, <1>4, <1>6, <1>7, <1>8, <3>2
    <3>3. QED BY <1>6, <1>7, <3>1, <3>2
  <2>2. wpc' = q.mode /\ Len(wframes') = Len(q.path)
    BY <1>1, <1>6, <1>7, <1>8
  <2>3. QED BY <1>9, <2>1, <2>2 DEF Mirrors
<1>11. Goes(p, <<>>, q)
  BY <1>1, <1>5, <1>6, <1>10 DEF Goes, Emits, Handed
<1>12. QED BY <1>11

LEMMA NextKeyGoes ==
  ASSUME WInv, NEW p, Placed(p), Mirrors(p), NextKey
  PROVE  \E e, q : Goes(p, e, q)
<1> DEFINE N == Len(wframes)
<1>1. /\ wpc = "next" /\ p.mode = "next" /\ p.path # <<>> /\ wpc' = "append"
      /\ WTop.of.type = "Map"
  BY MirrorFacts, PlaceFacts DEF NextKey
<1>2. /\ WTop.of = Innermost(p).of /\ Innermost(p).of.type = "Map"
      /\ WTop.keys = Innermost(p).keys /\ LevelOK(Innermost(p))
  BY <1>1, MirrorFacts, PlaceFacts
<1>3. PICK k \in WTop.keys :
        /\ Write(IntBytes(Len(k)) \o k)
        /\ wframes' = [wframes EXCEPT
             ![Len(wframes)].keys = @ \ {k},
             ![Len(wframes)].rtn = Update(Pair(KeySize(k), TRUE), @)]
        /\ value' = WTop.of.Map[k]
  BY DEF NextKey
<1> DEFINE e == IntBytes(Len(k)) \o k
           l == TakeKey(Innermost(p), k)
           q == At(p.root, Replace(p.path, l), "append")
<1>4. /\ LevelOK(l) /\ Begun(l) /\ l.of = Innermost(p).of
      /\ l.keys = Innermost(p).keys \ {k} /\ k \in Seq(Byte)
      /\ Item(l) = Innermost(p).of.Map[k]
  BY <1>2, TakeKeyFacts
<1>5. EmitsKey(p, e, q)
  BY <1>1, <1>2 DEF EmitsKey
<1>51. e \in Seq(Byte) /\ Handed(e)
  BY <1>3, <1>4, KeyBytesSize DEF Handed
<1> HIDE DEF l, e
<1>6. /\ Placed(q) /\ q.mode = "append" /\ Len(q.path) = Len(p.path)
      /\ q.path[Len(p.path)] = l
      /\ \A n \in 1 .. Len(p.path) - 1 : q.path[n] = p.path[n]
      /\ Current(q) = Item(l)
  BY <1>1, <1>4, PlacedReplace
<1> HIDE DEF q
<1>7. /\ wframes \in Seq(OpenCall) /\ N \in Nat /\ N = Len(p.path)
      /\ \A n \in 1 .. N :
           /\ wframes[n].of = p.path[n].of
           /\ p.path[n].of.type = "Array" => wframes[n].i = p.path[n].i + 1
           /\ p.path[n].of.type = "Map" => wframes[n].keys = p.path[n].keys
  BY MirrorFacts
<1>8. /\ Len(wframes') = N
      /\ wframes'[N].of = WTop.of /\ wframes'[N].keys = WTop.keys \ {k}
      /\ \A n \in 1 .. N - 1 : wframes'[n] = wframes[n]
  <2>1. N \in 1 .. N
    BY <1>1, <1>7, MirrorFacts, PlaceFacts
  <2> DEFINE r == Update(Pair(KeySize(k), TRUE), WTop.rtn)
             f == [WTop EXCEPT !.keys = WTop.keys \ {k}, !.rtn = r]
  <2>2. wframes' = [wframes EXCEPT ![N] = f]
    BY <1>3, <1>7, <2>1 DEF WTop
  <2>3. WTop \in OpenCall
    BY <1>1, <1>7, <2>1, TopFacts, MirrorFacts
  <2>31. r \in PairType
    <3>1. WTop.rtn \in PairType /\ KeySize(k) \in Nat
      BY <1>4, <2>3, KeyBytesSize DEF OpenCall
    <3>2. QED BY <3>1 DEF Update, Pair, PairType
  <2> HIDE DEF r
  <2>4. f.of = WTop.of /\ f.keys = WTop.keys \ {k} /\ f \in OpenCall
    BY <2>3, <2>31 DEF OpenCall
  <2> HIDE DEF f
  <2>5. Len(wframes') = N
    BY <1>7, <2>1, <2>2, <2>4, ExceptSeq
  <2>6. QED BY <1>7, <2>1, <2>2, <2>4, <2>5
<1>9. value' = Current(q)
  BY <1>2, <1>3, <1>4, <1>6
<1>10. Mirrors(q)'
  <2>1. ASSUME NEW n \in 1 .. Len(q.path)
        PROVE  /\ wframes'[n].of = q.path[n].of
               /\ q.path[n].of.type = "Array" => wframes'[n].i = q.path[n].i + 1
               /\ q.path[n].of.type = "Map" => wframes'[n].keys = q.path[n].keys
    <3>1. CASE n \in 1 .. N - 1
      BY <1>6, <1>7, <1>8, <3>1
    <3>2. CASE n = N
      BY <1>2, <1>4, <1>6, <1>7, <1>8, <3>2
    <3>3. QED BY <1>6, <1>7, <3>1, <3>2
  <2>2. wpc' = q.mode /\ Len(wframes') = Len(q.path)
    BY <1>1, <1>6, <1>7, <1>8
  <2>3. QED BY <1>9, <2>1, <2>2 DEF Mirrors
<1>11. Goes(p, e, q)
  BY <1>5, <1>51, <1>6, <1>10 DEF Goes, Emits
<1>12. QED BY <1>11

LEMMA EndGoes ==
  ASSUME WInv, NEW p, Placed(p), Mirrors(p), EndArray \/ EndObject
  PROVE  \E e, q : Goes(p, e, q)
<1> DEFINE N == Len(wframes)
           e == <<EndMarker(Innermost(p).of)>>
           q == At(p.root, Outer(p.path), "return")
<1>1. /\ wpc = "next" /\ p.mode = "next" /\ p.path # <<>> /\ wpc' = "return" /\ Pop
  BY MirrorFacts, PlaceFacts DEF EndArray, EndObject
<1>2. /\ WTop.of = Innermost(p).of /\ LevelOK(Innermost(p))
      /\ Innermost(p).of.type = "Array" => WTop.i = Innermost(p).i + 1
      /\ Innermost(p).of.type = "Map" => WTop.keys = Innermost(p).keys
  BY <1>1, MirrorFacts, PlaceFacts
<1>3. AllBegun(Innermost(p)) /\ Handed(e)
  <2>1. CASE EndArray
    <3>1. /\ Innermost(p).i \in Nat /\ Innermost(p).i <= Len(Innermost(p).of.Array)
          /\ Len(Innermost(p).of.Array) \in Nat
          /\ Innermost(p).i + 1 > Len(Innermost(p).of.Array)
          /\ Innermost(p).of.type = "Array"
      BY <1>2, <2>1, LevelFacts, LenProperties DEF EndArray
    <3>2. Innermost(p).i = Len(Innermost(p).of.Array)
      BY <3>1
    <3>3. AllBegun(Innermost(p))
      BY <3>1, <3>2 DEF AllBegun
    <3>4. QED BY <2>1, <3>1, <3>3 DEF EndArray, Handed, EndMarker
  <2>2. CASE EndObject
    <3>1. Innermost(p).of.type = "Map" /\ Innermost(p).keys = {}
      BY <1>2, <2>2 DEF EndObject
    <3>2. QED BY <2>2, <3>1 DEF EndObject, Handed, EndMarker, AllBegun
  <2>3. QED BY <2>1, <2>2
<1>4. EmitsEnd(p, e, q)
  BY <1>1, <1>3 DEF EmitsEnd
<1>5. e \in Seq(Byte)
  BY DEF EndMarker, Marker, Byte
<1> HIDE DEF e
<1>6. /\ Placed(q) /\ q.mode = "return" /\ Len(q.path) = Len(p.path) - 1
      /\ \A n \in 1 .. Len(p.path) - 1 : q.path[n] = p.path[n]
  BY <1>1, PlacedEnd
<1> HIDE DEF q
<1>7. /\ wframes \in Seq(OpenCall) /\ N \in Nat /\ N = Len(p.path) /\ wframes # <<>>
      /\ \A n \in 1 .. N :
           /\ wframes[n].of = p.path[n].of
           /\ p.path[n].of.type = "Array" => wframes[n].i = p.path[n].i + 1
           /\ p.path[n].of.type = "Map" => wframes[n].keys = p.path[n].keys
  BY <1>1, MirrorFacts
<1>8. /\ Len(wframes') = N - 1
      /\ \A n \in 1 .. N - 1 : wframes'[n] = wframes[n]
  BY <1>1, <1>7, FrontFacts DEF Pop
<1>10. Mirrors(q)'
  <2>1. ASSUME NEW n \in 1 .. Len(q.path)
        PROVE  /\ wframes'[n].of = q.path[n].of
               /\ q.path[n].of.type = "Array" => wframes'[n].i = q.path[n].i + 1
               /\ q.path[n].of.type = "Map" => wframes'[n].keys = q.path[n].keys
    BY <1>6, <1>7, <1>8
  <2>2. wpc' = q.mode /\ Len(wframes') = Len(q.path) /\ wpc' # "append"
    BY <1>1, <1>6, <1>7, <1>8
  <2>3. QED BY <2>1, <2>2 DEF Mirrors
<1>11. Goes(p, e, q)
  BY <1>3, <1>4, <1>5, <1>6, <1>10 DEF Goes, Emits
<1>12. QED BY <1>11

LEMMA CollectGoes ==
  ASSUME WInv, NEW p, Placed(p), Mirrors(p), Collect
  PROVE  \E e, q : Goes(p, e, q)
<1> DEFINE N == Len(wframes)
           q == At(p.root, p.path, "next")
<1>1. /\ wpc = "return" /\ p.mode = "return" /\ p.path # <<>> /\ wpc' = "next"
      /\ UNCHANGED <<out, offered>>
  BY MirrorFacts DEF Collect
<1>2. Collects(p, <<>>, q)
  BY <1>1 DEF Collects
<1> HIDE DEF q
<1>3. Placed(q) /\ q.path = p.path /\ q.mode = "next"
  BY <1>2, PlacedCollects
<1>4. /\ wframes \in Seq(OpenCall) /\ N \in Nat /\ N = Len(p.path) /\ wframes # <<>>
      /\ \A n \in 1 .. N :
           /\ wframes[n].of = p.path[n].of
           /\ p.path[n].of.type = "Array" => wframes[n].i = p.path[n].i + 1
           /\ p.path[n].of.type = "Map" => wframes[n].keys = p.path[n].keys
  BY <1>1, MirrorFacts
<1>5. /\ Len(wframes') = N
      /\ \A n \in 1 .. N : wframes'[n].of = wframes[n].of /\ wframes'[n].i = wframes[n].i
                           /\ wframes'[n].keys = wframes[n].keys
  <2> DEFINE r == Update(rtn, WTop.rtn)
             f == [WTop EXCEPT !.rtn = r]
  <2>1. N \in 1 .. N /\ WTop \in OpenCall
    BY <1>4, TopFacts
  <2>2. wframes' = [wframes EXCEPT ![N] = f]
    BY <1>4, <2>1 DEF Collect, WTop
  <2>3. r \in PairType
    <3>1. WTop.rtn \in PairType /\ rtn \in PairType
      BY <2>1 DEF OpenCall, WInv, WTypeOK, PairType
    <3>2. QED BY <3>1 DEF Update, Pair, PairType
  <2> HIDE DEF r
  <2>4. f.of = WTop.of /\ f.i = WTop.i /\ f.keys = WTop.keys /\ f \in OpenCall
    BY <2>1, <2>3 DEF OpenCall
  <2> HIDE DEF f
  <2>5. Len(wframes') = N
    BY <1>4, <2>1, <2>2, <2>4, ExceptSeq
  <2>6. QED BY <1>4, <2>1, <2>2, <2>4, <2>5 DEF WTop
<1>6. Mirrors(q)'
  <2>1. ASSUME NEW n \in 1 .. Len(q.path)
        PROVE  /\ wframes'[n].of = q.path[n].of
               /\ q.path[n].of.type = "Array" => wframes'[n].i = q.path[n].i + 1
               /\ q.path[n].of.type = "Map" => wframes'[n].keys = q.path[n].keys
    BY <1>3, <1>4, <1>5
  <2>2. wpc' = q.mode /\ Len(wframes') = Len(q.path) /\ wpc' # "append"
    BY <1>1, <1>3, <1>4, <1>5
  <2>3. QED BY <2>1, <2>2 DEF Mirrors
<1>7. Goes(p, <<>>, q)
  BY <1>1, <1>2, <1>3, <1>6 DEF Goes, Emits, Handed
<1>8. QED BY <1>7

LEMMA EveryNodeWritable ==
  ASSUME Exchangeable, NEW v \in Nodes
  PROVE  Writable(v)
<1>1. GivenBack(v)
  BY DEF Exchangeable
<1>2. v.type # "Binary"
  BY <1>1 DEF GivenBack
<1>3. v.type = "UnsignedInt" => v.UnsignedInt <= 255
  BY <1>1 DEF GivenBack
<1>4. v.type = "Float" => v.Float \notin NotFinite
  BY <1>1 DEF GivenBack
<1>5. QED BY <1>2, <1>3, <1>4 DEF Writable

(* writeValue begins.                                                      *)
LEMMA StartWriteKeeps ==
  ASSUME RTInv, WInv, stream \in Seq(Byte), StartWrite
  PROVE  RTInv'
<1>1. /\ pc = "idle" /\ pc' = "idle" /\ result' = result /\ stream' = stream
      /\ sent' = sent /\ out' = out /\ offered' = offered
  BY DEF StartWrite, WCall, WriteValue, readerVars, vars, streamVars
<1>2. PICK v \in Values : WriteValue(v)
  BY DEF StartWrite, WCall
<1>3. /\ wpc = "idle" /\ wpc' = "append" /\ value' = v /\ written' = v
      /\ start' = offered /\ wframes' = wframes /\ wframes = <<>>
  BY <1>2 DEF WriteValue, WInv, InPlace
<1>4. Carries(sent, stream)
  BY <1>1, <1>3 DEF RTInv, BothIdle
<1> DEFINE p == At(v, <<>>, "append")
<1>5. p.root = v /\ p.path = <<>> /\ p.mode = "append" /\ p = At(p.root, p.path, p.mode)
  BY AtParts
<1>7. LeadsTo(v, <<>>, p)
  <2>1. SUFFICES ASSUME NEW rest \in Seq(Byte), Continues(p, rest)
                 PROVE  Encodes(v, <<>> \o rest)
    BY DEF LeadsTo
  <2>2. <<>> \o rest = rest
    BY ConcatEmptySeq
  <2>3. QED BY <2>1, <2>2 DEF Encodes
<1> HIDE DEF p
<1>8. Placed(p)
  <2>1. v \in Nodes /\ Len(p.path) = 0 /\ 0 <= MaxDepth
    BY <1>5, WriterAssumption, ReaderAssumption
  <2>2. <<>> \in Seq(Level)
    OBVIOUS
  <2>3. QED BY <1>5, <2>1, <2>2 DEF Placed, Modes
<1>9. Mirrors(p)'
  <2>1. Len(p.path) = 0 /\ Len(wframes') = 0 /\ 1 .. Len(p.path) = {}
    BY <1>3, <1>5
  <2>2. wpc' = p.mode /\ value' = Current(p)
    BY <1>3, <1>5 DEF Current
  <2>3. QED BY <2>1, <2>2 DEF Mirrors
<1>10. PICK done \in Seq(Byte) : done = stream
  OBVIOUS
<1>11. WriterAt(p, done, <<>>)'
  <2>1. /\ stream' = done \o <<>> /\ <<>> \in Seq(Byte) /\ Len(<<>>) = 0
    BY <1>1, <1>10, ConcatEmptySeq
  <2>2. offered' - start' = 0
    BY <1>1, <1>3 DEF WInv, WTypeOK
  <2>3. Carries(sent', done) /\ LeadsTo(written', <<>>, p)
    BY <1>1, <1>3, <1>4, <1>7, <1>10
  <2>4. QED BY <1>8, <1>9, <2>1, <2>2, <2>3 DEF WriterAt
<1>12. WriterInPlace'
  BY <1>1, <1>3, <1>11 DEF WriterInPlace
<1>13. QED BY <1>1, <1>3, <1>12 DEF RTInv, ReaderInPlace, BothIdle, NeverRefused

(* It returns: what it has written stands for the Value.                   *)
LEMMA WReturnKeeps ==
  ASSUME RTInv, WInv, stream \in Seq(Byte), WithinPolicy', RunWriter, WReturn
  PROVE  RTInv'
<1>1. /\ wpc = "return" /\ wpc' = "idle" /\ wframes = <<>>
      /\ UNCHANGED <<out, offered, written, start, rtn>>
  BY DEF WReturn
<1>2. /\ pc = "idle" /\ pc' = "idle" /\ result' = result /\ written \in Values
      /\ sent \in Seq(Messages)
      /\ sent' = Append(sent, [value |-> written, size |-> rtn.first])
  BY <1>1 DEF RTInv, WriterInPlace, RunWriter, OtherReaderVars
<1>3. stream' = stream /\ Len(out') = offered'
  <2>1. stream' = stream \o <<>> /\ Len(out') = offered'
    BY <1>1, TransferNothing DEF RTInv, WInv, RunWriter
  <2>2. QED BY <2>1, ConcatEmptySeq
<1>4. PICK p, done, part : WriterAt(p, done, part)
  BY <1>1 DEF RTInv, WriterInPlace
<1>5. /\ Placed(p) /\ Mirrors(p) /\ done \in Seq(Byte) /\ part \in Seq(Byte)
      /\ stream = done \o part /\ Carries(sent, done)
      /\ LeadsTo(written, part, p) /\ Len(part) = offered - start
  BY <1>4 DEF WriterAt
<1>6. AtEnd(p)
  BY <1>1, <1>5, MirrorFacts DEF AtEnd
<1>7. Encodes(written, part)
  <2>1. Continues(p, <<>>)
    BY <1>5, <1>6, ContinuesAtEnd
  <2>2. Encodes(written, part \o <<>>)
    <3>1. <<>> \in Seq(Byte)
      OBVIOUS
    <3>2. QED BY <1>5, <2>1, <3>1 DEF LeadsTo
  <2>3. part \o <<>> = part
    BY <1>5, ConcatEmptySeq
  <2>4. QED BY <2>2, <2>3
<1>8. rtn.first = Len(part) /\ rtn.first \in 0 .. MaxObjectSize
  <2>1. rtn.first = offered - start
    BY <1>1 DEF WInv, OutermostCounted
  <2>2. offered - start <= MaxObjectSize /\ rtn.first \in Nat
    BY <1>1 DEF WithinPolicy, WInv, WTypeOK
  <2>3. QED BY <1>5, <2>1, <2>2, ReaderAssumption
<1> DEFINE m == [value |-> written, size |-> rtn.first]
<1>9. m \in Messages
  BY <1>2, <1>8 DEF Messages
<1>10. IsSentAs(m, part)
  BY <1>7, <1>8 DEF IsSentAs
<1>11. sent' = Append(sent, m)
  BY <1>2
<1> HIDE DEF m
<1>12. Carries(Append(sent, m), done \o part)
  BY <1>2, <1>5, <1>9, <1>10, CarriesOneMore
<1>13. Carries(sent', stream') /\ sent' \in Seq(Messages)
  BY <1>2, <1>3, <1>5, <1>9, <1>11, <1>12, AppendProperties
<1>14. QED BY <1>1, <1>2, <1>3, <1>13 DEF RTInv, WriterInPlace, ReaderInPlace, BothIdle, NeverRefused

LEMMA RunWriterKeeps ==
  ASSUME RTInv, WInv, stream \in Seq(Byte), Exchangeable, WithinPolicy', RunWriter
  PROVE  RTInv'
<1>1. CASE WReturn
  BY <1>1, WReturnKeeps
<1>2. CASE ~WReturn
  <2>1. wpc # "idle" /\ wpc' # "idle" /\ UNCHANGED <<written, start>>
    BY <1>2 DEF RunWriter, WStep, AppendScalar, AppendNothing, AppendArray, NextItem,
                EndArray, AppendObject, NextKey, EndObject, Collect
  <2>2. PICK p, done, part : WriterAt(p, done, part)
    BY <2>1 DEF RTInv, WriterInPlace
  <2>3. Placed(p) /\ Mirrors(p)
    BY <2>2 DEF WriterAt
  <2>4. ~AppendNothing
    <3>1. SUFFICES ASSUME wpc = "append" PROVE Writable(value)
      BY DEF AppendNothing
    <3>2. value \in Nodes
      BY <3>1 DEF WInv, InPlace
    <3>3. QED BY <3>2, EveryNodeWritable
  <2>5. \E e, q : Goes(p, e, q)
    <3>1. CASE AppendArray \/ AppendObject
      BY <2>3, <3>1, ContainerGoes DEF WithinPolicy
    <3>2. CASE EndArray \/ EndObject
      BY <2>3, <3>2, EndGoes
    <3>3. QED BY <1>2, <2>3, <2>4, <3>1, <3>2, ScalarGoes, NextItemGoes, NextKeyGoes,
                 CollectGoes DEF RunWriter, WStep
  <2>6. PICK e, q : Goes(p, e, q)
    BY <2>5
  <2>7. e \in Seq(Byte) /\ Handed(e) /\ Emits(p, e, q) /\ Placed(q) /\ Mirrors(q)'
    BY <2>6 DEF Goes
  <2>8. stream' = stream \o e /\ Len(out') = offered' /\ offered' = offered + Len(e)
    <3>1. Transfer /\ WTypeOK /\ Len(out) = offered /\ offered' <= Capacity
      BY DEF RunWriter, WInv, RTInv, WithinPolicy
    <3>2. CASE Write(e)
      BY <2>7, <3>1, <3>2, TransferAll
    <3>3. CASE e = <<>> /\ UNCHANGED <<out, offered>>
      BY <3>1, <3>3, TransferNothing
    <3>4. QED BY <2>7, <3>2, <3>3 DEF Handed
  <2>9. UNCHANGED sent /\ UNCHANGED OtherReaderVars
    BY <2>1 DEF RunWriter
  <2>10. WriterAt(q, done, part \o e)'
    <3>1. offered \in Nat /\ start \in Nat
      BY DEF WInv, WTypeOK
    <3>2. QED BY <2>1, <2>2, <2>7, <2>8, <2>9, <3>1, WriterMoves
  <2>11. QED BY <2>1, <2>8, <2>9, <2>10, WriterGoesOn
<1>3. QED BY <1>1, <1>2

-----------------------------------------------------------------------------
(* The Values that the reader builds.                                      *)

(* What a container under construction holds, from its first item to its   *)
(* last.                                                                   *)
LEMMA HeldOpened ==
  ASSUME NEW v \in Nodes
  PROVE  Held(Opened(v), FALSE) = NullValue
<1> DEFINE l == Opened(v)
<1>1. l.of = v /\ l.i = 0 /\ (v.type = "Map" => l.keys = DOMAIN v.Map)
  BY DEF Opened
<1> HIDE DEF l
<1>2. ~(HeldItems(l, FALSE) > 0) /\ (l.of.type = "Map" => HeldKeys(l, FALSE) = {})
  BY <1>1 DEF HeldItems, HeldKeys
<1>3. Held(l, FALSE) = NullValue
  <2>1. /\ ~(l.of.type = "Array" /\ HeldItems(l, FALSE) > 0)
        /\ ~(l.of.type = "Map" /\ HeldKeys(l, FALSE) # {})
    BY <1>2
  <2>2. QED BY <2>1 DEF Held
<1>4. QED BY <1>3 DEF l

LEMMA HeldNextIndex ==
  ASSUME NEW l, LevelOK(l), l.of.type = "Array", ~AllBegun(l)
  PROVE  Held(NextIndex(l), TRUE) = Held(l, FALSE)
<1> DEFINE m == NextIndex(l)
<1>1. m.of = l.of /\ m.i = l.i + 1 /\ l.i \in Nat
  BY NextIndexFacts, LevelFacts
<1> HIDE DEF m
<1>2. HeldItems(m, TRUE) = HeldItems(l, FALSE)
  BY <1>1 DEF HeldItems
<1>3. QED BY <1>1, <1>2 DEF Held, m

LEMMA HeldTakeKey ==
  ASSUME NEW l, LevelOK(l), l.of.type = "Map", NEW k \in l.keys
  PROVE  Held(TakeKey(l, k), TRUE) = Held(l, FALSE)
<1> DEFINE m == TakeKey(l, k)
<1>1. m.of = l.of /\ m.keys = l.keys \ {k} /\ m.key = k
  BY TakeKeyFacts
<1> HIDE DEF m
<1>2. HeldKeys(m, TRUE) = HeldKeys(l, FALSE)
  BY <1>1 DEF HeldKeys
<1>3. QED BY <1>1, <1>2 DEF Held, m

LEMMA HeldPushBack ==
  ASSUME NEW l, LevelOK(l), l.of.type = "Array", Begun(l)
  PROVE  PushBack(Held(l, TRUE), Item(l)) = Held(l, FALSE)
<1> DEFINE s == l.of.Array
           front == [n \in 1 .. l.i - 1 |-> s[n]]
<1>1. /\ l.i \in Nat /\ l.i >= 1 /\ s \in Seq(Nodes) /\ l.i <= Len(s)
      /\ Len(s) \in Nat /\ Item(l) = s[l.i]
  BY LevelFacts, LenProperties DEF Begun, Item
<1>2. /\ Held(l, FALSE) = ArrayValue([n \in 1 .. l.i |-> s[n]])
      /\ l.i = 1 => Held(l, TRUE) = NullValue
      /\ l.i > 1 => Held(l, TRUE) = ArrayValue(front)
  BY <1>1 DEF Held, HeldItems
<1>3. CASE l.i = 1
  <2>1. PushBack(NullValue, Item(l)) = ArrayValue(<<s[1]>>)
    BY <1>1, <1>3 DEF PushBack, NullValue
  <2>2. <<s[1]>> = [n \in 1 .. 1 |-> s[n]]
    BY <1>1
  <2>3. QED BY <1>2, <1>3, <2>1, <2>2
<1>4. CASE l.i > 1
  <2>1. front \in [1 .. l.i - 1 -> Nodes]
    <3>1. \A n \in 1 .. l.i - 1 : n \in 1 .. Len(s)
      BY <1>1
    <3>2. QED BY <1>1, <3>1, ElementOfSeq
  <2>2. front \in Seq(Nodes) /\ Len(front) = l.i - 1
    BY <1>1, <2>1, TableIsSeq
  <2>3. Append(front, s[l.i]) = [n \in 1 .. l.i |-> s[n]]
    <3>1. s[l.i] \in Nodes
      BY <1>1, ElementOfSeq
    <3> DEFINE t == Append(front, s[l.i])
               u == [n \in 1 .. l.i |-> s[n]]
    <3>2. u \in Seq(Nodes) /\ Len(u) = l.i
      <4>1. \A n \in 1 .. l.i : n \in 1 .. Len(s)
        BY <1>1
      <4>2. u \in [1 .. l.i -> Nodes]
        BY <1>1, <4>1, ElementOfSeq
      <4>3. QED BY <1>1, <4>2, TableIsSeq
    <3>3. /\ t \in Seq(Nodes) /\ Len(t) = Len(front) + 1
          /\ \A n \in 1 .. Len(front) : t[n] = front[n]
          /\ t[Len(front) + 1] = s[l.i]
      <4> HIDE DEF front
      <4>1. QED BY <2>2, <3>1, AppendProperties
    <3>4. \A n \in 1 .. Len(t) : t[n] = u[n]
      <4>1. Len(t) = l.i /\ Len(front) = l.i - 1 /\ l.i \in Nat
        BY <1>1, <2>2, <3>3
      <4>2. \A n \in 1 .. l.i - 1 : t[n] = u[n]
        <5>1. \A n \in 1 .. l.i - 1 : front[n] = s[n] /\ u[n] = s[n]
          BY <1>1
        <5> HIDE DEF t, u, front
        <5>2. QED BY <3>3, <4>1, <5>1
      <4>3. t[l.i] = u[l.i]
        <5>1. u[l.i] = s[l.i]
          BY <1>1
        <5> HIDE DEF t, u, front
        <5>2. l.i - 1 + 1 = l.i
          BY <1>1
        <5>3. QED BY <3>3, <4>1, <5>1, <5>2
      <4> HIDE DEF t, u, front
      <4>4. QED BY <4>1, <4>2, <4>3
    <3>5. Len(t) = Len(u)
      BY <1>1, <2>2, <3>2, <3>3
    <3> HIDE DEF t, u
    <3>6. t = u
      BY <3>2, <3>3, <3>4, <3>5, SeqEqual
    <3>7. QED BY <3>6 DEF t, u
  <2> HIDE DEF front
  <2>4. PushBack(ArrayValue(front), Item(l)) = ArrayValue(Append(front, s[l.i]))
    BY <1>1 DEF PushBack, ArrayValue
  <2>5. QED BY <1>2, <1>4, <2>3, <2>4
<1>5. l.i = 1 \/ l.i > 1
  BY <1>1
<1>6. QED BY <1>3, <1>4, <1>5

LEMMA HeldAssignKey ==
  ASSUME NEW l, LevelOK(l), l.of.type = "Map", Begun(l)
  PROVE  /\ Indexable(Held(l, TRUE))
         /\ AssignKey(Held(l, TRUE), l.key, Item(l)) = Held(l, FALSE)
<1> DEFINE f == l.of.Map
           K == HeldKeys(l, TRUE)
           M == HeldKeys(l, FALSE)
<1>1. l.key \in DOMAIN f \ l.keys /\ Item(l) = f[l.key]
  BY DEF Begun, Item
<1>2. M = K \cup {l.key} /\ l.key \notin K
  BY <1>1 DEF HeldKeys
<1> HIDE DEF K, M
<1>3. Held(l, FALSE) = MapValue([k \in M |-> f[k]])
  BY <1>2 DEF Held, M
<1>4. CASE K = {}
  <2>1. Held(l, TRUE) = NullValue
    BY <1>4 DEF Held, K
  <2>2. AssignKey(NullValue, l.key, Item(l)) = MapValue([j \in {} \cup {l.key} |-> IF j = l.key THEN Item(l) ELSE << >>[j]])
    BY DEF AssignKey, NullValue
  <2>3. [j \in {} \cup {l.key} |-> IF j = l.key THEN Item(l) ELSE << >>[j]] = [k \in M |-> f[k]]
    BY <1>1, <1>2, <1>4
  <2>4. Indexable(NullValue)
    BY DEF Indexable, NullValue
  <2>5. QED BY <1>3, <2>1, <2>2, <2>3, <2>4
<1>5. CASE K # {}
  <2> DEFINE g == [k \in K |-> f[k]]
  <2>1. Held(l, TRUE) = MapValue(g)
    BY <1>5 DEF Held, K
  <2>2. AssignKey(MapValue(g), l.key, Item(l)) = MapValue([j \in DOMAIN g \cup {l.key} |-> IF j = l.key THEN Item(l) ELSE g[j]])
    <3> HIDE DEF g
    <3>1. QED BY DEF AssignKey, MapValue
  <2>3. [j \in DOMAIN g \cup {l.key} |-> IF j = l.key THEN Item(l) ELSE g[j]] = [k \in M |-> f[k]]
    BY <1>1, <1>2
  <2>4. Indexable(MapValue(g))
    BY DEF Indexable, MapValue
  <2> HIDE DEF g
  <2>5. QED BY <1>3, <2>1, <2>2, <2>3, <2>4
<1>6. QED BY <1>4, <1>5

LEMMA HeldAll ==
  ASSUME NEW l, LevelOK(l), AllBegun(l), GivenBack(l.of)
  PROVE  Held(l, FALSE) = l.of
<1> DEFINE v == l.of
<1>1. WellFormed(v) /\ (v.type = "Array" \/ v.type = "Map")
  BY LevelFacts
<1>2. CASE v.type = "Array"
  <2> DEFINE s == v.Array
  <2>1. s \in Seq(Nodes) /\ s # <<>> /\ v = ArrayValue(s) /\ l.i = Len(s)
    BY <1>1, <1>2 DEF WellFormed, GivenBack, AllBegun
  <2> HIDE DEF s
  <2>2. Len(s) > 0 /\ Len(s) \in Nat /\ [n \in 1 .. Len(s) |-> s[n]] = s
    BY <2>1
  <2>3. Held(l, FALSE) = ArrayValue([n \in 1 .. Len(s) |-> s[n]])
    BY <1>2, <2>1, <2>2 DEF Held, HeldItems, s
  <2>4. QED BY <2>1, <2>2, <2>3
<1>3. CASE v.type = "Map"
  <2> DEFINE f == v.Map
  <2>1. f \in [DOMAIN f -> Nodes] /\ DOMAIN f # {} /\ v = MapValue(f) /\ l.keys = {}
    BY <1>1, <1>3 DEF WellFormed, GivenBack, AllBegun
  <2>2. HeldKeys(l, FALSE) = DOMAIN f
    BY <2>1 DEF HeldKeys
  <2>3. Held(l, FALSE) = MapValue([k \in DOMAIN f |-> f[k]])
    BY <1>3, <2>1, <2>2 DEF Held
  <2> HIDE DEF f
  <2>4. [k \in DOMAIN f |-> f[k]] = f
    BY <2>1
  <2>5. QED BY <2>1, <2>3, <2>4
<1>4. QED BY <1>1, <1>2, <1>3

-----------------------------------------------------------------------------
(* The bytes in front of the reader.                                       *)

(* A scalar on the stream: its marker and the bytes after it.              *)
ScalarToken(v, m, tk) ==
  \/ v = NullValue /\ m = Marker.Null /\ tk = <<>>
  \/ /\ m \in {Marker.True, Marker.False}
     /\ v = BoolValue(m = Marker.True) /\ tk = <<>>
  \/ isFixedSize(m) /\ Len(tk) = Width(m) /\ Decode(m, tk) = v
  \/ /\ m = Marker.String
     /\ \E s \in Seq(Byte) : /\ v = StringValue(s) /\ InRange(Len(s), Width64)
                             /\ tk = IntBytes(Len(s)) \o s

LEMMA IntMarkerFacts ==
  ASSUME NEW n \in Int, InRange(n, Width64)
  PROVE  /\ isInteger(IntMarker(n)) /\ isFixedSize(IntMarker(n))
         /\ IntMarker(n) \in Byte /\ Width(IntMarker(n)) \in 1 .. 8
         /\ InRange(n, Width(IntMarker(n)))
         /\ IntMarker(n) # Marker.Char /\ IntMarker(n) # Marker.Uint8
<1>1. \/ IntMarker(n) = Marker.Int8 /\ InRange(n, 1)
      \/ IntMarker(n) = Marker.Int16 /\ InRange(n, 2)
      \/ IntMarker(n) = Marker.Int32 /\ InRange(n, Width32)
      \/ IntMarker(n) = Marker.Int64
  BY DEF IntMarker
<1>2. /\ Width(Marker.Int8) = 1 /\ Width(Marker.Int16) = 2
      /\ Width(Marker.Int32) = Width32 /\ Width(Marker.Int64) = Width64
  BY DEF Width, Marker
<1>3. InRange(n, Width(IntMarker(n)))
  BY <1>1, <1>2
<1>4. IntMarker(n) \in {Marker.Int8, Marker.Int16, Marker.Int32, Marker.Int64}
  BY <1>1
<1>5. /\ \A m \in {Marker.Int8, Marker.Int16, Marker.Int32, Marker.Int64} :
           m \in Byte /\ m # Marker.Char /\ m # Marker.Uint8
  BY DEF Marker, Byte
<1>6. QED BY <1>3, <1>4, <1>5, WidthBounds DEF isInteger, isFixedSize

LEMMA IntegerBack ==
  ASSUME NEW n \in Int, InRange(n, Width64)
  PROVE  /\ BigEndian(n, Width(IntMarker(n))) \in Seq(Byte)
         /\ Len(BigEndian(n, Width(IntMarker(n)))) = Width(IntMarker(n))
         /\ Signed(BigEndian(n, Width(IntMarker(n)))) = n
<1>1. Width(IntMarker(n)) \in 1 .. 8 /\ InRange(n, Width(IntMarker(n)))
  BY IntMarkerFacts
<1>2. QED BY <1>1, SignedBack, BigEndianBytes

LEMMA OneByte == ASSUME NEW m \in Byte, NEW c \in Byte
  PROVE  /\ <<m, c>> = <<m>> \o <<c>> /\ <<m>> \o <<>> = <<m>>
         /\ <<c>> \in Seq(Byte) /\ Len(<<c>>) = 1 /\ <<c>>[1] = c
<1>1. /\ <<m>> \in Seq(Byte) /\ <<c>> \in Seq(Byte) /\ Len(<<c>>) = 1 /\ <<c>>[1] = c
      /\ Len(<<m>>) = 1 /\ <<m>>[1] = m
  OBVIOUS
<1>2. <<m>> \o <<>> = <<m>>
  BY <1>1, ConcatEmptySeq
<1>3. <<m, c>> = <<m>> \o <<c>>
  <2> DEFINE p == <<m>>
             q == <<c>>
             t == <<m, c>>
  <2>1. /\ t \in Seq(Byte) /\ Len(t) = 2 /\ t[1] = m /\ t[2] = c
        /\ p \in Seq(Byte) /\ Len(p) = 1 /\ p[1] = m
        /\ q \in Seq(Byte) /\ Len(q) = 1 /\ q[1] = c
    OBVIOUS
  <2> HIDE DEF p, q, t
  <2> DEFINE u == p \o q
  <2>2. /\ u \in Seq(Byte) /\ Len(u) = Len(p) + Len(q)
        /\ \A n \in 1 .. Len(p) + Len(q) :
             u[n] = IF n <= Len(p) THEN p[n] ELSE q[n - Len(p)]
    BY <2>1, ConcatFacts
  <2> HIDE DEF u
  <2>3. Len(u) = 2 /\ u[1] = m /\ u[2] = c
    BY <2>1, <2>2
  <2>4. Len(t) = Len(u) /\ \A n \in 1 .. Len(t) : t[n] = u[n]
    BY <2>1, <2>3
  <2>5. t = u
    BY <2>1, <2>2, <2>4, SeqEqual
  <2>6. QED BY <2>5 DEF p, q, t, u
<1>4. QED BY <1>1, <1>2, <1>3

LEMMA DecodeByte ==
  ASSUME NEW buf
  PROVE  /\ Decode(Marker.Char, buf) = CharValue(buf[1])
         /\ Decode(Marker.Uint8, buf) = UnsignedValue(buf[1])
<1>1. /\ Marker.Uint8 # Marker.Char
      /\ ~isInteger(Marker.Char) /\ ~isInteger(Marker.Uint8)
  BY DEF Marker, isInteger
<1>2. \A m : m = Marker.Char /\ m # Marker.Uint8 /\ ~isInteger(m) =>
               Decode(m, buf) = CharValue(buf[1])
  BY DEF Decode
<1>3. \A m : m = Marker.Uint8 /\ m # Marker.Char /\ ~isInteger(m) =>
               Decode(m, buf) = UnsignedValue(buf[1])
  BY DEF Decode
<1>4. QED BY <1>1, <1>2, <1>3

LEMMA ScalarSplits ==
  ASSUME Exchangeable, NEW v \in Nodes, v.type \notin {"Array", "Map"}
  PROVE  \E m \in Byte, tk \in Seq(Byte) :
           ScalarBytes(v) = <<m>> \o tk /\ ScalarToken(v, m, tk)
<1>1. GivenBack(v) /\ WellFormed(v)
  BY WriterAssumption DEF Exchangeable
<1>2. v.type # "Binary"
  BY <1>1 DEF GivenBack
<1>3. CASE v.type = "Null"
  <2>1. v = NullValue
    BY <1>1, <1>3 DEF GivenBack
  <2>2. ScalarBytes(v) = <<Marker.Null>>
    BY <1>3 DEF ScalarBytes
  <2>3. Marker.Null \in Byte /\ <<>> \in Seq(Byte)
    BY DEF Marker, Byte
  <2>4. <<Marker.Null>> = <<Marker.Null>> \o <<>>
    BY <2>3, OneByte
  <2>5. ScalarToken(v, Marker.Null, <<>>)
    BY <2>1 DEF ScalarToken
  <2>6. QED BY <2>2, <2>3, <2>4, <2>5
<1>4. CASE v.type = "Bool"
  <2> DEFINE m == IF v.Bool THEN Marker.True ELSE Marker.False
  <2>1. v = BoolValue(v.Bool) /\ v.Bool \in BOOLEAN
    BY <1>1, <1>4 DEF GivenBack
  <2>2. ScalarBytes(v) = <<m>>
    BY <1>4 DEF ScalarBytes
  <2>3. m \in Byte /\ m \in {Marker.True, Marker.False} /\ <<>> \in Seq(Byte)
    BY DEF Marker, Byte
  <2>4. v.Bool = (m = Marker.True)
    BY <2>1 DEF Marker
  <2> HIDE DEF m
  <2>5. <<m>> = <<m>> \o <<>>
    BY <2>3, OneByte
  <2>6. ScalarToken(v, m, <<>>)
    BY <2>1, <2>3, <2>4 DEF ScalarToken
  <2>7. QED BY <2>2, <2>3, <2>5, <2>6
<1>5. CASE v.type = "Char"
  <2> DEFINE c == v.Char
             m == Marker.Char
  <2>1. v = CharValue(c) /\ c \in Byte /\ ScalarBytes(v) = <<m, c>>
    BY <1>1, <1>5 DEF GivenBack, WellFormed, ScalarBytes
  <2>2. m \in Byte /\ isFixedSize(m) /\ Width(m) = 1
    BY DEF Marker, Byte, isFixedSize, Width
  <2>3. Decode(m, <<c>>) = CharValue(c)
    BY <2>1, DecodeByte, OneByte, <2>2
  <2> HIDE DEF c, m
  <2>4. ScalarToken(v, m, <<c>>)
    BY <2>1, <2>2, <2>3, OneByte DEF ScalarToken
  <2>5. QED BY <2>1, <2>2, <2>4, OneByte
<1>6. CASE v.type = "UnsignedInt"
  <2> DEFINE c == v.UnsignedInt
             m == Marker.Uint8
  <2>1. v = UnsignedValue(c) /\ c \in Nat /\ c <= 255 /\ ScalarBytes(v) = <<m, c>>
    BY <1>1, <1>6 DEF GivenBack, WellFormed, ScalarBytes
  <2>2. m \in Byte /\ isFixedSize(m) /\ Width(m) = 1 /\ m # Marker.Char
    BY DEF Marker, Byte, isFixedSize, Width
  <2>21. c \in Byte
    BY <2>1 DEF Byte
  <2>3. Decode(m, <<c>>) = UnsignedValue(c)
    BY <2>21, DecodeByte, OneByte, <2>2
  <2> HIDE DEF c, m
  <2>4. ScalarToken(v, m, <<c>>)
    BY <2>1, <2>2, <2>21, <2>3, OneByte DEF ScalarToken
  <2>5. QED BY <2>1, <2>2, <2>21, <2>4, OneByte
<1>7. CASE v.type = "SignedInt"
  <2> DEFINE n == v.SignedInt
             m == IntMarker(n)
             tk == BigEndian(n, Width(m))
  <2>1. v = SignedValue(n) /\ n \in Int /\ InRange(n, Width64) /\ ScalarBytes(v) = <<m>> \o tk
    BY <1>1, <1>7 DEF GivenBack, WellFormed, ScalarBytes, IntBytes
  <2> HIDE DEF n
  <2>2. m \in Byte /\ isInteger(m) /\ isFixedSize(m) /\ m # Marker.Char /\ m # Marker.Uint8
    BY <2>1, IntMarkerFacts
  <2>3. tk \in Seq(Byte) /\ Len(tk) = Width(m) /\ Signed(tk) = n
    BY <2>1, IntegerBack
  <2> HIDE DEF m, tk
  <2>4. Decode(m, tk) = SignedValue(n)
    BY <2>2, <2>3 DEF Decode
  <2>5. ScalarToken(v, m, tk)
    BY <2>1, <2>2, <2>3, <2>4 DEF ScalarToken
  <2>6. QED BY <2>1, <2>2, <2>3, <2>5
<1>8. CASE v.type = "Float"
  <2> DEFINE m == v.Float[1]
             tk == v.Float[2]
  <2>1. /\ v = FloatValue(<<m, tk>>) /\ m \in {Marker.Float32, Marker.Float64}
        /\ tk \in Seq(Byte) /\ Len(tk) = Width(m) /\ v.Float \notin DOMAIN Rounded
    BY <1>1, <1>8 DEF GivenBack, WellFormed
  <2>2. ScalarBytes(v) = <<m>> \o tk
    BY <1>8, <2>1 DEF ScalarBytes, FloatBytes
  <2>3. m \in Byte /\ isFixedSize(m) /\ ~isInteger(m) /\ m # Marker.Char /\ m # Marker.Uint8
    BY <2>1 DEF Marker, Byte, isFixedSize, isInteger
  <2> HIDE DEF m, tk
  <2>4. Decode(m, tk) = FloatValue(<<m, tk>>)
    BY <2>3 DEF Decode
  <2>5. ScalarToken(v, m, tk)
    BY <2>1, <2>3, <2>4 DEF ScalarToken
  <2>6. QED BY <2>1, <2>2, <2>3, <2>5
<1>9. CASE v.type = "String"
  <2> DEFINE s == v.String
             m == Marker.String
             tk == IntBytes(Len(s)) \o s
  <2>1. v = StringValue(s) /\ s \in Seq(Byte) /\ InRange(Len(s), Width64)
    BY <1>1, <1>9 DEF GivenBack, WellFormed
  <2>2. ScalarBytes(v) = <<m>> \o IntBytes(Len(s)) \o s
    BY <1>9 DEF ScalarBytes
  <2> HIDE DEF s
  <2>3. IntBytes(Len(s)) \in Seq(Byte) /\ tk \in Seq(Byte) /\ m \in Byte
    BY <2>1, KeyBytesSize, IntBytesSize, LenProperties DEF Marker, Byte
  <2> HIDE DEF m
  <2>4. (<<m>> \o IntBytes(Len(s))) \o s = <<m>> \o tk
    BY <2>1, <2>3, ConcatThree
  <2>5. ScalarToken(v, m, tk)
    BY <2>1 DEF ScalarToken, m
  <2>6. QED BY <2>2, <2>3, <2>4, <2>5
<1>10. QED BY <1>1, <1>2, <1>3, <1>4, <1>5, <1>6, <1>7, <1>8, <1>9 DEF WellFormed

(* What comes first in the rest of a Value.                                *)
LEMMA HeadByte ==
  ASSUME NEW m \in Byte, NEW more \in Seq(Byte), NEW bs, bs = <<m>> \o more
  PROVE  bs \in Seq(Byte) /\ Len(bs) = 1 + Len(more) /\ bs[1] = m /\ Len(more) \in Nat
<1> DEFINE p == <<m>>
<1>1. p \in Seq(Byte) /\ Len(p) = 1 /\ p[1] = m
  OBVIOUS
<1>2. bs = p \o more
  OBVIOUS
<1> HIDE DEF p
<1> DEFINE u == p \o more
<1>3. /\ u \in Seq(Byte) /\ Len(u) = Len(p) + Len(more)
      /\ \A n \in 1 .. Len(p) + Len(more) :
           u[n] = IF n <= Len(p) THEN p[n] ELSE more[n - Len(p)]
  BY <1>1, ConcatFacts
<1> HIDE DEF u
<1>4. Len(more) \in Nat
  BY LenProperties
<1>5. u[1] = m /\ Len(u) = 1 + Len(more)
  BY <1>1, <1>3, <1>4
<1>6. QED BY <1>2, <1>3, <1>4, <1>5 DEF u

LEMMA RestOfScalar ==
  ASSUME Exchangeable, NEW p, p.mode = "append", Current(p).type \notin {"Array", "Map"},
         NEW rest, Continues(p, rest)
  PROVE  \E m \in Byte, tk \in Seq(Byte), more \in Seq(Byte) :
           /\ ScalarToken(Current(p), m, tk) /\ rest = <<m>> \o (tk \o more)
           /\ Continues(At(p.root, p.path, "return"), more)
<1>1. Placed(p) /\ ~AtEnd(p)
  BY ContinuesOn DEF AtEnd
<1>2. PICK e, q, more : /\ Emits(p, e, q) /\ e \in Seq(Byte)
                        /\ rest = e \o more /\ Continues(q, more)
  BY <1>1, ContinuesOn
<1>3. e = ScalarBytes(Current(p)) /\ q = At(p.root, p.path, "return")
  BY <1>2 DEF Emits, EmitsScalar, EmitsStart, EmitsNextItem, EmitsKey, EmitsEnd, Collects
<1>4. Current(p) \in Nodes /\ more \in Seq(Byte)
  BY <1>1, <1>2, PlaceFacts, ContinuesOn
<1>5. PICK m \in Byte, tk \in Seq(Byte) :
        e = <<m>> \o tk /\ ScalarToken(Current(p), m, tk)
  BY <1>3, <1>4, ScalarSplits
<1>6. rest = <<m>> \o (tk \o more)
  <2>1. <<m>> \in Seq(Byte)
    OBVIOUS
  <2>2. (<<m>> \o tk) \o more = <<m>> \o (tk \o more)
    BY <1>4, <2>1, ConcatThree
  <2>3. QED BY <1>2, <1>5, <2>2
<1>7. QED BY <1>2, <1>3, <1>4, <1>5, <1>6

LEMMA RestOfStart ==
  ASSUME NEW p, p.mode = "append", Current(p).type \in {"Array", "Map"},
         NEW rest, Continues(p, rest)
  PROVE  \E more, q :
           /\ more \in Seq(Byte)
           /\ rest = <<StartMarker(Current(p))>> \o more
           /\ q = At(p.root, Append(p.path, Opened(Current(p))), "next")
           /\ Continues(q, more)
           /\ EmitsStart(p, <<StartMarker(Current(p))>>, q)
<1>1. Placed(p) /\ ~AtEnd(p)
  BY ContinuesOn DEF AtEnd
<1>2. PICK e, q, more : /\ Emits(p, e, q) /\ e \in Seq(Byte)
                        /\ rest = e \o more /\ Continues(q, more)
  BY <1>1, ContinuesOn
<1>3. EmitsStart(p, e, q)
  BY <1>2 DEF Emits, EmitsScalar, EmitsStart, EmitsNextItem, EmitsKey, EmitsEnd, Collects
<1>4. /\ e = <<StartMarker(Current(p))>>
      /\ q = At(p.root, Append(p.path, Opened(Current(p))), "next")
  BY <1>3 DEF EmitsStart
<1>5. more \in Seq(Byte)
  BY <1>2, ContinuesOn
<1>6. QED BY <1>2, <1>3, <1>4, <1>5

LEMMA RestAtEnd ==
  ASSUME NEW p, p.mode = "next", AllBegun(Innermost(p)),
         NEW rest, Continues(p, rest)
  PROVE  \E more \in Seq(Byte) :
           /\ rest = <<EndMarker(Innermost(p).of)>> \o more
           /\ Continues(At(p.root, Outer(p.path), "return"), more)
<1>1. Placed(p) /\ ~AtEnd(p)
  BY ContinuesOn DEF AtEnd
<1>2. PICK e, q, more : /\ Emits(p, e, q) /\ e \in Seq(Byte)
                        /\ rest = e \o more /\ Continues(q, more)
  BY <1>1, ContinuesOn
<1>3. EmitsEnd(p, e, q)
  <2>1. ~EmitsKey(p, e, q)
    BY DEF EmitsKey, AllBegun
  <2>2. QED
    BY <1>2, <2>1 DEF Emits, EmitsScalar, EmitsStart, EmitsNextItem, EmitsEnd, Collects
<1>4. more \in Seq(Byte)
  BY <1>2, ContinuesOn
<1>5. QED BY <1>2, <1>3, <1>4 DEF EmitsEnd

LEMMA RestAtItem ==
  ASSUME NEW p, p.mode = "next", Innermost(p).of.type = "Array", ~AllBegun(Innermost(p)),
         NEW rest, Continues(p, rest)
  PROVE  Continues(At(p.root, Replace(p.path, NextIndex(Innermost(p))), "append"), rest)
<1>1. Placed(p) /\ ~AtEnd(p)
  BY ContinuesOn DEF AtEnd
<1>2. PICK e, q, more : /\ Emits(p, e, q) /\ e \in Seq(Byte)
                        /\ rest = e \o more /\ Continues(q, more)
  BY <1>1, ContinuesOn
<1>3. EmitsNextItem(p, e, q)
  BY <1>2 DEF Emits, EmitsScalar, EmitsStart, EmitsNextItem, EmitsKey, EmitsEnd, Collects
<1>4. e = <<>> /\ q = At(p.root, Replace(p.path, NextIndex(Innermost(p))), "append")
  BY <1>3 DEF EmitsNextItem
<1>5. <<>> \o more = more
  <2>1. more \in Seq(Byte)
    BY <1>2, ContinuesOn
  <2>2. QED BY <2>1, ConcatEmptySeq
<1>6. QED BY <1>2, <1>4, <1>5

LEMMA RestAtKey ==
  ASSUME NEW p, p.mode = "next", Innermost(p).of.type = "Map", ~AllBegun(Innermost(p)),
         NEW rest, Continues(p, rest)
  PROVE  \E k \in Innermost(p).keys, more \in Seq(Byte) :
           /\ rest = (IntBytes(Len(k)) \o k) \o more
           /\ Continues(At(p.root, Replace(p.path, TakeKey(Innermost(p), k)), "append"), more)
<1>1. Placed(p) /\ ~AtEnd(p)
  BY ContinuesOn DEF AtEnd
<1>2. PICK e, q, more : /\ Emits(p, e, q) /\ e \in Seq(Byte)
                        /\ rest = e \o more /\ Continues(q, more)
  BY <1>1, ContinuesOn
<1>3. EmitsKey(p, e, q)
  BY <1>2 DEF Emits, EmitsScalar, EmitsStart, EmitsNextItem, EmitsKey, EmitsEnd, Collects
<1>4. more \in Seq(Byte)
  BY <1>2, ContinuesOn
<1>5. QED BY <1>2, <1>3, <1>4 DEF EmitsKey

LEMMA RestAfterItem ==
  ASSUME NEW p, p.mode = "return", p.path # <<>>,
         NEW rest, Continues(p, rest)
  PROVE  Continues(At(p.root, p.path, "next"), rest)
<1>1. Placed(p) /\ ~AtEnd(p)
  BY ContinuesOn DEF AtEnd
<1>2. PICK e, q, more : /\ Emits(p, e, q) /\ e \in Seq(Byte)
                        /\ rest = e \o more /\ Continues(q, more)
  BY <1>1, ContinuesOn
<1>3. Collects(p, e, q)
  BY <1>2 DEF Emits, EmitsScalar, EmitsStart, EmitsNextItem, EmitsKey, EmitsEnd, Collects
<1>4. e = <<>> /\ q = At(p.root, p.path, "next")
  BY <1>3 DEF Collects
<1>5. <<>> \o more = more
  <2>1. more \in Seq(Byte)
    BY <1>2, ContinuesOn
  <2>2. QED BY <2>1, ConcatEmptySeq
<1>6. QED BY <1>2, <1>4, <1>5

LEMMA RestAfterRoot ==
  ASSUME NEW p, p.mode = "return", p.path = <<>>, NEW rest, Continues(p, rest)
  PROVE  rest = <<>>
<1>1. \A e, q : ~Emits(p, e, q)
  BY DEF Emits, EmitsScalar, EmitsStart, EmitsNextItem, EmitsKey, EmitsEnd, Collects
<1>2. QED BY <1>1, ContinuesOn

LEMMA ElementByte ==
  ASSUME Exchangeable, NEW p, p.mode = "append", NEW rest, Continues(p, rest)
  PROVE  /\ rest \in Seq(Byte) /\ Len(rest) \in Nat /\ Len(rest) >= 1
         /\ rest[1] \in Byte /\ ~isOptimizedMarker(rest[1]) /\ rest[1] # Marker.Array_End
<1>1. CASE Current(p).type \notin {"Array", "Map"}
  <2>1. PICK m \in Byte, tk \in Seq(Byte), more \in Seq(Byte) :
           /\ ScalarToken(Current(p), m, tk) /\ rest = <<m>> \o (tk \o more)
           /\ Continues(At(p.root, p.path, "return"), more)
    BY <1>1, RestOfScalar, Zenon
  <2>2. tk \o more \in Seq(Byte)
    BY ConcatProperties
  <2>3. rest \in Seq(Byte) /\ Len(rest) = 1 + Len(tk \o more) /\ rest[1] = m /\ Len(tk \o more) \in Nat
    BY <2>1, <2>2, HeadByte
  <2>4. ~isOptimizedMarker(m) /\ m # Marker.Array_End
    <3>1. m \in {Marker.Null, Marker.True, Marker.False, Marker.String} \/ isFixedSize(m)
      BY <2>1 DEF ScalarToken
    <3>2. QED BY <3>1, SMTT(30) DEF isFixedSize, isInteger, isOptimizedMarker, Marker
  <2> DEFINE n == Len(tk \o more)
  <2> HIDE DEF n
  <2>5. Len(rest) = 1 + n /\ n \in Nat
    BY <2>3 DEF n
  <2>6. QED BY <2>3, <2>4, <2>5
<1>2. CASE Current(p).type \in {"Array", "Map"}
  <2> DEFINE m == StartMarker(Current(p))
  <2>1. PICK more : more \in Seq(Byte) /\ rest = <<m>> \o more
    BY <1>2, RestOfStart
  <2>2. m \in Byte /\ ~isOptimizedMarker(m) /\ m # Marker.Array_End
    BY DEF StartMarker, Marker, Byte, isOptimizedMarker
  <2> HIDE DEF m
  <2>3. rest \in Seq(Byte) /\ Len(rest) = 1 + Len(more) /\ rest[1] = m /\ Len(more) \in Nat
    BY <2>1, <2>2, HeadByte
  <2>4. QED BY <2>2, <2>3
<1>3. QED BY <1>1, <1>2

(* An element's first byte is never taken for the end of its container,    *)
(* nor is what follows the start marker taken for a header.                *)
LEMMA LoopByte ==
  ASSUME Exchangeable, NEW p, p.mode = "next", NEW rest, Continues(p, rest)
  PROVE  /\ rest \in Seq(Byte) /\ Len(rest) \in Nat /\ Len(rest) >= 1
         /\ rest[1] \in Byte /\ ~isOptimizedMarker(rest[1])
         /\ is_container_end(IF Innermost(p).of.type = "Array" THEN "Array" ELSE "Object", rest[1])
              <=> AllBegun(Innermost(p))
<1> DEFINE l == Innermost(p)
<1>1. Placed(p) /\ LevelOK(l)
  BY ContinuesOn, PlaceFacts
<1>2. /\ (l.of.type = "Array" \/ l.of.type = "Map")
      /\ GivenBack(l.of)
  BY <1>1, LevelFacts DEF Exchangeable
<1> HIDE DEF l
<1>3. CASE AllBegun(l)
  <2> DEFINE m == EndMarker(l.of)
  <2>1. PICK more \in Seq(Byte) : rest = <<m>> \o more
    BY <1>3, RestAtEnd DEF l
  <2>2. /\ m \in Byte /\ ~isOptimizedMarker(m)
        /\ is_container_end(IF l.of.type = "Array" THEN "Array" ELSE "Object", m)
    BY DEF EndMarker, Marker, Byte, isOptimizedMarker, is_container_end
  <2> HIDE DEF m
  <2>3. rest \in Seq(Byte) /\ Len(rest) = 1 + Len(more) /\ rest[1] = m /\ Len(more) \in Nat
    BY <2>1, <2>2, HeadByte
  <2>4. QED BY <1>3, <2>2, <2>3 DEF l
<1>4. CASE ~AllBegun(l) /\ l.of.type = "Array"
  <2>1. PICK q : q = At(p.root, Replace(p.path, NextIndex(l)), "append")
    OBVIOUS
  <2>2. Continues(q, rest) /\ q.mode = "append"
    BY <1>4, <2>1, RestAtItem, AtParts DEF l
  <2>3. /\ rest \in Seq(Byte) /\ Len(rest) \in Nat /\ Len(rest) >= 1
        /\ rest[1] \in Byte /\ ~isOptimizedMarker(rest[1]) /\ rest[1] # Marker.Array_End
    BY <2>2, ElementByte
  <2>4. ~is_container_end("Array", rest[1])
    BY <2>3 DEF is_container_end
  <2>5. QED BY <1>4, <2>3, <2>4 DEF l
<1>5. CASE ~AllBegun(l) /\ l.of.type = "Map"
  <2>1. PICK k \in l.keys, more \in Seq(Byte) : rest = (IntBytes(Len(k)) \o k) \o more
    BY <1>5, RestAtKey DEF l
  <2>2. k \in Seq(Byte) /\ Len(k) \in Int /\ InRange(Len(k), Width64)
    <3>1. k \in DOMAIN l.of.Map /\ k \in Seq(Byte)
      BY <1>1, <1>5, LevelFacts
    <3>2. QED BY <1>2, <1>5, <3>1, LenProperties DEF GivenBack
  <2> DEFINE m == IntMarker(Len(k))
             ds == BigEndian(Len(k), Width(IntMarker(Len(k))))
  <2>3. m \in Byte /\ isInteger(m) /\ ds \in Seq(Byte) /\ IntBytes(Len(k)) = <<m>> \o ds
    BY <2>2, IntMarkerFacts, IntegerBack DEF IntBytes
  <2> HIDE DEF m, ds
  <2>4. PICK tail \in Seq(Byte) : rest = <<m>> \o tail
    <3>1. <<m>> \in Seq(Byte)
      BY <2>3
    <3>2. (<<m>> \o ds) \o k = <<m>> \o (ds \o k) /\ ds \o k \in Seq(Byte)
      BY <2>2, <2>3, <3>1, ConcatThree
    <3>3. (<<m>> \o (ds \o k)) \o more = <<m>> \o ((ds \o k) \o more) /\ (ds \o k) \o more \in Seq(Byte)
      BY <3>1, <3>2, ConcatThree
    <3>4. QED BY <2>1, <2>3, <3>2, <3>3
  <2>5. rest \in Seq(Byte) /\ Len(rest) = 1 + Len(tail) /\ rest[1] = m /\ Len(tail) \in Nat
    BY <2>3, <2>4, HeadByte
  <2>6. ~isOptimizedMarker(m) /\ ~is_container_end("Object", m)
    BY <2>3 DEF isInteger, Marker, isOptimizedMarker, is_container_end
  <2>7. QED BY <1>5, <2>3, <2>5, <2>6 DEF l
<1>6. QED BY <1>2, <1>3, <1>4, <1>5

-----------------------------------------------------------------------------
(* The reader goes from place to place.                                    *)

(* The reader in the middle of a call, and one step later.                 *)
Reading(p, tok, rest, later) ==
  /\ ReaderAt(p, tok, rest, later)
  /\ sent \in Seq(Messages) /\ sent # <<>>
  /\ pc # "idle" /\ result = "none" /\ given = NullValue

Lands ==
  /\ pc' # "idle" /\ UNCHANGED <<result, given>>
  /\ \E q, t, more, later : ReaderAt(q, t, more, later)'

LEMMA ReadingFacts ==
  ASSUME IndInv, NEW p, NEW tok, NEW rest, NEW later, Reading(p, tok, rest, later)
  PROVE  /\ tok \in Seq(Byte) /\ rest \in Seq(Byte) /\ later \in Seq(Byte)
         /\ Len(tok) \in Nat /\ Len(rest) \in Nat
         /\ stream = tok \o (rest \o later) /\ stream \in Seq(Byte)
         /\ bytes_so_far \in Nat
         /\ bytes_so_far + Len(tok) + Len(rest) = Head(sent).size
         /\ bytes_so_far + Len(tok) + Len(rest) <= MaxObjectSize
         /\ Placed(p) /\ Continues(p, rest) /\ FramesFollow(p) /\ Midway(p, tok)
         /\ frames \in Seq(Frame) /\ Len(frames) \in Nat
<1>1. ReaderAt(p, tok, rest, later) /\ stream \in Seq(Byte) /\ bytes_so_far \in Nat
  BY DEF Reading, IndInv, TypeOK
<1>2. frames \in Seq(Frame) /\ Len(frames) \in Nat
  BY LenProperties DEF IndInv, TypeOK
<1>3. Head(sent) \in Messages
  BY HeadTailProperties DEF Reading
<1>4. Head(sent).size <= MaxObjectSize
  BY <1>3 DEF Messages
<1>5. Len(tok) \in Nat /\ Len(rest) \in Nat
  BY <1>1, LenProperties DEF ReaderAt
<1>6. bytes_so_far + Len(tok) + Len(rest) = Head(sent).size
  BY <1>1 DEF ReaderAt
<1>7. bytes_so_far + Len(tok) + Len(rest) <= MaxObjectSize
  BY <1>4, <1>6
<1>8. QED BY <1>1, <1>2, <1>5, <1>6, <1>7 DEF ReaderAt

(* A read of bytes that are there yields them and leaves the others.       *)
Delivers(n, piece) == \A buf : buf \in Read(n) => buf = piece

LEMMA TakePiece ==
  ASSUME NEW piece \in Seq(Byte), NEW others \in Seq(Byte), stream = piece \o others,
         NEW n, n = Len(piece)
  PROVE  /\ Delivers(n, piece)
         /\ Consume(n) => stream' = others /\ bytes_so_far' = bytes_so_far + n
<1> DEFINE s == piece \o others
<1>1. /\ s \in Seq(Byte) /\ Len(s) = Len(piece) + Len(others)
      /\ \A i \in 1 .. Len(piece) + Len(others) :
           s[i] = IF i <= Len(piece) THEN piece[i] ELSE others[i - Len(piece)]
  BY ConcatFacts
<1>2. stream = s
  OBVIOUS
<1>3. n \in Nat /\ Len(others) \in Nat
  BY LenProperties
<1>4. Delivered(n) = n
  <2> HIDE DEF s
  <2>1. QED BY <1>1, <1>2, <1>3 DEF Delivered
<1>5. SubSeq(s, n + 1, Len(s)) = others
  <2>1. CASE Len(others) = 0
    <3>1. others = <<>>
      BY <2>1, EmptySeq
    <3>2. n + 1 > Len(s)
      <4> HIDE DEF s
      <4>1. QED BY <1>1, <1>3, <2>1
    <3>3. SubSeq(s, n + 1, Len(s)) = <<>>
      <4> HIDE DEF s
      <4>1. Len(s) \in Nat
        BY <1>1, <1>3
      <4>2. QED BY <1>1, <1>3, <3>2, <4>1
    <3>4. QED BY <3>1, <3>3
  <2>2. CASE Len(others) > 0
    <3>1. /\ n + 1 \in Len(piece) + 1 .. Len(piece) + Len(others)
          /\ Len(piece) + Len(others) \in Len(piece) + 1 .. Len(piece) + Len(others)
          /\ n + 1 - Len(piece) = 1 /\ Len(piece) + Len(others) - Len(piece) = Len(others)
      BY <1>3, <2>2
    <3>2. SubSeq(piece \o others, n + 1, Len(piece) + Len(others))
            = SubSeq(others, n + 1 - Len(piece), Len(piece) + Len(others) - Len(piece))
      BY <3>1, SubSeqOfConcat2
    <3>3. SubSeq(others, 1, Len(others)) = others
      BY SubSeqFull
    <3>4. QED BY <1>1, <3>1, <3>2, <3>3
  <2>3. QED BY <1>3, <2>1, <2>2
<1>6. Delivers(n, piece)
  <2>1. SUFFICES ASSUME NEW buf, buf \in Read(n) PROVE buf = piece
    BY DEF Delivers
  <2>2. PICK junk : buf = [i \in 1..n |-> IF i <= Len(stream) THEN stream[i] ELSE junk[i]]
    BY <2>1 DEF Read
  <2>3. buf \in Seq(Byte) /\ Len(buf) = n
    BY <1>1, <1>2, <1>3, <2>1, ReadYields
  <2>4. \A i \in 1 .. n : buf[i] = piece[i]
    <3>1. \A i \in 1 .. n : buf[i] = IF i <= Len(stream) THEN stream[i] ELSE junk[i]
      BY <2>2
    <3>2. \A i \in 1 .. n : i <= Len(s) /\ s[i] = piece[i]
      <4> HIDE DEF s
      <4>1. QED BY <1>1, <1>3
    <3> HIDE DEF s
    <3>3. QED BY <1>2, <3>1, <3>2
  <2>5. QED BY <2>3, <2>4, SeqEqual
<1>7. ASSUME Consume(n)
      PROVE  stream' = others /\ bytes_so_far' = bytes_so_far + n
  BY <1>2, <1>4, <1>5, <1>7 DEF Consume
<1>8. QED BY <1>6, <1>7

LEMMA FitsWhen ==
  ASSUME bytes_so_far \in Nat, NEW n \in Nat, bytes_so_far + n <= MaxObjectSize
  PROVE  Fits(n)
<1>1. bytes_so_far + n \in 0 .. SizeMod - 1
  BY ReaderAssumption
<1>2. (bytes_so_far + n) % SizeMod = bytes_so_far + n
  BY <1>1, ReaderAssumption
<1>3. QED BY <1>2 DEF Fits

Joins(v, u, t) == v = u \o t

LEMMA JoinExists ==
  ASSUME NEW u \in Seq(Byte), NEW t \in Seq(Byte)
  PROVE  \E v \in Seq(Byte) : Joins(v, u, t)
  BY ConcatProperties DEF Joins

LEMMA JoinLength ==
  ASSUME NEW v, NEW u \in Seq(Byte), NEW t \in Seq(Byte), Joins(v, u, t)
  PROVE  Len(v) = Len(u) + Len(t) /\ Len(u) \in Nat /\ Len(t) \in Nat
  BY ConcatProperties, LenProperties DEF Joins

LEMMA JoinOut ==
  ASSUME NEW r \in Seq(Byte), NEW s \in Seq(Byte), NEW t \in Seq(Byte),
         NEW u, Joins(u, r, s), NEW w, Joins(w, s, t), NEW v, Joins(v, r, w)
  PROVE  Joins(v, u, t)
<1>1. (r \o s) \o t = r \o (s \o t)
  BY ConcatThree
<1>2. QED BY <1>1, Zenon DEF Joins

LEMMA JoinIn ==
  ASSUME NEW r \in Seq(Byte), NEW s \in Seq(Byte), NEW t \in Seq(Byte),
         NEW u, Joins(u, r, s), NEW w, Joins(w, s, t), NEW v, Joins(v, u, t)
  PROVE  Joins(v, r, w)
<1>1. (r \o s) \o t = r \o (s \o t)
  BY ConcatThree
<1>2. QED BY <1>1, Zenon DEF Joins

(* What is left of a message before a read, and after it.                  *)
Comprises(tok, rest, piece, t, more) == tok \o rest = piece \o (t \o more)
Holds(st, t, more, later) == st = t \o (more \o later)
Counts(n, tok, rest, size) == n + Len(tok) + Len(rest) = size
SameLength(tok, rest, n, t, more) == Len(tok) + Len(rest) = n + Len(t) + Len(more)

LEMMA LengthsAdd ==
  ASSUME NEW u, NEW w, NEW tok, NEW rest, NEW piece, NEW t, NEW more,
         Len(u) = Len(tok) + Len(rest), Len(u) = Len(piece) + Len(w),
         Len(w) = Len(t) + Len(more),
         Len(piece) \in Nat, Len(t) \in Nat, Len(more) \in Nat
  PROVE  SameLength(tok, rest, Len(piece), t, more)
  BY DEF SameLength

LEMMA SumsAgree ==
  ASSUME NEW a \in Nat, NEW n \in Nat, NEW i \in Nat, NEW j \in Nat, NEW k \in Nat,
         NEW l \in Nat, NEW z, i + j = n + k + l, a + i + j = z
  PROVE  (a + n) + k + l = z
  OBVIOUS

LEMMA BudgetLeft ==
  ASSUME NEW tok \in Seq(Byte), NEW rest \in Seq(Byte), NEW piece \in Seq(Byte),
         NEW t \in Seq(Byte), NEW more \in Seq(Byte), NEW n, n = Len(piece),
         SameLength(tok, rest, n, t, more),
         NEW a1 \in Nat, NEW z, Counts(a1, tok, rest, z), NEW a2, a2 = a1 + n
  PROVE  Counts(a2, t, more, z)
<1>1. /\ Len(tok) \in Nat /\ Len(rest) \in Nat /\ n \in Nat /\ Len(t) \in Nat
      /\ Len(more) \in Nat
  BY LenProperties, Zenon
<1> DEFINE i == Len(tok)  j == Len(rest)  k == Len(t)  l == Len(more)
<1>2. i + j = n + k + l /\ a1 + i + j = z
  BY DEF SameLength, Counts
<1>3. i \in Nat /\ j \in Nat /\ n \in Nat /\ k \in Nat /\ l \in Nat
  BY <1>1
<1> HIDE DEF i, j, k, l
<1>4. (a1 + n) + k + l = z
  BY <1>2, <1>3, SumsAgree, SMTT(30)
<1>5. a2 + k + l = z
  BY <1>4, ZenonT(30)
<1>6. QED BY <1>5 DEF Counts, k, l

LEMMA Regroup ==
  ASSUME NEW tok \in Seq(Byte), NEW rest \in Seq(Byte), NEW later \in Seq(Byte),
         NEW piece \in Seq(Byte), NEW t \in Seq(Byte), NEW more \in Seq(Byte),
         Comprises(tok, rest, piece, t, more), NEW st, Holds(st, tok, rest, later)
  PROVE  /\ \E others \in Seq(Byte) : Joins(st, piece, others) /\ Holds(others, t, more, later)
         /\ SameLength(tok, rest, Len(piece), t, more)
<1>1. PICK u \in Seq(Byte) : Joins(u, tok, rest)
  BY JoinExists
<1>2. PICK w \in Seq(Byte) : Joins(w, t, more)
  BY JoinExists
<1>3. PICK x \in Seq(Byte) : Joins(x, rest, later)
  BY JoinExists
<1>4. PICK y \in Seq(Byte) : Joins(y, more, later)
  BY JoinExists
<1>5. PICK others \in Seq(Byte) : Joins(others, t, y)
  BY JoinExists
<1>6. Joins(u, piece, w)
  BY <1>1, <1>2, Zenon DEF Joins, Comprises
<1>7. Joins(st, tok, x)
  BY <1>3, Zenon DEF Joins, Holds
<1>8. Joins(st, u, later)
  BY <1>1, <1>3, <1>7, JoinOut, ZenonT(30)
<1>9. Joins(others, w, later)
  BY <1>2, <1>4, <1>5, JoinOut, Zenon
<1>10. Joins(st, piece, others)
  BY <1>6, <1>8, <1>9, JoinIn, Zenon
<1>11. Holds(others, t, more, later)
  BY <1>4, <1>5, Zenon DEF Joins, Holds
<1>12. SameLength(tok, rest, Len(piece), t, more)
  <2>1. Len(u) = Len(tok) + Len(rest)
    BY <1>1, JoinLength, ZenonT(30)
  <2>2. Len(u) = Len(piece) + Len(w) /\ Len(piece) \in Nat
    <3>1. Len(u) = Len(piece) + Len(w)
      BY <1>6, JoinLength
    <3>2. Len(piece) \in Nat
      BY LenProperties, Zenon
    <3>3. QED BY <3>1, <3>2
  <2>3. Len(w) = Len(t) + Len(more) /\ Len(t) \in Nat /\ Len(more) \in Nat
    BY <1>2, JoinLength, Zenon
  <2>4. QED BY <2>1, <2>2, <2>3, LengthsAdd, Zenon
<1>13. QED BY <1>10, <1>11, <1>12, Zenon

(* Taking a piece of what is left of the message.                          *)
LEMMA ReaderTakes ==
  ASSUME IndInv, NEW p, NEW tok, NEW rest, NEW later, Reading(p, tok, rest, later),
         NEW piece \in Seq(Byte), NEW t \in Seq(Byte), NEW more \in Seq(Byte),
         Comprises(tok, rest, piece, t, more), NEW n, n = Len(piece)
  PROVE  /\ Delivers(n, piece)
         /\ Consume(n) =>
              /\ Holds(stream', t, more, later)
              /\ Counts(bytes_so_far', t, more, Head(sent).size)
<1>1. tok \in Seq(Byte) /\ rest \in Seq(Byte) /\ later \in Seq(Byte)
  BY DEF Reading, ReaderAt
<1>2. Holds(stream, tok, rest, later)
  BY DEF Reading, ReaderAt, Holds
<1>3. /\ \E others \in Seq(Byte) : Joins(stream, piece, others) /\ Holds(others, t, more, later)
      /\ SameLength(tok, rest, Len(piece), t, more)
  BY <1>1, <1>2, Regroup, Zenon
<1>4. PICK others \in Seq(Byte) : Joins(stream, piece, others) /\ Holds(others, t, more, later)
  BY <1>3, Zenon
<1>5. /\ Delivers(n, piece)
      /\ Consume(n) => stream' = others /\ bytes_so_far' = bytes_so_far + n
  <2>1. stream = piece \o others
    BY <1>4, Zenon DEF Joins
  <2>2. QED BY <2>1, TakePiece
<1>6. ASSUME bytes_so_far' = bytes_so_far + n
      PROVE  Counts(bytes_so_far', t, more, Head(sent).size)
  <2>1. SameLength(tok, rest, n, t, more)
    BY <1>3, Zenon
  <2>2. Counts(bytes_so_far, tok, rest, Head(sent).size)
    BY DEF Reading, ReaderAt, Counts
  <2>3. bytes_so_far \in Nat
    BY DEF IndInv, TypeOK
  <2>4. QED BY <1>1, <1>6, <2>1, <2>2, <2>3, BudgetLeft, Zenon
<1>7. QED BY <1>4, <1>5, <1>6

LEMMA ReaderLands ==
  ASSUME NEW p, NEW tok, NEW rest, NEW later, Reading(p, tok, rest, later),
         NEW q, Placed(q), q.root = p.root, NEW t \in Seq(Byte), NEW more, Continues(q, more),
         Holds(stream', t, more, later),
         Counts(bytes_so_far', t, more, Head(sent).size),
         FramesFollow(q)', Midway(q, t)', UNCHANGED <<sent, result, given>>, pc' # "idle"
  PROVE  Lands
<1>1. more \in Seq(Byte)
  BY ContinuesOn
<1>2. ReaderAt(q, t, more, later)'
  <2>1. /\ later \in Seq(Byte) /\ Carries(Tail(sent'), later)
        /\ q.root = Head(sent').value
    BY DEF Reading, ReaderAt
  <2>2. bytes_so_far' + Len(t) + Len(more) = Head(sent').size
    BY DEF Counts
  <2>3. QED BY <1>1, <2>1, <2>2 DEF ReaderAt, Holds
<1>3. QED BY <1>2 DEF Lands

(* Frames that a step leaves alone still follow the place.                 *)
LEMMA FollowsStill ==
  ASSUME NEW p, NEW q, FramesFollow(p),
         NEW n \in 1 .. Len(frames), n <= Len(p.path), q.path[n] = p.path[n],
         Busy(q, n) <=> Busy(p, n), vals'[n] = vals[n],
         frames'[n].type = frames[n].type, frames'[n].key = frames[n].key,
         ReadingKey /\ n = Len(frames) => ReadingKey' /\ n = Len(frames')
  PROVE  Follows(q, n)'
<1>1. Follows(p, n)
  BY DEF FramesFollow
<1>2. Held(q.path[n], Busy(q, n)) = Held(p.path[n], Busy(p, n))
  <2>1. CASE Busy(p, n)
    BY <2>1 DEF Held, HeldItems, HeldKeys
  <2>2. CASE ~Busy(p, n)
    BY <2>2 DEF Held, HeldItems, HeldKeys
  <2>3. QED BY <2>1, <2>2
<1>3. vals'[n] = Held(q.path[n], Busy(q, n))
  BY <1>1, <1>2 DEF Follows
<1>4. frames'[n].type = IF q.path[n].of.type = "Array" THEN "Array" ELSE "Object"
  BY <1>1 DEF Follows
<1>5. q.path[n].of.type = "Map" /\ Busy(q, n) /\ ~(ReadingKey' /\ n = Len(frames'))
        => frames'[n].key = q.path[n].key
  BY <1>1 DEF Follows
<1>6. QED BY <1>3, <1>4, <1>5 DEF Follows

(* In particular all of them, when only what they hold next is under way.  *)
LEMMA FramesFollowStill ==
  ASSUME NEW p, NEW q, FramesFollow(p), UNCHANGED frames,
         \A n \in 1 .. Len(frames) : vals'[n] = vals[n],
         ReadingKey => ReadingKey',
         \A n \in 1 .. Len(frames) : n <= Len(q.path) =>
            /\ n <= Len(p.path) /\ q.path[n] = p.path[n] /\ (Busy(q, n) <=> Busy(p, n))
  PROVE  FramesFollow(q)'
<1>1. \A n \in 1 .. Len(frames) : ~frames'[n].is_valid
  BY DEF FramesFollow
<1>2. ASSUME NEW n \in 1 .. Len(frames), n <= Len(q.path) PROVE Follows(q, n)'
  BY <1>2, FollowsStill
<1>3. QED BY <1>1, <1>2 DEF FramesFollow

(* What is left of a message is cut in these ways.                         *)
LEMMA FromRest ==
  ASSUME NEW rest \in Seq(Byte), NEW w \in Seq(Byte), NEW piece \in Seq(Byte),
         NEW t, NEW more, Joins(w, t, more), Joins(rest, piece, w)
  PROVE  Comprises(<<>>, rest, piece, t, more)
<1>1. <<>> \o rest = rest
  BY ConcatEmptySeq
<1>2. rest = piece \o (t \o more)
  BY Zenon DEF Joins
<1>3. QED BY <1>1, <1>2, Zenon DEF Comprises

LEMMA FromToken ==
  ASSUME NEW tok, NEW piece \in Seq(Byte), NEW t \in Seq(Byte), Joins(tok, piece, t),
         NEW rest \in Seq(Byte)
  PROVE  Comprises(tok, rest, piece, t, rest)
<1>1. (piece \o t) \o rest = piece \o (t \o rest)
  BY ConcatThree
<1>2. QED BY <1>1, Zenon DEF Comprises, Joins

LEMMA OnePiece ==
  ASSUME NEW m \in Byte
  PROVE  \E piece \in Seq(Byte) : piece = <<m>> /\ Len(piece) = 1
<1>1. <<m>> \in Seq(Byte) /\ Len(<<m>>) = 1
  OBVIOUS
<1>2. QED BY <1>1, Zenon

LEMMA DeliversOne ==
  ASSUME NEW m \in Byte, Delivers(1, <<m>>)
  PROVE  \A buf \in Read(1) : buf[1] = m
<1>1. SUFFICES ASSUME NEW buf \in Read(1) PROVE buf[1] = m
  OBVIOUS
<1>2. buf = <<m>>
  BY <1>1, Zenon DEF Delivers
<1>3. QED BY <1>2

(* A step that reads nothing.                                              *)
LEMMA NothingRead ==
  ASSUME NEW p, NEW tok, NEW rest, NEW later, Reading(p, tok, rest, later),
         stream' = stream, bytes_so_far' = bytes_so_far
  PROVE  /\ Holds(stream', tok, rest, later)
         /\ Counts(bytes_so_far', tok, rest, Head(sent).size)
  BY DEF Reading, ReaderAt, Holds, Counts

(* What a scalar's marker makes extract_singleValueTo do.                  *)
TakesScalar(v, m, tk) ==
  \/ SetValue(v) /\ UNCHANGED use /\ pc' = "store" /\ tk = <<>>
  \/ /\ UNCHANGED <<vals, use>> /\ pc' = "payload"
     /\ Len(tk) = Width(m) /\ Decode(m, tk) = v
  \/ /\ UNCHANGED vals /\ use' = "string" /\ pc' = "integer"
     /\ \E s \in Seq(Byte) : v = StringValue(s) /\ tk = IntBytes(Len(s)) \o s

LEMMA DispatchScalar ==
  ASSUME NEW v, NEW m, NEW tk, ScalarToken(v, m, tk), Dispatch(m)
  PROVE  TakesScalar(v, m, tk)
<1>1. CASE v = NullValue /\ m = Marker.Null /\ tk = <<>>
  <2>1. /\ ~isFixedSize(m) /\ ~isContainerStart(m)
        /\ m \notin {Marker.String, Marker.Binary}
        /\ m \in {Marker.Null, Marker.True, Marker.False}
    BY <1>1 DEF Marker, isFixedSize, isInteger, isContainerStart
  <2>2. QED BY <1>1, <2>1 DEF Dispatch, TakesScalar
<1>2. CASE m \in {Marker.True, Marker.False} /\ v = BoolValue(m = Marker.True) /\ tk = <<>>
  <2>1. /\ ~isFixedSize(m) /\ ~isContainerStart(m)
        /\ m \notin {Marker.String, Marker.Binary} /\ m # Marker.Null
        /\ m \in {Marker.Null, Marker.True, Marker.False}
    BY <1>2 DEF Marker, isFixedSize, isInteger, isContainerStart
  <2>2. QED BY <1>2, <2>1 DEF Dispatch, TakesScalar
<1>3. CASE isFixedSize(m) /\ Len(tk) = Width(m) /\ Decode(m, tk) = v
  <2>1. /\ ~isContainerStart(m)
        /\ m \notin {Marker.String, Marker.Binary}
        /\ m \notin {Marker.Null, Marker.True, Marker.False}
    BY <1>3, SMTT(30) DEF Marker, isFixedSize, isInteger, isContainerStart
  <2>2. QED BY <1>3, <2>1 DEF Dispatch, TakesScalar
<1>4. CASE /\ m = Marker.String
           /\ \E s \in Seq(Byte) : v = StringValue(s) /\ tk = IntBytes(Len(s)) \o s
  <2>1. /\ ~isFixedSize(m) /\ ~isContainerStart(m)
        /\ m \notin {Marker.Null, Marker.True, Marker.False}
        /\ m \in {Marker.String, Marker.Binary}
    BY <1>4 DEF Marker, isFixedSize, isInteger, isContainerStart
  <2>2. QED BY <1>4, <2>1 DEF Dispatch, TakesScalar
<1>5. QED
  <2>1. ASSUME m = Marker.String,
               \E s \in Seq(Byte) : /\ v = StringValue(s) /\ InRange(Len(s), Width64)
                                    /\ tk = IntBytes(Len(s)) \o s
        PROVE  \E s \in Seq(Byte) : v = StringValue(s) /\ tk = IntBytes(Len(s)) \o s
    BY <2>1, Zenon
  <2>2. QED BY <1>1, <1>2, <1>3, <1>4, <2>1, Zenon DEF ScalarToken

LEMMA DispatchStart ==
  ASSUME NEW m, isContainerStart(m), Dispatch(m)
  PROVE  UNCHANGED <<vals, use>> /\ pc' = "container"
<1>1. /\ ~isFixedSize(m)
      /\ m \notin {Marker.String, Marker.Binary}
      /\ m \notin {Marker.Null, Marker.True, Marker.False}
  BY DEF Marker, isFixedSize, isInteger, isContainerStart
<1>2. QED BY <1>1 DEF Dispatch

LEMMA NotTyped ==
  ASSUME NEW p, FramesFollow(p), Len(frames) \in Nat, frames \in Seq(Frame)
  PROVE  ~TypedElement /\ (frames # <<>> => ~Top.is_valid)
<1>1. frames # <<>> => Len(frames) \in 1 .. Len(frames)
  BY EmptySeq
<1>2. QED BY <1>1 DEF FramesFollow, TypedElement, Top

(* Frames follow a place that only what they hold next has moved from.     *)
LEMMA SameFrames ==
  ASSUME NEW p, NEW q, FramesFollow(p), UNCHANGED frames, Len(frames) \in Nat,
         \A n \in 1 .. Len(frames) : vals'[n] = vals[n],
         ReadingKey => ReadingKey', Len(frames) <= Len(p.path),
         q.path = p.path, q.mode = p.mode \/ (p.mode # "next" /\ q.mode # "next")
  PROVE  FramesFollow(q)'
<1>1. \A n \in 1 .. Len(frames) : n <= Len(q.path) =>
            /\ n <= Len(p.path) /\ q.path[n] = p.path[n] /\ (Busy(q, n) <=> Busy(p, n))
  BY DEF Busy
<1>2. QED BY <1>1, FramesFollowStill

LEMMA ReadMarkerLands ==
  ASSUME IndInv, Exchangeable, NEW p, NEW tok, NEW rest, NEW later,
         Reading(p, tok, rest, later), ReadMarker, UNCHANGED sent
  PROVE  Lands
<1>1. /\ pc = "marker" /\ p.mode = "append" /\ Len(p.path) = Len(frames) /\ tok = <<>>
      /\ Continues(p, rest) /\ FramesFollow(p) /\ Len(frames) \in Nat /\ Placed(p)
      /\ frames \in Seq(Frame) /\ rest \in Seq(Byte)
  BY ReadingFacts DEF Midway, ReadMarker
<1>2. ~TypedElement
  BY <1>1, NotTyped
<1>3. /\ marker' \in {buf[1] : buf \in Read(1)} /\ ReadBuffer(1) /\ Dispatch(marker')
      /\ UNCHANGED <<frames, result, given>>
  BY <1>2 DEF ReadMarker, Calm, callVars
<1>4. Consume(1)
  BY <1>3 DEF ReadBuffer
<1>5. ~ReadingKey
  BY <1>1 DEF ReadingKey
<1>6. CASE Current(p).type \notin {"Array", "Map"}
  <2>1. PICK m \in Byte, tk \in Seq(Byte), more \in Seq(Byte) :
           /\ ScalarToken(Current(p), m, tk) /\ rest = <<m>> \o (tk \o more)
           /\ Continues(At(p.root, p.path, "return"), more)
    BY <1>1, <1>6, RestOfScalar, Zenon
  <2>2. PICK q : q = At(p.root, p.path, "return")
    OBVIOUS
  <2>3. /\ q.root = p.root /\ q.path = p.path /\ q.mode = "return" /\ Continues(q, more)
        /\ Current(q) = Current(p)
    BY <2>1, <2>2, AtParts DEF Current, Innermost
  <2>4. /\ Delivers(1, <<m>>)
        /\ Holds(stream', tk, more, later) /\ Counts(bytes_so_far', tk, more, Head(sent).size)
    <3>1. PICK piece \in Seq(Byte) : piece = <<m>> /\ Len(piece) = 1
      BY OnePiece
    <3>2. PICK w \in Seq(Byte) : Joins(w, tk, more)
      BY JoinExists
    <3>3. Joins(rest, piece, w)
      BY <2>1, <3>1, <3>2, Zenon DEF Joins
    <3>4. Comprises(tok, rest, piece, tk, more)
      BY <1>1, <3>2, <3>3, FromRest, Zenon
    <3>5. /\ Delivers(1, piece)
          /\ Holds(stream', tk, more, later) /\ Counts(bytes_so_far', tk, more, Head(sent).size)
      BY <1>4, <3>1, <3>4, ReaderTakes
    <3>6. QED BY <3>1, <3>5
  <2>5. marker' = m
    BY <1>3, <2>4, DeliversOne
  <2>6. /\ pc' # "idle" /\ ~ReadingKey' /\ Midway(q, tk)'
        /\ \A n \in 1 .. Len(frames) : vals'[n] = vals[n]
    <3>1. CASE SetValue(Current(p)) /\ UNCHANGED use /\ pc' = "store" /\ tk = <<>>
      <4>1. vals'[Len(frames) + 1] = Current(p) /\ \A n \in 1 .. Len(frames) : vals'[n] = vals[n]
        BY <1>1, <3>1, SetValueFacts
      <4>2. Element' = Current(q)
        BY <1>3, <2>3, <4>1 DEF Element
      <4>3. QED BY <1>1, <1>3, <2>3, <3>1, <4>1, <4>2 DEF Midway, ReadingKey
    <3>2. CASE /\ UNCHANGED <<vals, use>> /\ pc' = "payload"
               /\ Len(tk) = Width(m) /\ Decode(m, tk) = Current(p)
      BY <1>1, <1>3, <2>3, <2>5, <3>2 DEF Midway, ReadingKey
    <3>3. CASE /\ UNCHANGED vals /\ use' = "string" /\ pc' = "integer"
               /\ \E s \in Seq(Byte) : Current(p) = StringValue(s) /\ tk = IntBytes(Len(s)) \o s
      <4>1. PICK s \in Seq(Byte) : Current(p) = StringValue(s) /\ tk = IntBytes(Len(s)) \o s
        BY <3>3
      <4>2. IsRead(q, s)'
        BY <1>1, <1>3, <2>3, <3>3, <4>1 DEF IsRead
      <4>3. QED BY <3>3, <4>1, <4>2 DEF Midway, ReadingKey
    <3>4. Dispatch(m)
      BY <1>3, <2>5
    <3>5. TakesScalar(Current(p), m, tk)
      BY <2>1, <3>4, DispatchScalar, Zenon
    <3>6. QED BY <3>1, <3>2, <3>3, <3>5, Zenon DEF TakesScalar
  <2>7. FramesFollow(q)'
    BY <1>1, <1>3, <1>5, <2>3, <2>6, SameFrames
  <2>8. Placed(q)
    BY <2>3, ContinuesOn
  <2>9. QED BY <1>3, <2>3, <2>4, <2>6, <2>7, <2>8, ReaderLands
<1>7. CASE Current(p).type \in {"Array", "Map"}
  <2>1. PICK more, q :
           /\ more \in Seq(Byte)
           /\ rest = <<StartMarker(Current(p))>> \o more
           /\ q = At(p.root, Append(p.path, Opened(Current(p))), "next")
           /\ Continues(q, more)
           /\ EmitsStart(p, <<StartMarker(Current(p))>>, q)
    BY <1>1, <1>7, RestOfStart, Zenon
  <2> DEFINE m == StartMarker(Current(p))
  <2>2. Placed(q) /\ Len(q.path) <= MaxDepth
    BY <2>1, ContinuesOn, PlaceFacts
  <2>3. /\ q.root = p.root /\ q.mode = "next" /\ q.path = Append(p.path, Opened(Current(p)))
        /\ Innermost(q) = Opened(Current(p))
    BY <1>1, <2>1, <2>2, PlacedStart
  <2>4. Innermost(q).of = Current(p)
    BY <2>3 DEF Opened
  <2>5. m \in Byte /\ isContainerStart(m)
    BY DEF StartMarker, Marker, Byte, isContainerStart
  <2>6. /\ Delivers(1, <<m>>)
        /\ Holds(stream', <<>>, more, later) /\ Counts(bytes_so_far', <<>>, more, Head(sent).size)
    <3>1. PICK piece \in Seq(Byte) : piece = <<m>> /\ Len(piece) = 1
      BY <2>5, OnePiece, Zenon
    <3>2. Joins(more, <<>>, more)
      <4>1. <<>> \o more = more
        BY <2>1, ConcatEmptySeq
      <4>2. QED BY <4>1, Zenon DEF Joins
    <3>3. Joins(rest, piece, more)
      BY <2>1, <3>1, Zenon DEF Joins
    <3>4. Comprises(tok, rest, piece, <<>>, more)
      BY <1>1, <2>1, <3>2, <3>3, FromRest, Zenon
    <3>5. <<>> \in Seq(Byte)
      OBVIOUS
    <3>6. /\ Delivers(1, piece)
          /\ Holds(stream', <<>>, more, later) /\ Counts(bytes_so_far', <<>>, more, Head(sent).size)
      BY <1>4, <2>1, <3>1, <3>4, <3>5, ReaderTakes
    <3>7. QED BY <3>1, <3>6
  <2>7. marker' = m
    BY <1>3, <2>5, <2>6, DeliversOne
  <2> HIDE DEF m
  <2>8. UNCHANGED <<vals, use>> /\ pc' = "container"
    BY <1>3, <2>5, <2>7, DispatchStart
  <2>9. /\ Len(q.path) = Len(p.path) + 1 /\ \A n \in 1 .. Len(p.path) : q.path[n] = p.path[n]
    <3>1. p.path \in Seq(Level) /\ Opened(Current(p)) \in Level
      BY <1>1, <1>7, PlaceFacts, OpenedFacts, LevelFacts
    <3>2. QED BY <2>3, <3>1, AppendFacts
  <2>10. Midway(q, <<>>)'
    BY <1>1, <1>3, <2>3, <2>4, <2>7, <2>8, <2>9 DEF Midway, m
  <2>11. FramesFollow(q)'
    <3>1. \A n \in 1 .. Len(frames) : n <= Len(q.path) =>
            /\ n <= Len(p.path) /\ q.path[n] = p.path[n] /\ (Busy(q, n) <=> Busy(p, n))
      BY <1>1, <2>3, <2>9 DEF Busy
    <3>2. QED BY <1>1, <1>3, <1>5, <2>8, <3>1, FramesFollowStill
  <2>12. <<>> \in Seq(Byte)
    OBVIOUS
  <2>13. QED BY <1>3, <2>1, <2>2, <2>3, <2>6, <2>8, <2>10, <2>11, <2>12, ReaderLands
<1>8. QED BY <1>6, <1>7

(* The bytes of numbers, keys and strings.                                 *)
LEMMA WholeToken ==
  ASSUME NEW tok \in Seq(Byte), NEW rest \in Seq(Byte)
  PROVE  Comprises(tok, rest, tok, <<>>, rest) /\ <<>> \in Seq(Byte)
<1>1. tok \o <<>> = tok
  BY ConcatEmptySeq
<1>2. Joins(tok, tok, <<>>)
  BY <1>1, Zenon DEF Joins
<1>3. <<>> \in Seq(Byte)
  OBVIOUS
<1>4. QED BY <1>2, <1>3, FromToken, Zenon

LEMMA ReadPayloadLands ==
  ASSUME IndInv, Exchangeable, NEW p, NEW tok, NEW rest, NEW later,
         Reading(p, tok, rest, later), ReadPayload, UNCHANGED sent
  PROVE  Lands
<1>1. /\ pc = "payload" /\ p.mode = "return" /\ Len(p.path) = Len(frames)
      /\ Len(tok) = Width(marker) /\ Decode(marker, tok) = Current(p)
      /\ Continues(p, rest) /\ FramesFollow(p) /\ Len(frames) \in Nat /\ Placed(p)
      /\ tok \in Seq(Byte) /\ rest \in Seq(Byte)
  BY ReadingFacts DEF Midway, ReadPayload
<1>2. /\ ReadBuffer(Width(marker)) /\ pc' = "store"
      /\ UNCHANGED <<frames, result, given>>
  BY DEF ReadPayload, Calm, callVars
<1>3. Consume(Width(marker))
  BY <1>2 DEF ReadBuffer
<1>4. /\ Delivers(Width(marker), tok)
      /\ Holds(stream', <<>>, rest, later) /\ Counts(bytes_so_far', <<>>, rest, Head(sent).size)
  <2>1. Comprises(tok, rest, tok, <<>>, rest) /\ <<>> \in Seq(Byte)
    BY <1>1, WholeToken
  <2>2. Width(marker) = Len(tok)
    BY <1>1
  <2>3. QED BY <1>1, <1>3, <2>1, <2>2, ReaderTakes, Zenon
<1>5. SetValue(Current(p))
  <2>1. PICK buf \in Read(Width(marker)) : SetValue(Decode(marker, buf))
    BY DEF ReadPayload
  <2>2. buf = tok
    BY <1>4, <2>1, Zenon DEF Delivers
  <2>3. QED BY <1>1, <2>1, <2>2, Zenon
<1>6. /\ vals'[Len(frames) + 1] = Current(p) /\ \A n \in 1 .. Len(frames) : vals'[n] = vals[n]
  BY <1>1, <1>5, SetValueFacts
<1>7. ~ReadingKey
  BY <1>1 DEF ReadingKey
<1>8. Midway(p, <<>>)'
  <2>1. Element' = Current(p)
    BY <1>2, <1>6 DEF Element
  <2>2. QED BY <1>1, <1>2, <2>1 DEF Midway
<1>9. FramesFollow(p)'
  BY <1>1, <1>2, <1>6, <1>7, SameFrames
<1>10. <<>> \in Seq(Byte) /\ pc' # "idle"
  BY <1>2
<1>11. QED BY <1>1, <1>2, <1>4, <1>8, <1>9, <1>10, ReaderLands

LEMMA IsReadFits ==
  ASSUME Exchangeable, NEW p, Placed(p), NEW s, IsRead(p, s)
  PROVE  s \in Seq(Byte) /\ Len(s) \in Int /\ InRange(Len(s), Width64)
<1>1. s \in Seq(Byte) /\ Len(s) \in Int
  BY LenProperties DEF IsRead
<1>2. CASE /\ p.mode = "append" /\ frames # <<>>
           /\ Innermost(p).of.type = "Map" /\ Innermost(p).key = s
           /\ Len(p.path) = Len(frames)
  <2>1. p.path # <<>>
    <3>1. Len(p.path) # 0 \/ frames = <<>> \/ Len(frames) = 0
      BY <1>2
    <3>2. frames # <<>> => Len(frames) # 0
      OBVIOUS
    <3>3. QED BY <1>2, <3>1, <3>2
  <2> DEFINE l == Innermost(p)
  <2>2. LevelOK(l) /\ Begun(l)
    BY <1>2, <2>1, PlaceFacts
  <2>3. l.of \in Nodes
    BY <2>2, LevelFacts
  <2>4. GivenBack(l.of)
    BY <2>3 DEF Exchangeable
  <2>5. l.of.type = "Map" /\ l.key = s
    BY <1>2
  <2> HIDE DEF l
  <2>6. s \in DOMAIN l.of.Map
    BY <2>2, <2>5 DEF Begun
  <2>7. QED BY <1>1, <2>4, <2>5, <2>6 DEF GivenBack
<1>3. CASE p.mode = "return" /\ Current(p) = StringValue(s)
  <2> DEFINE v == Current(p)
  <2>1. v \in Nodes
    BY <1>3, PlaceFacts
  <2>2. GivenBack(v)
    BY <2>1 DEF Exchangeable
  <2>3. v.type = "String" /\ v.String = s
    BY <1>3 DEF StringValue
  <2> HIDE DEF v
  <2>4. QED BY <1>1, <2>2, <2>3 DEF GivenBack
<1>4. QED BY <1>2, <1>3 DEF IsRead

LEMMA ReadIntegerLands ==
  ASSUME IndInv, Exchangeable, NEW p, NEW tok, NEW rest, NEW later,
         Reading(p, tok, rest, later), pc = "integer"
  PROVE  /\ use \in {"key", "string"}
         /\ \A c \in {buf[1] : buf \in Read(1)} : isInteger(c)
         /\ ReadInteger /\ UNCHANGED sent => Lands
<1>1. /\ Continues(p, rest) /\ FramesFollow(p) /\ Len(frames) \in Nat /\ Placed(p)
      /\ tok \in Seq(Byte) /\ rest \in Seq(Byte)
      /\ Midway(p, tok)
  BY ReadingFacts
<1>2. PICK s : IsRead(p, s) /\ tok = IntBytes(Len(s)) \o s
  BY <1>1 DEF Midway
<1>3. s \in Seq(Byte) /\ Len(s) \in Int /\ InRange(Len(s), Width64)
  BY <1>1, <1>2, IsReadFits
<1>4. use \in {"key", "string"} /\ Len(p.path) = Len(frames) /\ p.mode # "next"
  BY <1>2 DEF IsRead
<1> DEFINE m == IntMarker(Len(s))
           ds == BigEndian(Len(s), Width(IntMarker(Len(s))))
<1>5. m \in Byte /\ isInteger(m) /\ ds \in Seq(Byte) /\ IntBytes(Len(s)) = <<m>> \o ds
  BY <1>3, IntMarkerFacts, IntegerBack DEF IntBytes
<1>6. ds = BigEndian(Len(s), Width(m))
  OBVIOUS
<1> HIDE DEF ds
<1>7. PICK t \in Seq(Byte) : Joins(t, ds, s)
  BY <1>3, <1>5, JoinExists, Zenon
<1>8. PICK piece \in Seq(Byte) : piece = <<m>> /\ Len(piece) = 1
  BY <1>5, OnePiece, Zenon
<1>9. Joins(tok, piece, t)
  <2>1. PICK u \in Seq(Byte) : Joins(u, piece, ds)
    BY <1>5, JoinExists, Zenon
  <2>2. Joins(tok, u, s)
    BY <1>2, <1>5, <1>8, <2>1, Zenon DEF Joins
  <2>3. QED BY <1>3, <1>5, <1>7, <2>1, <2>2, JoinIn, Zenon
<1>10. Comprises(tok, rest, piece, t, rest)
  BY <1>1, <1>9, FromToken, Zenon
<1>11. /\ Delivers(1, <<m>>)
       /\ Consume(1) =>
            /\ Holds(stream', t, rest, later) /\ Counts(bytes_so_far', t, rest, Head(sent).size)
  <2>1. /\ Delivers(1, piece)
        /\ Consume(1) =>
            /\ Holds(stream', t, rest, later) /\ Counts(bytes_so_far', t, rest, Head(sent).size)
    BY <1>1, <1>8, <1>10, ReaderTakes
  <2>2. QED BY <1>8, <2>1
<1>12. \A c \in {buf[1] : buf \in Read(1)} : c = m
  BY <1>5, <1>11, DeliversOne
<1>13. ASSUME ReadInteger, UNCHANGED sent PROVE Lands
  <2>1. /\ b' = m /\ Consume(1) /\ pc' = "digits"
        /\ UNCHANGED <<use, frames, vals, result, given>>
    BY <1>12, <1>13 DEF ReadInteger, ReadBuffer, Calm, callVars
  <2>2. IsRead(p, s)'
    BY <1>2, <2>1 DEF IsRead
  <2>3. Midway(p, t)'
    <3>1. t = BigEndian(Len(s), Width(b')) \o s
      BY <1>6, <1>7, <2>1, Zenon DEF Joins
    <3>2. QED BY <2>1, <2>2, <3>1 DEF Midway, m
  <2>4. FramesFollow(p)'
    BY <1>1, <1>4, <2>1, SameFrames DEF ReadingKey
  <2>5. pc' # "idle"
    BY <2>1
  <2>6. QED BY <1>1, <1>11, <1>13, <2>1, <2>3, <2>4, <2>5, ReaderLands
<1>14. QED BY <1>4, <1>5, <1>12, <1>13

LEMMA ReadDigitsLands ==
  ASSUME IndInv, Exchangeable, NEW p, NEW tok, NEW rest, NEW later,
         Reading(p, tok, rest, later), ReadDigits, UNCHANGED sent
  PROVE  Lands
<1>1. /\ Continues(p, rest) /\ FramesFollow(p) /\ Len(frames) \in Nat /\ Placed(p)
      /\ tok \in Seq(Byte) /\ rest \in Seq(Byte)
      /\ Midway(p, tok) /\ Len(tok) \in Nat /\ Len(rest) \in Nat /\ bytes_so_far \in Nat
      /\ bytes_so_far + Len(tok) + Len(rest) <= MaxObjectSize
  BY ReadingFacts
<1>2. PICK s : IsRead(p, s) /\ b = IntMarker(Len(s)) /\ tok = BigEndian(Len(s), Width(b)) \o s
  BY <1>1 DEF Midway, ReadDigits
<1>3. s \in Seq(Byte) /\ Len(s) \in Int /\ InRange(Len(s), Width64) /\ Len(s) \in Nat
  BY <1>1, <1>2, IsReadFits, LenProperties
<1>4. use \in {"key", "string"} /\ Len(p.path) = Len(frames) /\ p.mode # "next" /\ pc = "digits"
  BY <1>2 DEF IsRead, ReadDigits
<1> DEFINE piece == BigEndian(Len(s), Width(b))
<1>5. piece \in Seq(Byte) /\ Len(piece) = Width(b) /\ Signed(piece) = Len(s)
  BY <1>2, <1>3, IntegerBack
<1> HIDE DEF piece
<1>6. Joins(tok, piece, s)
  BY <1>2, Zenon DEF Joins, piece
<1>7. Comprises(tok, rest, piece, s, rest)
  BY <1>1, <1>3, <1>5, <1>6, FromToken, Zenon
<1>8. ReadBuffer(Width(b)) /\ UNCHANGED <<use, frames, vals, result, given>>
  BY DEF ReadDigits, Calm, callVars
<1>9. Consume(Width(b)) /\ Width(b) = Len(piece)
  BY <1>5, <1>8 DEF ReadBuffer
<1>10. /\ Delivers(Width(b), piece)
       /\ Holds(stream', s, rest, later) /\ Counts(bytes_so_far', s, rest, Head(sent).size)
  BY <1>1, <1>3, <1>5, <1>7, <1>9, ReaderTakes, Zenon
<1>11. Len(s) % SizeMod = Len(s)
  <2>1. Len(tok) = Len(piece) + Len(s) /\ Len(piece) \in Nat
    BY <1>3, <1>5, <1>6, JoinLength
  <2>2. Len(s) <= MaxObjectSize
    <3> DEFINE i == Len(tok)  j == Len(rest)  k == Len(piece)  l == Len(s)
    <3>1. /\ i \in Nat /\ j \in Nat /\ k \in Nat /\ l \in Nat /\ bytes_so_far \in Nat
          /\ i = k + l /\ bytes_so_far + i + j <= MaxObjectSize /\ MaxObjectSize \in Nat
      BY <1>1, <1>3, <2>1, ReaderAssumption
    <3> HIDE DEF i, j, k, l
    <3>2. l <= MaxObjectSize
      BY <3>1
    <3>3. QED BY <3>2 DEF l
  <2>3. Len(s) \in 0 .. SizeMod - 1
    BY <1>3, <2>2, ReaderAssumption
  <2>4. QED BY <2>3, ReaderAssumption
<1>12. num' = Len(s) /\ pc' = "bytes"
  <2>1. PICK buf \in Read(Width(b)) :
          use # "count" => num' = Signed(buf) % SizeMod /\ pc' = "bytes"
    BY DEF ReadDigits
  <2>2. buf = piece
    BY <1>10, <2>1, Zenon DEF Delivers
  <2>3. QED BY <1>4, <1>5, <1>11, <2>1, <2>2
<1>13. IsRead(p, s)'
  BY <1>2, <1>8 DEF IsRead
<1>14. Midway(p, s)'
  BY <1>12, <1>13 DEF Midway
<1>15. FramesFollow(p)'
  BY <1>1, <1>4, <1>8, <1>12, SameFrames DEF ReadingKey
<1>16. pc' # "idle"
  BY <1>12
<1>17. QED BY <1>1, <1>3, <1>8, <1>10, <1>14, <1>15, <1>16, ReaderLands

LEMMA ReadBytesLands ==
  ASSUME IndInv, Exchangeable, NEW p, NEW tok, NEW rest, NEW later,
         Reading(p, tok, rest, later), ReadBytes, UNCHANGED sent
  PROVE  Lands
<1>1. /\ Continues(p, rest) /\ FramesFollow(p) /\ Len(frames) \in Nat /\ Placed(p)
      /\ tok \in Seq(Byte) /\ rest \in Seq(Byte) /\ frames \in Seq(Frame)
      /\ Midway(p, tok)
  BY ReadingFacts
<1>2. IsRead(p, tok) /\ num = Len(tok) /\ pc = "bytes"
  BY <1>1 DEF Midway, ReadBytes
<1>3. use \in {"key", "string"} /\ Len(p.path) = Len(frames) /\ p.mode # "next"
  BY <1>2 DEF IsRead
<1>4. ReadBuffer(num) /\ UNCHANGED <<use, result, given>>
  BY DEF ReadBytes, Calm, callVars, localVars
<1>5. Consume(num)
  BY <1>4 DEF ReadBuffer
<1>6. /\ Delivers(num, tok) /\ <<>> \in Seq(Byte)
      /\ Holds(stream', <<>>, rest, later) /\ Counts(bytes_so_far', <<>>, rest, Head(sent).size)
  <2>1. Comprises(tok, rest, tok, <<>>, rest) /\ <<>> \in Seq(Byte)
    BY <1>1, WholeToken
  <2>2. QED BY <1>1, <1>2, <1>5, <2>1, ReaderTakes, Zenon
<1>7. Deliver(tok)
  <2>1. PICK buf \in Read(num) : Deliver(buf)
    BY DEF ReadBytes
  <2>2. buf = tok
    BY <1>6, <2>1, Zenon DEF Delivers
  <2>3. QED BY <2>1, <2>2, Zenon
<1>8. CASE use = "string"
  <2>1. SetValue(StringValue(tok)) /\ pc' = "store" /\ UNCHANGED frames
    BY <1>7, <1>8 DEF Deliver
  <2>2. Current(p) = StringValue(tok) /\ p.mode = "return"
    BY <1>2, <1>8 DEF IsRead
  <2>3. /\ vals'[Len(frames) + 1] = Current(p) /\ \A n \in 1 .. Len(frames) : vals'[n] = vals[n]
    BY <1>1, <2>1, <2>2, SetValueFacts
  <2>4. ~ReadingKey
    BY <1>8 DEF ReadingKey
  <2>5. Midway(p, <<>>)'
    <3>1. Element' = Current(p)
      BY <2>1, <2>3 DEF Element
    <3>2. QED BY <1>3, <2>1, <2>2, <3>1 DEF Midway
  <2>6. FramesFollow(p)'
    BY <1>1, <1>3, <2>1, <2>3, <2>4, SameFrames
  <2>7. pc' # "idle"
    BY <2>1
  <2>8. QED BY <1>1, <1>4, <1>6, <2>5, <2>6, <2>7, ReaderLands
<1>9. CASE use = "key"
  <2>1. SetKey(tok) /\ pc' = "marker" /\ UNCHANGED vals
    BY <1>7, <1>9 DEF Deliver
  <2>2. /\ p.mode = "append" /\ frames # <<>>
        /\ Innermost(p).of.type = "Map" /\ Innermost(p).key = tok
    BY <1>2, <1>9 DEF IsRead
  <2>3. /\ frames' \in Seq(Frame) /\ Len(frames') = Len(frames)
        /\ \A i \in 1..Len(frames) :
              /\ frames'[i].type = frames[i].type
              /\ frames'[i].is_valid = frames[i].is_valid
    BY <1>1, <2>1, <2>2, SetKeyFacts
  <2>4. /\ \A i \in 1..Len(frames) : i # Len(frames) => frames'[i].key = frames[i].key
        /\ frames'[Len(frames)].key = tok
    <3>1. Len(frames) \in 1 .. Len(frames) /\ frames[Len(frames)] \in Frame
      BY <1>1, <2>2, EmptySeq, ElementOfSeq
    <3>2. frames' = [frames EXCEPT ![Len(frames)].key = tok]
      BY <2>1 DEF SetKey
    <3>3. QED BY <1>1, <3>1, <3>2 DEF Frame
  <2>5. Midway(p, <<>>)'
    BY <1>3, <2>1, <2>2, <2>3 DEF Midway
  <2>6. ASSUME NEW n \in 1 .. Len(frames) PROVE Follows(p, n)'
    <3>1. CASE n # Len(frames)
      <4>1. /\ n <= Len(p.path) /\ vals'[n] = vals[n]
            /\ frames'[n].type = frames[n].type /\ frames'[n].key = frames[n].key
        BY <1>1, <1>3, <2>1, <2>3, <2>4, <3>1
      <4>2. QED BY <1>1, <3>1, <4>1, FollowsStill, Zenon
    <3>2. CASE n = Len(frames)
      <4>1. Follows(p, n)
        BY <1>1, <1>3 DEF FramesFollow
      <4>2. p.path[n].key = tok
        BY <1>3, <2>2, <3>2 DEF Innermost
      <4>3. QED BY <2>1, <2>3, <2>4, <3>2, <4>1, <4>2 DEF Follows
    <3>3. QED BY <3>1, <3>2
  <2>7. FramesFollow(p)'
    <3>1. \A n \in 1 .. Len(frames') : ~frames'[n].is_valid
      BY <1>1, <2>3 DEF FramesFollow
    <3>2. QED BY <2>3, <2>6, <3>1 DEF FramesFollow
  <2>8. pc' # "idle"
    BY <2>1
  <2>9. QED BY <1>1, <1>4, <1>6, <2>5, <2>7, <2>8, ReaderLands
<1>10. QED BY <1>3, <1>8, <1>9

(* Looking at the next byte, with the message cut in front of what is to   *)
(* be read next.                                                           *)
LEMMA ReaderCuts ==
  ASSUME IndInv, NEW p, NEW tok, NEW rest, NEW later, Reading(p, tok, rest, later),
         tok = <<>>, stream' = stream, bytes_so_far' = bytes_so_far,
         NEW t \in Seq(Byte), NEW more \in Seq(Byte), Joins(rest, t, more)
  PROVE  /\ Holds(stream', t, more, later)
         /\ Counts(bytes_so_far', t, more, Head(sent).size)
<1>1. /\ rest \in Seq(Byte) /\ later \in Seq(Byte) /\ tok \in Seq(Byte)
      /\ bytes_so_far \in Nat
  BY ReadingFacts
<1>2. PICK none \in Seq(Byte) : none = <<>> /\ Len(none) = 0
  <2>1. <<>> \in Seq(Byte) /\ Len(<<>>) = 0
    OBVIOUS
  <2>2. QED BY <2>1, Zenon
<1>3. Joins(rest, none, rest)
  <2>1. <<>> \o rest = rest
    BY <1>1, ConcatEmptySeq
  <2>2. QED BY <1>2, <2>1, Zenon DEF Joins
<1>4. Comprises(tok, rest, none, t, more)
  BY <1>1, <1>3, FromRest, Zenon
<1>5. Holds(stream, tok, rest, later) /\ Counts(bytes_so_far, tok, rest, Head(sent).size)
  BY DEF Reading, ReaderAt, Holds, Counts
<1>6. /\ \E others \in Seq(Byte) : Joins(stream, none, others) /\ Holds(others, t, more, later)
      /\ SameLength(tok, rest, Len(none), t, more)
  BY <1>1, <1>4, <1>5, Regroup, Zenon
<1>7. PICK others \in Seq(Byte) : Joins(stream, none, others) /\ Holds(others, t, more, later)
  BY <1>6, Zenon
<1>8. stream = others
  <2>1. <<>> \o others = others
    BY ConcatEmptySeq
  <2>2. QED BY <1>2, <1>7, <2>1, Zenon DEF Joins
<1>10. Counts(bytes_so_far', t, more, Head(sent).size)
  <2> DEFINE i == Len(tok)  j == Len(rest)  k == Len(t)  l == Len(more)  z == Head(sent).size
  <2>1. i \in Nat /\ j \in Nat /\ k \in Nat /\ l \in Nat
    BY <1>1, LenProperties
  <2>2. i + j = Len(none) + k + l
    BY <1>6, Zenon DEF SameLength
  <2>3. bytes_so_far + i + j = z
    BY <1>5, Zenon DEF Counts
  <2> HIDE DEF i, j, k, l, z
  <2>4. bytes_so_far' + k + l = z
    <3>1. i + j = k + l
      BY <1>2, <2>1, <2>2
    <3>2. bytes_so_far' = bytes_so_far /\ bytes_so_far \in Nat
      BY <1>1
    <3>3. QED BY <2>1, <2>3, <3>1, <3>2, SMTT(20)
  <2>5. QED BY <2>4, Zenon DEF Counts, k, l, z
<1>11. Holds(stream', t, more, later)
  BY <1>7, <1>8, Zenon
<1>12. QED BY <1>10, <1>11

LEMMA PeekSees ==
  ASSUME Exchangeable, IndInv, NEW p, NEW tok, NEW rest, NEW later,
         Reading(p, tok, rest, later), tok = <<>>, Len(rest) >= 1, Peek
  PROVE  peeked_byte'.first = rest[1] /\ UNCHANGED <<stream, bytes_so_far>>
<1>1. rest \in Seq(Byte) /\ later \in Seq(Byte) /\ Len(rest) \in Nat /\ stream \in Seq(Byte)
  BY ReadingFacts
<1>2. stream = rest \o later
  <2>1. stream = <<>> \o (rest \o later)
    BY DEF Reading, ReaderAt
  <2>2. rest \o later \in Seq(Byte)
    BY <1>1, ConcatProperties
  <2>3. <<>> \o (rest \o later) = rest \o later
    BY <2>2, ConcatEmptySeq
  <2>4. QED BY <2>1, <2>3, Zenon
<1>3. stream[1] = rest[1] /\ stream # <<>>
  <2> DEFINE u == rest \o later
  <2>1. /\ u \in Seq(Byte) /\ Len(u) = Len(rest) + Len(later)
        /\ \A n \in 1 .. Len(rest) + Len(later) :
             u[n] = IF n <= Len(rest) THEN rest[n] ELSE later[n - Len(rest)]
    BY <1>1, ConcatFacts
  <2>2. Len(later) \in Nat
    BY <1>1, LenProperties
  <2>3. stream = u
    BY <1>2
  <2> HIDE DEF u
  <2>4. u[1] = rest[1] /\ Len(u) >= 1
    BY <1>1, <2>1, <2>2
  <2>5. u # <<>>
    BY <2>4
  <2>6. QED BY <2>3, <2>4, <2>5
<1>4. is_istream
  BY DEF Exchangeable, IndInv, TypeOK
<1>5. QED BY <1>3, <1>4 DEF Peek

LEMMA PeekContainerLands ==
  ASSUME IndInv, Exchangeable, NEW p, NEW tok, NEW rest, NEW later,
         Reading(p, tok, rest, later), PeekContainer, UNCHANGED sent
  PROVE  Lands
<1>1. /\ Continues(p, rest) /\ FramesFollow(p) /\ Len(frames) \in Nat /\ Placed(p)
      /\ tok \in Seq(Byte) /\ rest \in Seq(Byte) /\ Midway(p, tok)
  BY ReadingFacts
<1>2. /\ p.mode = "next" /\ Len(p.path) = Len(frames) + 1
      /\ Innermost(p) = Opened(Innermost(p).of)
      /\ marker = StartMarker(Innermost(p).of) /\ tok = <<>>
      /\ pc = "container"
  BY <1>1 DEF Midway, PeekContainer
<1>3. Len(rest) >= 1 /\ ~isOptimizedMarker(rest[1])
  BY <1>1, <1>2, LoopByte
<1>4. Peek /\ UNCHANGED <<marker, frames, vals, result, given>> /\ header' = NoHeader
  BY DEF PeekContainer, Calm, callVars
<1>5. peeked_byte'.first = rest[1] /\ UNCHANGED <<stream, bytes_so_far>>
  BY <1>2, <1>3, <1>4, PeekSees
<1>6. pc' = "enter"
  BY <1>3, <1>5 DEF PeekContainer
<1>7. Midway(p, tok)'
  BY <1>2, <1>4, <1>6 DEF Midway
<1>8. FramesFollow(p)'
  BY <1>1, <1>2, <1>4, SameFrames DEF ReadingKey
<1>9. Holds(stream', tok, rest, later) /\ Counts(bytes_so_far', tok, rest, Head(sent).size)
  BY <1>5, NothingRead
<1>10. pc' # "idle"
  BY <1>6
<1>11. QED BY <1>1, <1>4, <1>7, <1>8, <1>9, <1>10, ReaderLands

LEMMA EnterLands ==
  ASSUME IndInv, Exchangeable, NEW p, NEW tok, NEW rest, NEW later,
         Reading(p, tok, rest, later), Enter, UNCHANGED sent
  PROVE  Lands
<1>1. /\ Continues(p, rest) /\ FramesFollow(p) /\ Len(frames) \in Nat /\ Placed(p)
      /\ tok \in Seq(Byte) /\ rest \in Seq(Byte) /\ Midway(p, tok) /\ frames \in Seq(Frame)
  BY ReadingFacts
<1>2. /\ p.mode = "next" /\ Len(p.path) = Len(frames) + 1
      /\ Innermost(p) = Opened(Innermost(p).of)
      /\ marker = StartMarker(Innermost(p).of) /\ tok = <<>>
      /\ pc = "enter" /\ header = NoHeader
  BY <1>1 DEF Midway, Enter
<1> DEFINE f == [type       |-> IF marker = Marker.Object_Start THEN "Object" ELSE "Array",
                 is_valid   |-> header.is_valid,
                 item_count |-> header.item_count,
                 marker     |-> header.marker,
                 key        |-> <<>>]
           v == Innermost(p).of
<1>3. /\ frames' = Append(frames, f) /\ pc' = "loop"
      /\ UNCHANGED <<stream, bytes_so_far, vals, result, given>>
  BY DEF Enter, Calm, callVars, streamVars
<1>4. f \in Frame
  <2>1. header \in STCHeader
    BY DEF IndInv, TypeOK
  <2>2. QED BY <2>1 DEF Frame, STCHeader
<1>5. ~f.is_valid /\ f.type = IF v.type = "Array" THEN "Array" ELSE "Object"
  BY <1>2 DEF NoHeader, StartMarker, Marker
<1> HIDE DEF f
<1>6. /\ Len(frames') = Len(frames) + 1
      /\ \A n \in 1 .. Len(frames) : frames'[n] = frames[n]
      /\ frames'[Len(frames) + 1] = f
  BY <1>1, <1>3, <1>4, AppendFacts
<1>7. Element = NullValue
  <2>1. given = NullValue
    BY DEF Reading
  <2>2. QED BY <1>2, <2>1 DEF IndInv, ElementFresh, Running
<1>8. Held(Innermost(p), FALSE) = NullValue
  <2>1. v \in Nodes
    <3>1. p.path # <<>>
      BY <1>1, <1>2, PlaceFacts
    <3>2. LevelOK(Innermost(p))
      BY <1>1, <3>1, PlaceFacts
    <3>3. QED BY <3>2, LevelFacts
  <2>2. QED BY <1>2, <2>1, HeldOpened
<1>9. ~Busy(p, Len(p.path)) /\ \A n \in 1 .. Len(frames) : Busy(p, n)
  BY <1>1, <1>2 DEF Busy
<1>10. ASSUME NEW n \in 1 .. Len(frames) PROVE Follows(p, n)'
  <2>1. ~ReadingKey /\ n <= Len(p.path)
    BY <1>1, <1>2 DEF ReadingKey
  <2>2. QED BY <1>1, <1>3, <1>6, <2>1, FollowsStill
<1>11. PICK last : last = Len(frames) + 1
  OBVIOUS
<1>12. Follows(p, last)'
  <2>1. p.path[last] = Innermost(p) /\ last = Len(p.path)
    BY <1>2, <1>11 DEF Innermost
  <2>2. vals'[last] = NullValue
    BY <1>3, <1>7, <1>11 DEF Element
  <2>3. frames'[last] = f
    BY <1>6, <1>11
  <2>4. ~Busy(p, last)
    BY <1>9, <2>1
  <2>5. vals'[last] = Held(p.path[last], Busy(p, last))
    <3>1. Held(p.path[last], FALSE) = NullValue
      BY <1>8, <2>1
    <3>2. Held(p.path[last], Busy(p, last)) = Held(p.path[last], FALSE)
      BY <2>4 DEF Held, HeldItems, HeldKeys
    <3>3. QED BY <2>2, <3>1, <3>2
  <2>6. QED BY <1>5, <2>1, <2>3, <2>4, <2>5 DEF Follows
<1>17. FramesFollow(p)'
  <2>1. ASSUME NEW n \in 1 .. Len(frames') PROVE ~frames'[n].is_valid /\ Follows(p, n)'
    <3>1. CASE n \in 1 .. Len(frames)
      BY <1>1, <1>6, <1>10, <3>1 DEF FramesFollow
    <3>2. CASE n = last
      BY <1>5, <1>6, <1>11, <1>12, <3>2
    <3>3. QED BY <1>1, <1>6, <1>11, <3>1, <3>2
  <2>2. QED BY <2>1 DEF FramesFollow
<1>13. Midway(p, tok)'
  BY <1>2, <1>3, <1>6 DEF Midway
<1>14. Holds(stream', tok, rest, later) /\ Counts(bytes_so_far', tok, rest, Head(sent).size)
  BY <1>3, NothingRead
<1>15. pc' # "idle"
  BY <1>3
<1>18. QED BY <1>1, <1>3, <1>17, <1>13, <1>14, <1>15, ReaderLands

(* The loop of a container: its end, or its next element.                  *)
LEMMA InLoop ==
  ASSUME IndInv, NEW p, NEW tok, NEW rest, NEW later, Reading(p, tok, rest, later), pc = "loop"
  PROVE  /\ p.mode = "next" /\ Len(p.path) = Len(frames) /\ tok = <<>>
         /\ Continues(p, rest) /\ FramesFollow(p) /\ Len(frames) \in Nat /\ Placed(p)
         /\ rest \in Seq(Byte) /\ frames # <<>> /\ Len(frames) \in 1 .. Len(frames)
         /\ p.path # <<>> /\ LevelOK(Innermost(p)) /\ Innermost(p) = p.path[Len(frames)]
         /\ ~Top.is_valid
         /\ Top.type = IF Innermost(p).of.type = "Array" THEN "Array" ELSE "Object"
         /\ Container = Held(Innermost(p), FALSE)
<1>1. /\ Continues(p, rest) /\ FramesFollow(p) /\ Len(frames) \in Nat /\ Placed(p)
      /\ rest \in Seq(Byte) /\ frames \in Seq(Frame) /\ Midway(p, tok)
  BY ReadingFacts
<1>2. p.mode = "next" /\ Len(p.path) = Len(frames) /\ tok = <<>>
  BY <1>1 DEF Midway
<1>3. p.path # <<>> /\ LevelOK(Innermost(p)) /\ Len(p.path) > 0
  BY <1>1, <1>2, PlaceFacts
<1>4. frames # <<>> /\ Len(frames) \in 1 .. Len(frames)
  BY <1>1, <1>2, <1>3
<1>5. Innermost(p) = p.path[Len(frames)]
  BY <1>2 DEF Innermost
<1>6. Follows(p, Len(frames))
  BY <1>1, <1>2, <1>4 DEF FramesFollow
<1>7. ~Busy(p, Len(frames))
  BY <1>1, <1>2 DEF Busy
<1>8. ~Top.is_valid
  BY <1>1, <1>4, NotTyped
<1>9. Top.type = IF Innermost(p).of.type = "Array" THEN "Array" ELSE "Object"
  BY <1>5, <1>6 DEF Follows, Top
<1>10. Container = Held(Innermost(p), FALSE)
  <2>1. Container = Held(Innermost(p), Busy(p, Len(frames)))
    BY <1>5, <1>6 DEF Follows, Container
  <2>2. Held(Innermost(p), Busy(p, Len(frames))) = Held(Innermost(p), FALSE)
    BY <1>7 DEF Held, HeldItems, HeldKeys
  <2>3. QED BY <2>1, <2>2
<1>11. QED BY <1>1, <1>2, <1>3, <1>4, <1>5, <1>8, <1>9, <1>10

LEMMA EndSeenLands ==
  ASSUME IndInv, Exchangeable, NEW p, NEW tok, NEW rest, NEW later,
         Reading(p, tok, rest, later), pc = "loop", AllBegun(Innermost(p)),
         pc' = "peel",
         UNCHANGED <<stream, bytes_so_far, vals, frames, result, given, sent>>
  PROVE  Lands
<1>1. /\ p.mode = "next" /\ Len(p.path) = Len(frames) /\ tok = <<>>
      /\ Continues(p, rest) /\ FramesFollow(p) /\ Len(frames) \in Nat /\ Placed(p)
      /\ rest \in Seq(Byte) /\ frames # <<>> /\ Len(frames) \in 1 .. Len(frames)
      /\ p.path # <<>> /\ LevelOK(Innermost(p))
      /\ Container = Held(Innermost(p), FALSE)
  BY InLoop
<1>2. PICK more \in Seq(Byte) :
        /\ rest = <<EndMarker(Innermost(p).of)>> \o more
        /\ Continues(At(p.root, Outer(p.path), "return"), more)
  BY <1>1, RestAtEnd
<1>3. PICK q : q = At(p.root, Outer(p.path), "return")
  OBVIOUS
<1>4. /\ Placed(q) /\ q.root = p.root /\ q.mode = "return"
      /\ Len(q.path) = Len(p.path) - 1
      /\ \A n \in 1 .. Len(p.path) - 1 : q.path[n] = p.path[n]
      /\ Current(q) = Innermost(p).of
  BY <1>1, <1>3, PlacedEnd
<1>5. Container = Current(q)
  <2>1. Innermost(p).of \in Nodes
    BY <1>1, LevelFacts
  <2>2. GivenBack(Innermost(p).of)
    BY <2>1 DEF Exchangeable
  <2>3. QED BY <1>1, <1>4, <2>2, HeldAll
<1> DEFINE m == EndMarker(Current(q))
<1>6. m \in Byte
  BY DEF EndMarker, Marker, Byte
<1>7. PICK t \in Seq(Byte) : t = <<m>> /\ Len(t) = 1
  BY <1>6, OnePiece, Zenon
<1>8. Joins(rest, t, more)
  BY <1>2, <1>4, <1>7, Zenon DEF Joins
<1>9. Holds(stream', t, more, later) /\ Counts(bytes_so_far', t, more, Head(sent).size)
  BY <1>1, <1>8, ReaderCuts
<1>10. Midway(q, t)'
  <2>1. Container' = Current(q)
    BY <1>5 DEF Container
  <2>2. QED BY <1>1, <1>4, <1>7, <2>1 DEF Midway
<1>11. FramesFollow(q)'
  <2>1. \A n \in 1 .. Len(frames) : n <= Len(q.path) =>
          /\ n <= Len(p.path) /\ q.path[n] = p.path[n] /\ (Busy(q, n) <=> Busy(p, n))
    BY <1>1, <1>4 DEF Busy
  <2>2. ~ReadingKey
    BY DEF ReadingKey
  <2>3. QED BY <1>1, <2>1, <2>2, FramesFollowStill
<1>12. Continues(q, more) /\ pc' # "idle"
  BY <1>2, <1>3
<1>13. QED BY <1>4, <1>9, <1>10, <1>11, <1>12, ReaderLands

LEMMA ItemSeenLands ==
  ASSUME IndInv, Exchangeable, NEW p, NEW tok, NEW rest, NEW later,
         Reading(p, tok, rest, later), pc = "loop", ~AllBegun(Innermost(p)),
         Innermost(p).of.type = "Array", SetValue(NullValue), pc' = "marker",
         UNCHANGED <<stream, bytes_so_far, frames, result, given, sent>>
  PROVE  Lands
<1>1. /\ p.mode = "next" /\ Len(p.path) = Len(frames) /\ tok = <<>>
      /\ Continues(p, rest) /\ FramesFollow(p) /\ Len(frames) \in Nat /\ Placed(p)
      /\ rest \in Seq(Byte) /\ Len(frames) \in 1 .. Len(frames)
      /\ p.path # <<>> /\ LevelOK(Innermost(p)) /\ Innermost(p) = p.path[Len(frames)]
  BY InLoop
<1> DEFINE l == Innermost(p)
           k == NextIndex(l)
<1>2. PICK q : q = At(p.root, Replace(p.path, k), "append")
  OBVIOUS
<1>3. Continues(q, rest)
  BY <1>1, <1>2, RestAtItem
<1>4. LevelOK(k) /\ Begun(k) /\ k.of = l.of
  BY <1>1, NextIndexFacts
<1>5. Held(k, TRUE) = Held(l, FALSE)
  BY <1>1, HeldNextIndex
<1> HIDE DEF k
<1>6. /\ Placed(q) /\ q.root = p.root /\ q.mode = "append"
      /\ Len(q.path) = Len(p.path) /\ q.path[Len(p.path)] = k
      /\ \A n \in 1 .. Len(p.path) - 1 : q.path[n] = p.path[n]
  BY <1>1, <1>2, <1>4, PlacedReplace
<1>7. \A n \in 1 .. Len(frames) : vals'[n] = vals[n]
  BY <1>1, SetValueFacts
<1>8. ASSUME NEW n \in 1 .. Len(frames) PROVE Follows(q, n)'
  <2>1. CASE n # Len(frames)
    <3>1. n <= Len(p.path) /\ q.path[n] = p.path[n] /\ (Busy(q, n) <=> Busy(p, n))
      BY <1>1, <1>6, <2>1 DEF Busy
    <3>2. vals'[n] = vals[n] /\ frames' = frames /\ ~ReadingKey
      BY <1>7 DEF ReadingKey
    <3>3. QED BY <1>1, <3>1, <3>2, FollowsStill
  <2>2. CASE n = Len(frames)
    <3>1. Follows(p, n) /\ ~Busy(p, n) /\ Busy(q, n) /\ q.path[n] = k /\ p.path[n] = l
      BY <1>1, <1>6, <2>2 DEF FramesFollow, Busy
    <3>2. vals[n] = Held(l, FALSE) /\ frames[n].type = "Array"
      <4>1. Held(l, Busy(p, n)) = Held(l, FALSE)
        BY <3>1 DEF Held, HeldItems, HeldKeys
      <4>2. QED BY <3>1, <4>1 DEF Follows
    <3>3. vals'[n] = Held(k, Busy(q, n))
      <4>1. Held(k, Busy(q, n)) = Held(k, TRUE)
        BY <3>1 DEF Held, HeldItems, HeldKeys
      <4>2. QED BY <1>5, <1>7, <3>2, <4>1
    <3>4. QED BY <1>4, <3>1, <3>2, <3>3 DEF Follows
  <2>3. QED BY <2>1, <2>2
<1>9. FramesFollow(q)'
  <2>1. \A n \in 1 .. Len(frames) : ~frames'[n].is_valid
    BY <1>1 DEF FramesFollow
  <2>2. QED BY <1>8, <2>1 DEF FramesFollow
<1>10. Midway(q, tok)'
  BY <1>1, <1>6 DEF Midway
<1>11. Holds(stream', tok, rest, later) /\ Counts(bytes_so_far', tok, rest, Head(sent).size)
  BY NothingRead
<1>12. tok \in Seq(Byte) /\ pc' # "idle"
  BY ReadingFacts
<1>13. QED BY <1>3, <1>6, <1>9, <1>10, <1>11, <1>12, ReaderLands

LEMMA KeySeenLands ==
  ASSUME IndInv, Exchangeable, NEW p, NEW tok, NEW rest, NEW later,
         Reading(p, tok, rest, later), pc = "loop", ~AllBegun(Innermost(p)),
         Innermost(p).of.type = "Map", SetValue(NullValue),
         use' = "key", pc' = "integer",
         UNCHANGED <<stream, bytes_so_far, frames, result, given, sent>>
  PROVE  Lands
<1>1. /\ p.mode = "next" /\ Len(p.path) = Len(frames) /\ tok = <<>>
      /\ Continues(p, rest) /\ FramesFollow(p) /\ Len(frames) \in Nat /\ Placed(p)
      /\ rest \in Seq(Byte) /\ Len(frames) \in 1 .. Len(frames) /\ frames # <<>>
      /\ p.path # <<>> /\ LevelOK(Innermost(p)) /\ Innermost(p) = p.path[Len(frames)]
  BY InLoop
<1> DEFINE l == Innermost(p)
<1>2. PICK s \in l.keys, more \in Seq(Byte) :
        /\ rest = (IntBytes(Len(s)) \o s) \o more
        /\ Continues(At(p.root, Replace(p.path, TakeKey(l, s)), "append"), more)
  BY <1>1, RestAtKey
<1> DEFINE k == TakeKey(l, s)
<1>3. PICK q : q = At(p.root, Replace(p.path, k), "append")
  OBVIOUS
<1>4. Continues(q, more)
  BY <1>2, <1>3
<1>5. LevelOK(k) /\ Begun(k) /\ k.of = l.of /\ k.key = s /\ s \in Seq(Byte)
  BY <1>1, TakeKeyFacts
<1>6. Held(k, TRUE) = Held(l, FALSE)
  BY <1>1, HeldTakeKey
<1> HIDE DEF k
<1>7. /\ Placed(q) /\ q.root = p.root /\ q.mode = "append"
      /\ Len(q.path) = Len(p.path) /\ q.path[Len(p.path)] = k
      /\ \A n \in 1 .. Len(p.path) - 1 : q.path[n] = p.path[n]
      /\ Innermost(q) = k
  BY <1>1, <1>3, <1>5, PlacedReplace
<1>8. \A n \in 1 .. Len(frames) : vals'[n] = vals[n]
  BY <1>1, SetValueFacts
<1>9. ReadingKey' /\ ~ReadingKey
  BY DEF ReadingKey
<1>10. ASSUME NEW n \in 1 .. Len(frames) PROVE Follows(q, n)'
  <2>1. CASE n # Len(frames)
    <3>1. n <= Len(p.path) /\ q.path[n] = p.path[n] /\ (Busy(q, n) <=> Busy(p, n))
      BY <1>1, <1>7, <2>1 DEF Busy
    <3>2. vals'[n] = vals[n] /\ frames' = frames
      BY <1>8
    <3>3. QED BY <1>1, <1>9, <3>1, <3>2, FollowsStill
  <2>2. CASE n = Len(frames)
    <3>1. Follows(p, n) /\ ~Busy(p, n) /\ Busy(q, n) /\ q.path[n] = k /\ p.path[n] = l
      BY <1>1, <1>7, <2>2 DEF FramesFollow, Busy
    <3>2. /\ vals[n] = Held(l, FALSE)
          /\ frames[n].type = IF l.of.type = "Array" THEN "Array" ELSE "Object"
      <4>1. Held(l, Busy(p, n)) = Held(l, FALSE)
        BY <3>1 DEF Held, HeldItems, HeldKeys
      <4>2. QED BY <3>1, <4>1 DEF Follows
    <3>3. vals'[n] = Held(k, Busy(q, n))
      <4>1. Held(k, Busy(q, n)) = Held(k, TRUE)
        BY <3>1 DEF Held, HeldItems, HeldKeys
      <4>2. QED BY <1>6, <1>8, <3>2, <4>1
    <3>4. ReadingKey' /\ n = Len(frames')
      BY <1>9, <2>2
    <3>5. QED BY <1>5, <3>1, <3>2, <3>3, <3>4 DEF Follows
  <2>3. QED BY <2>1, <2>2
<1>11. FramesFollow(q)'
  <2>1. \A n \in 1 .. Len(frames) : ~frames'[n].is_valid
    BY <1>1 DEF FramesFollow
  <2>2. QED BY <1>10, <2>1 DEF FramesFollow
<1>12. PICK t \in Seq(Byte) : t = IntBytes(Len(s)) \o s
  BY <1>5, KeyBytesSize
<1>13. Joins(rest, t, more)
  BY <1>2, <1>12, Zenon DEF Joins
<1>14. Holds(stream', t, more, later) /\ Counts(bytes_so_far', t, more, Head(sent).size)
  BY <1>1, <1>13, ReaderCuts
<1>15. IsRead(q, s)'
  BY <1>1, <1>5, <1>7 DEF IsRead
<1>16. Midway(q, t)'
  BY <1>12, <1>15 DEF Midway
<1>17. pc' # "idle"
  OBVIOUS
<1>18. QED BY <1>4, <1>7, <1>11, <1>14, <1>16, <1>17, ReaderLands

LEMMA PeekEndLands ==
  ASSUME IndInv, Exchangeable, NEW p, NEW tok, NEW rest, NEW later,
         Reading(p, tok, rest, later), PeekEnd, UNCHANGED sent
  PROVE  Lands
<1>1. pc = "loop" /\ Peek /\ UNCHANGED <<frames, result, given>>
  BY DEF PeekEnd, Calm, callVars
<1>2. /\ p.mode = "next" /\ tok = <<>> /\ Continues(p, rest)
      /\ LevelOK(Innermost(p))
      /\ Top.type = IF Innermost(p).of.type = "Array" THEN "Array" ELSE "Object"
  BY <1>1, InLoop
<1>3. /\ Len(rest) >= 1
      /\ is_container_end(Top.type, rest[1]) <=> AllBegun(Innermost(p))
  BY <1>2, LoopByte
<1>4. peeked_byte'.first = rest[1] /\ UNCHANGED <<stream, bytes_so_far>>
  BY <1>1, <1>2, <1>3, PeekSees
<1>5. CASE AllBegun(Innermost(p))
  <2>1. pc' = "peel" /\ UNCHANGED vals
    BY <1>3, <1>4, <1>5 DEF PeekEnd
  <2>2. QED BY <1>1, <1>4, <1>5, <2>1, EndSeenLands
<1>6. CASE ~AllBegun(Innermost(p))
  <2>1. StartElement
    BY <1>3, <1>4, <1>6 DEF PeekEnd
  <2>2. Innermost(p).of.type = "Array" \/ Innermost(p).of.type = "Map"
    BY <1>2, LevelFacts
  <2>3. CASE Innermost(p).of.type = "Array"
    <3>1. SetValue(NullValue) /\ pc' = "marker"
      BY <1>2, <2>1, <2>3 DEF StartElement
    <3>2. QED BY <1>1, <1>4, <1>6, <2>3, <3>1, ItemSeenLands
  <2>4. CASE Innermost(p).of.type = "Map"
    <3>1. SetValue(NullValue) /\ use' = "key" /\ pc' = "integer"
      BY <1>2, <2>1, <2>4 DEF StartElement
    <3>2. QED BY <1>1, <1>4, <1>6, <2>4, <3>1, KeySeenLands
  <2>5. QED BY <2>2, <2>3, <2>4
<1>7. QED BY <1>5, <1>6

(* The end of a container, and an element that is stored in the one around *)
(* it.                                                                     *)
LEMMA PeelLands ==
  ASSUME IndInv, Exchangeable, NEW p, NEW tok, NEW rest, NEW later,
         Reading(p, tok, rest, later), Peel, UNCHANGED sent
  PROVE  Lands
<1>1. /\ Continues(p, rest) /\ FramesFollow(p) /\ Len(frames) \in Nat /\ Placed(p)
      /\ tok \in Seq(Byte) /\ rest \in Seq(Byte) /\ Midway(p, tok) /\ frames \in Seq(Frame)
  BY ReadingFacts
<1>2. /\ pc = "peel" /\ p.mode = "return" /\ Len(frames) = Len(p.path) + 1
      /\ tok = <<EndMarker(Current(p))>> /\ Container = Current(p)
  BY <1>1 DEF Midway, Peel
<1>3. /\ frames' = SubSeq(frames, 1, Len(frames) - 1) /\ pc' = "store"
      /\ ReadBuffer(1) /\ UNCHANGED <<vals, result, given>>
  BY DEF Peel, PeelEnd, Leave, Calm, callVars
<1>4. Len(tok) = 1
  BY <1>2
<1>5. Consume(1)
  BY <1>3 DEF ReadBuffer
<1>6. /\ Holds(stream', <<>>, rest, later) /\ Counts(bytes_so_far', <<>>, rest, Head(sent).size)
      /\ <<>> \in Seq(Byte)
  <2>1. Comprises(tok, rest, tok, <<>>, rest) /\ <<>> \in Seq(Byte)
    BY <1>1, WholeToken
  <2>2. QED BY <1>1, <1>4, <1>5, <2>1, ReaderTakes, Zenon
<1>7. /\ frames # <<>> /\ Len(p.path) \in Nat
  BY <1>1, <1>2, PlaceFacts
<1>8. /\ Len(frames') = Len(frames) - 1
      /\ \A n \in 1 .. Len(frames) - 1 : frames'[n] = frames[n]
  BY <1>1, <1>3, <1>7, FrontFacts
<1>9. Midway(p, <<>>)'
  <2>1. Len(frames') + 1 = Len(frames)
    BY <1>1, <1>8
  <2>2. Element' = Current(p)
    <3>1. Container = vals[Len(frames)] /\ Element' = vals'[Len(frames') + 1]
      BY DEF Container, Element
    <3>2. QED BY <1>2, <1>3, <2>1, <3>1
  <2>3. Len(p.path) = Len(frames')
    BY <1>2, <1>7, <1>8
  <2>4. QED BY <1>2, <1>3, <2>2, <2>3 DEF Midway
<1>10. ASSUME NEW n \in 1 .. Len(frames') PROVE ~frames'[n].is_valid /\ Follows(p, n)'
  <2>1. n \in 1 .. Len(frames) /\ n <= Len(p.path) /\ n # Len(frames) /\ frames'[n] = frames[n]
    BY <1>1, <1>2, <1>7, <1>8
  <2>2. ~frames[n].is_valid
    BY <1>1, <2>1 DEF FramesFollow
  <2>3. Follows(p, n)'
    BY <1>1, <1>3, <2>1, FollowsStill
  <2>4. QED BY <2>1, <2>2, <2>3
<1>11. FramesFollow(p)'
  BY <1>10 DEF FramesFollow
<1>12. pc' # "idle"
  BY <1>3
<1>13. QED BY <1>1, <1>3, <1>6, <1>9, <1>11, <1>12, ReaderLands

LEMMA AtStore ==
  ASSUME IndInv, NEW p, NEW tok, NEW rest, NEW later, Reading(p, tok, rest, later),
         pc = "store"
  PROVE  /\ p.mode = "return" /\ Len(p.path) = Len(frames) /\ tok = <<>>
         /\ Continues(p, rest) /\ FramesFollow(p) /\ Len(frames) \in Nat /\ Placed(p)
         /\ frames \in Seq(Frame) /\ Element = Current(p)
         /\ frames # <<>> =>
              /\ Len(frames) \in 1 .. Len(frames) /\ p.path # <<>>
              /\ Innermost(p) = p.path[Len(frames)]
              /\ LevelOK(Innermost(p)) /\ Begun(Innermost(p))
              /\ Top.type = IF Innermost(p).of.type = "Array" THEN "Array" ELSE "Object"
              /\ Innermost(p).of.type = "Map" => Top.key = Innermost(p).key
              /\ Container = Held(Innermost(p), TRUE)
              /\ Element = Item(Innermost(p))
<1>1. /\ Continues(p, rest) /\ FramesFollow(p) /\ Len(frames) \in Nat /\ Placed(p)
      /\ frames \in Seq(Frame) /\ Midway(p, tok)
  BY ReadingFacts
<1>2. p.mode = "return" /\ Len(p.path) = Len(frames) /\ tok = <<>> /\ Element = Current(p)
  BY <1>1 DEF Midway
<1>3. ASSUME frames # <<>>
      PROVE  /\ Len(frames) \in 1 .. Len(frames) /\ p.path # <<>>
             /\ Innermost(p) = p.path[Len(frames)]
             /\ LevelOK(Innermost(p)) /\ Begun(Innermost(p))
             /\ Top.type = IF Innermost(p).of.type = "Array" THEN "Array" ELSE "Object"
             /\ Innermost(p).of.type = "Map" => Top.key = Innermost(p).key
             /\ Container = Held(Innermost(p), TRUE)
             /\ Element = Item(Innermost(p))
  <2>1. Len(frames) \in 1 .. Len(frames)
    BY <1>1, <1>3, EmptySeq
  <2>2. p.path # <<>>
    BY <1>1, <1>2, <2>1, PlaceFacts
  <2>3. Innermost(p) = p.path[Len(frames)]
    BY <1>2 DEF Innermost
  <2>4. LevelOK(Innermost(p)) /\ Begun(Innermost(p))
    BY <1>1, <1>2, <2>2, PlaceFacts
  <2>5. Follows(p, Len(frames)) /\ Busy(p, Len(frames)) /\ ~ReadingKey
    BY <1>1, <1>2, <2>1 DEF FramesFollow, Busy, ReadingKey
  <2>6. /\ Top.type = IF Innermost(p).of.type = "Array" THEN "Array" ELSE "Object"
        /\ Innermost(p).of.type = "Map" => Top.key = Innermost(p).key
    BY <2>3, <2>5 DEF Follows, Top
  <2>7. Container = Held(Innermost(p), TRUE)
    <3>1. Container = Held(Innermost(p), Busy(p, Len(frames)))
      BY <2>3, <2>5 DEF Follows, Container
    <3>2. Held(Innermost(p), Busy(p, Len(frames))) = Held(Innermost(p), TRUE)
      BY <2>5 DEF Held, HeldItems, HeldKeys
    <3>3. QED BY <3>1, <3>2
  <2>8. Element = Item(Innermost(p))
    BY <1>2, <2>2 DEF Current
  <2>9. QED BY <2>1, <2>2, <2>3, <2>4, <2>6, <2>7, <2>8
<1>4. QED BY <1>1, <1>2, <1>3

LEMMA StoreLands ==
  ASSUME IndInv, Exchangeable, NEW p, NEW tok, NEW rest, NEW later,
         Reading(p, tok, rest, later), pc = "store", frames # <<>>,
         NEW v, v = Held(Innermost(p), FALSE), StoreInto(v), UNCHANGED sent
  PROVE  Lands
<1>1. /\ p.mode = "return" /\ Len(p.path) = Len(frames) /\ tok = <<>>
      /\ Continues(p, rest) /\ FramesFollow(p) /\ Len(frames) \in Nat /\ Placed(p)
      /\ frames \in Seq(Frame)
      /\ Len(frames) \in 1 .. Len(frames) /\ p.path # <<>>
      /\ Innermost(p) = p.path[Len(frames)]
  BY AtStore
<1>2. /\ vals' = LastValue(Len(frames), v)
      /\ frames' = [frames EXCEPT ![Len(frames)].item_count = Decrement(@)]
      /\ pc' = "loop" /\ UNCHANGED <<stream, bytes_so_far, result, given>>
  BY DEF StoreInto, streamVars, Calm, callVars
<1>3. PICK q : q = At(p.root, p.path, "next")
  OBVIOUS
<1>4. /\ q.root = p.root /\ q.path = p.path /\ q.mode = "next" /\ Continues(q, rest)
  BY <1>1, <1>3, RestAfterItem, AtParts
<1>5. Placed(q)
  BY <1>4, ContinuesOn
<1>6. /\ Len(frames') = Len(frames)
      /\ \A n \in 1 .. Len(frames) : /\ frames'[n].type = frames[n].type
                                     /\ frames'[n].key = frames[n].key
                                     /\ frames'[n].is_valid = frames[n].is_valid
  <2>1. ASSUME NEW n \in 1 .. Len(frames) PROVE frames[n] \in Frame
    BY <1>1, ElementOfSeq
  <2>2. Len(frames') = Len(frames)
    BY <1>1, <1>2
  <2>3. ASSUME NEW n \in 1 .. Len(frames)
        PROVE  /\ frames'[n].type = frames[n].type
               /\ frames'[n].key = frames[n].key
               /\ frames'[n].is_valid = frames[n].is_valid
    <3>1. CASE n # Len(frames)
      BY <1>1, <1>2, <3>1
    <3>2. CASE n = Len(frames)
      <4>1. frames'[n] = [frames[n] EXCEPT !.item_count = Decrement(@)]
        BY <1>1, <1>2, <3>2
      <4>2. QED BY <2>1, <4>1 DEF Frame
    <3>3. QED BY <3>1, <3>2
  <2>4. QED BY <2>2, <2>3
<1>7. /\ \A n \in 1 .. Len(frames) : n # Len(frames) => vals'[n] = vals[n]
      /\ vals'[Len(frames)] = v
  BY <1>1, <1>2 DEF LastValue
<1>8. ASSUME NEW n \in 1 .. Len(frames) PROVE Follows(q, n)'
  <2>1. CASE n # Len(frames)
    <3>1. /\ n <= Len(p.path) /\ q.path[n] = p.path[n] /\ (Busy(q, n) <=> Busy(p, n))
          /\ vals'[n] = vals[n]
          /\ frames'[n].type = frames[n].type /\ frames'[n].key = frames[n].key
      BY <1>1, <1>4, <1>6, <1>7, <2>1 DEF Busy
    <3>2. QED BY <1>1, <2>1, <3>1, FollowsStill, Zenon
  <2>2. CASE n = Len(frames)
    <3>1. Follows(p, n) /\ ~Busy(q, n) /\ q.path[n] = p.path[n]
      BY <1>1, <1>4, <2>2 DEF FramesFollow, Busy
    <3>2. vals'[n] = Held(q.path[n], Busy(q, n))
      <4>1. Held(q.path[n], Busy(q, n)) = Held(q.path[n], FALSE)
        BY <3>1 DEF Held, HeldItems, HeldKeys
      <4>2. vals'[n] = Held(q.path[n], FALSE)
        BY <1>1, <1>4, <1>7, <2>2
      <4>3. QED BY <4>1, <4>2
    <3>3. frames'[n].type = frames[n].type
      BY <1>6
    <3>4. QED BY <3>1, <3>2, <3>3 DEF Follows
  <2>3. QED BY <2>1, <2>2
<1>9. FramesFollow(q)'
  <2>1. \A n \in 1 .. Len(frames) : ~frames'[n].is_valid
    BY <1>1, <1>6 DEF FramesFollow
  <2>2. QED BY <1>6, <1>8, <2>1 DEF FramesFollow
<1>10. Midway(q, tok)'
  BY <1>1, <1>2, <1>4, <1>6 DEF Midway
<1>11. Holds(stream', tok, rest, later) /\ Counts(bytes_so_far', tok, rest, Head(sent).size)
  BY <1>2, NothingRead
<1>12. tok \in Seq(Byte) /\ pc' # "idle"
  BY <1>2, ReadingFacts
<1>13. QED BY <1>2, <1>4, <1>5, <1>9, <1>10, <1>11, <1>12, ReaderLands

LEMMA StoreElementLands ==
  ASSUME IndInv, Exchangeable, NEW p, NEW tok, NEW rest, NEW later,
         Reading(p, tok, rest, later), StoreElement, UNCHANGED sent
  PROVE  Lands
<1>1. pc = "store" /\ frames # <<>> /\ Top.type = "Array"
      /\ StoreInto(PushBack(Container, Element))
  BY DEF StoreElement
<1>2. /\ LevelOK(Innermost(p)) /\ Begun(Innermost(p))
      /\ Top.type = IF Innermost(p).of.type = "Array" THEN "Array" ELSE "Object"
      /\ Container = Held(Innermost(p), TRUE) /\ Element = Item(Innermost(p))
  BY <1>1, AtStore
<1>3. Innermost(p).of.type = "Array"
  BY <1>1, <1>2
<1>4. PushBack(Container, Element) = Held(Innermost(p), FALSE)
  BY <1>2, <1>3, HeldPushBack
<1>5. QED BY <1>1, <1>4, StoreLands

LEMMA StoreKeyLands ==
  ASSUME IndInv, Exchangeable, NEW p, NEW tok, NEW rest, NEW later,
         Reading(p, tok, rest, later), pc = "store", frames # <<>>, Top.type = "Object"
  PROVE  Indexable(Container) /\ (StoreKey /\ UNCHANGED sent => Lands)
<1>1. /\ LevelOK(Innermost(p)) /\ Begun(Innermost(p))
      /\ Top.type = IF Innermost(p).of.type = "Array" THEN "Array" ELSE "Object"
      /\ Innermost(p).of.type = "Map" => Top.key = Innermost(p).key
      /\ Container = Held(Innermost(p), TRUE) /\ Element = Item(Innermost(p))
  BY AtStore
<1>2. Innermost(p).of.type = "Map"
  <2>1. Innermost(p).of.type = "Array" \/ Innermost(p).of.type = "Map"
    BY <1>1, LevelFacts
  <2>2. QED BY <1>1, <2>1
<1>3. /\ Indexable(Container)
      /\ AssignKey(Container, Top.key, Element) = Held(Innermost(p), FALSE)
  BY <1>1, <1>2, HeldAssignKey
<1>4. ASSUME StoreKey, UNCHANGED sent PROVE Lands
  BY <1>3, <1>4, StoreLands DEF StoreKey
<1>5. QED BY <1>3, <1>4

-----------------------------------------------------------------------------
(* No call of getNextValue fails.                                          *)

(* What a statement asks for is there.                                     *)
LEMMA DemandMet ==
  ASSUME IndInv, Exchangeable, NEW p, NEW tok, NEW rest, NEW later,
         Reading(p, tok, rest, later)
  PROVE  Demand \in Nat /\ Demand <= Len(tok) + Len(rest)
<1>1. /\ Continues(p, rest) /\ FramesFollow(p) /\ Len(frames) \in Nat /\ Placed(p)
      /\ frames \in Seq(Frame) /\ tok \in Seq(Byte) /\ rest \in Seq(Byte) /\ Midway(p, tok)
      /\ Len(tok) \in Nat /\ Len(rest) \in Nat
  BY ReadingFacts
<1>2. ~TypedElement /\ (frames # <<>> => ~Top.is_valid)
  BY <1>1, NotTyped
<1>3. CASE pc = "marker"
  <2>1. Len(rest) >= 1
    BY <1>1, <1>3, ElementByte DEF Midway
  <2>2. Demand = 1
    BY <1>2, <1>3 DEF Demand
  <2>3. QED BY <1>1, <2>1, <2>2
<1>4. CASE pc = "payload"
  <2>1. Demand = Len(tok)
    BY <1>1, <1>4 DEF Demand, Midway
  <2>2. QED BY <1>1, <2>1
<1>5. CASE pc = "integer"
  <2>1. PICK s : IsRead(p, s) /\ tok = IntBytes(Len(s)) \o s
    BY <1>1, <1>5 DEF Midway
  <2>2. s \in Seq(Byte)
    BY <2>1 DEF IsRead
  <2>3. Len(tok) = IntSize(Len(s)) + Len(s)
    BY <2>1, <2>2, KeyBytesSize DEF KeySize
  <2>4. IntSize(Len(s)) \in 1 .. 9 /\ Len(s) \in Nat
    <3>1. Width32 \in 1 .. 8 /\ Width64 \in 1 .. 8
      BY WidthAssumption
    <3>2. QED BY <2>2, <3>1, LenProperties DEF IntSize
  <2>5. Len(tok) >= 1
    BY <2>3, <2>4
  <2>6. Demand = 1
    BY <1>5 DEF Demand
  <2>7. QED BY <1>1, <2>5, <2>6
<1>6. CASE pc = "digits"
  <2>1. PICK s : /\ IsRead(p, s) /\ b = IntMarker(Len(s))
                 /\ tok = BigEndian(Len(s), Width(b)) \o s
    BY <1>1, <1>6 DEF Midway
  <2>2. s \in Seq(Byte) /\ Len(s) \in Int /\ InRange(Len(s), Width64) /\ Len(s) \in Nat
    BY <1>1, <2>1, IsReadFits, LenProperties
  <2> DEFINE piece == BigEndian(Len(s), Width(b))
  <2>3. piece \in Seq(Byte) /\ Len(piece) = Width(b)
    BY <2>1, <2>2, IntegerBack
  <2> HIDE DEF piece
  <2>4. Joins(tok, piece, s)
    BY <2>1, Zenon DEF Joins, piece
  <2>5. Len(tok) = Len(piece) + Len(s) /\ Len(piece) \in Nat
    BY <2>2, <2>3, <2>4, JoinLength
  <2>6. Demand = Width(b)
    BY <1>6 DEF Demand
  <2>7. QED BY <1>1, <2>2, <2>3, <2>5, <2>6
<1>7. CASE pc = "bytes"
  <2>1. Demand = Len(tok)
    BY <1>1, <1>7 DEF Demand, Midway
  <2>2. QED BY <1>1, <2>1
<1>8. CASE pc = "container"
  <2>1. Len(rest) >= 1
    BY <1>1, <1>8, LoopByte DEF Midway
  <2>2. Demand = 1
    BY <1>8 DEF Demand
  <2>3. QED BY <1>1, <2>1, <2>2
<1>9. CASE pc = "loop"
  <2>1. Len(rest) >= 1
    BY <1>1, <1>9, LoopByte DEF Midway
  <2>2. ~Top.is_valid
    BY <1>9, InLoop
  <2>3. Demand = 1
    BY <1>9, <2>2 DEF Demand
  <2>4. QED BY <1>1, <2>1, <2>3
<1>10. CASE pc = "peel"
  <2>1. Len(tok) = 1
    BY <1>1, <1>10 DEF Midway
  <2>2. Demand = 1
    BY <1>10 DEF Demand
  <2>3. QED BY <1>1, <2>1, <2>2
<1>11. CASE pc \in {"enter", "store"}
  <2>1. Demand = 0
    BY <1>11 DEF Demand
  <2>2. QED BY <1>1, <2>1
<1>12. QED
  BY <1>1, <1>3, <1>4, <1>5, <1>6, <1>7, <1>8, <1>9, <1>10, <1>11 DEF Midway

(* So none of the steps in which a call fails is taken, nor one of those   *)
(* that read the header of an optimized container.                         *)
LEMMA NoPolicyViolation ==
  ASSUME IndInv, Exchangeable, NEW p, NEW tok, NEW rest, NEW later,
         Reading(p, tok, rest, later)
  PROVE  ~PolicyViolation
<1>1. Demand \in Nat /\ Demand <= Len(tok) + Len(rest)
  BY DemandMet
<1>2. /\ bytes_so_far \in Nat /\ Len(tok) \in Nat /\ Len(rest) \in Nat
      /\ bytes_so_far + Len(tok) + Len(rest) <= MaxObjectSize
  BY ReadingFacts
<1> DEFINE n == Demand  i == Len(tok)  j == Len(rest)
<1>3. n \in Nat /\ n <= i + j /\ i \in Nat /\ j \in Nat /\ bytes_so_far + i + j <= MaxObjectSize
  BY <1>1, <1>2
<1>4. MaxObjectSize \in Nat
  BY ReaderAssumption
<1> HIDE DEF n, i, j
<1>5. bytes_so_far + n <= MaxObjectSize
  BY <1>2, <1>3, <1>4
<1>6. Fits(n)
  BY <1>2, <1>3, <1>5, FitsWhen
<1>7. QED BY <1>6 DEF PolicyViolation, n

LEMMA NoBadAlloc ==
  ASSUME IndInv, Exchangeable, NEW p, NEW tok, NEW rest, NEW later,
         Reading(p, tok, rest, later)
  PROVE  ~BadAlloc
<1>1. SUFFICES ASSUME BadAlloc PROVE FALSE
  OBVIOUS
<1>2. pc = "bytes" /\ num > MaxAlloc
  BY <1>1 DEF BadAlloc
<1>3. /\ bytes_so_far \in Nat /\ Len(tok) \in Nat /\ Len(rest) \in Nat
      /\ bytes_so_far + Len(tok) + Len(rest) <= MaxObjectSize /\ Midway(p, tok)
  BY ReadingFacts
<1>4. num = Len(tok)
  BY <1>2, <1>3 DEF Midway
<1>5. MaxObjectSize <= MaxAlloc /\ MaxObjectSize \in Nat /\ MaxAlloc \in Nat
  BY ReaderAssumption DEF Exchangeable
<1> DEFINE i == Len(tok)  j == Len(rest)
<1>6. i \in Nat /\ j \in Nat /\ bytes_so_far + i + j <= MaxObjectSize /\ num = i
  BY <1>3, <1>4
<1> HIDE DEF i, j
<1>7. QED BY <1>2, <1>3, <1>5, <1>6

LEMMA NoDepthExceeded ==
  ASSUME IndInv, Exchangeable, NEW p, NEW tok, NEW rest, NEW later,
         Reading(p, tok, rest, later)
  PROVE  ~DepthExceeded
<1>1. SUFFICES ASSUME DepthExceeded PROVE FALSE
  OBVIOUS
<1>2. pc = "enter" /\ recursive_depth + 1 > MaxDepth
  BY <1>1 DEF DepthExceeded
<1>3. Placed(p) /\ Midway(p, tok) /\ Len(frames) \in Nat
  BY ReadingFacts
<1>4. Len(p.path) = Len(frames) + 1 /\ Len(p.path) <= MaxDepth
  BY <1>2, <1>3, PlaceFacts DEF Midway
<1>5. recursive_depth = Len(frames)
  BY <1>2 DEF IndInv, DepthGuard
<1>6. MaxDepth \in Nat
  BY ReaderAssumption
<1>7. QED BY <1>2, <1>3, <1>4, <1>5, <1>6

LEMMA NoHeaderRead ==
  ASSUME IndInv, Exchangeable, NEW p, NEW tok, NEW rest, NEW later,
         Reading(p, tok, rest, later)
  PROVE  ~ReadHeader /\ ~PeekCount /\ ~ReadType /\ ~NextCounted /\ ~LeaveCounted
<1>1. Midway(p, tok)
  BY ReadingFacts
<1>2. pc \notin {"header", "count", "type"}
  BY <1>1 DEF Midway
<1>3. pc = "loop" => ~Top.is_valid
  BY InLoop
<1>4. QED BY <1>2, <1>3 DEF ReadHeader, PeekCount, ReadType, NextCounted, LeaveCounted

LEMMA NoBadCount ==
  ASSUME IndInv, Exchangeable, NEW p, NEW tok, NEW rest, NEW later,
         Reading(p, tok, rest, later)
  PROVE  ~ReadNoInteger /\ ~InvalidCount
<1>1. CASE pc = "integer"
  <2>1. /\ use \in {"key", "string"}
        /\ \A c \in {buf[1] : buf \in Read(1)} : isInteger(c)
    BY <1>1, ReadIntegerLands
  <2>2. ~ReadNoInteger
    BY <2>1 DEF ReadNoInteger
  <2>3. ~InvalidCount
    BY <2>1 DEF InvalidCount
  <2>4. QED BY <2>2, <2>3
<1>2. CASE pc # "integer"
  BY <1>2 DEF ReadNoInteger, InvalidCount
<1>3. QED BY <1>1, <1>2

LEMMA NoIndexError ==
  ASSUME IndInv, Exchangeable, NEW p, NEW tok, NEW rest, NEW later,
         Reading(p, tok, rest, later)
  PROVE  ~IndexError
<1>1. SUFFICES ASSUME IndexError PROVE FALSE
  OBVIOUS
<1>2. pc = "store" /\ frames # <<>> /\ Top.type = "Object" /\ ~Indexable(Container)
  BY <1>1 DEF IndexError
<1>3. QED BY <1>2, StoreKeyLands

(* Every other step but the last lands at the next place.                  *)
LEMMA StepLands ==
  ASSUME IndInv, Exchangeable, NEW p, NEW tok, NEW rest, NEW later,
         Reading(p, tok, rest, later), Step, UNCHANGED sent, ~Return
  PROVE  Lands
<1>1. CASE ReadMarker
  BY <1>1, ReadMarkerLands
<1>2. CASE ReadPayload
  BY <1>2, ReadPayloadLands
<1>3. CASE ReadInteger
  <2>1. pc = "integer"
    BY <1>3 DEF ReadInteger
  <2>2. QED BY <1>3, <2>1, ReadIntegerLands
<1>4. CASE ReadDigits
  BY <1>4, ReadDigitsLands
<1>5. CASE ReadBytes
  BY <1>5, ReadBytesLands
<1>6. CASE PeekContainer
  BY <1>6, PeekContainerLands
<1>7. CASE Enter
  BY <1>7, EnterLands
<1>8. CASE PeekEnd
  BY <1>8, PeekEndLands
<1>9. CASE Peel
  BY <1>9, PeelLands
<1>10. CASE StoreKey
  <2>1. pc = "store" /\ frames # <<>> /\ Top.type = "Object"
    BY <1>10 DEF StoreKey
  <2>2. QED BY <1>10, <2>1, StoreKeyLands
<1>11. CASE StoreElement
  BY <1>11, StoreElementLands
<1>12. /\ ~PolicyViolation /\ ~BadAlloc /\ ~DepthExceeded /\ ~IndexError
       /\ ~ReadNoInteger /\ ~InvalidCount
       /\ ~ReadHeader /\ ~PeekCount /\ ~ReadType /\ ~NextCounted /\ ~LeaveCounted
  BY NoPolicyViolation, NoBadAlloc, NoDepthExceeded, NoIndexError, NoBadCount, NoHeaderRead
<1>13. QED
  BY <1>1, <1>2, <1>3, <1>4, <1>5, <1>6, <1>7, <1>8, <1>9, <1>10, <1>11, <1>12, Zenon DEF Step

-----------------------------------------------------------------------------
(* Both ends together.                                                     *)

(* getNextValue begins.                                                    *)
LEMMA StartReadKeeps ==
  ASSUME IndInv, RTInv, StartRead
  PROVE  RTInv'
<1>1. /\ pc = "idle" /\ wpc = "idle" /\ sent # <<>> /\ pc' = "marker"
      /\ given' = NullValue /\ result' = "none" /\ bytes_so_far' = 0
      /\ UNCHANGED <<stream, frames, sent, out, offered, wpc>>
  BY DEF StartRead, GetNextValue, NewBudget, wvars
<1>2. Carries(sent, stream) /\ sent \in Seq(Messages) /\ Len(out) = offered
  BY <1>1 DEF RTInv, BothIdle
<1>3. PICK first, others :
        /\ IsSentAs(Head(sent), first) /\ others \in Seq(Byte)
        /\ stream = first \o others /\ Carries(Tail(sent), others)
  BY <1>1, <1>2, CarriesHead
<1>4. PICK q : q = At(Head(sent).value, <<>>, "append")
  OBVIOUS
<1>5. Continues(q, first) /\ Len(first) = Head(sent).size
  BY <1>3, <1>4 DEF IsSentAs, Encodes
<1>6. Placed(q) /\ first \in Seq(Byte)
  BY <1>5, ContinuesOn
<1>7. q.root = Head(sent).value /\ q.path = <<>> /\ q.mode = "append"
  BY <1>4, AtParts
<1>8. frames = <<>> /\ Len(frames) = 0 /\ Len(q.path) = 0
  BY <1>1, <1>7 DEF IndInv, InContainer
<1>9. FramesFollow(q)'
  BY <1>1, <1>8 DEF FramesFollow
<1>10. PICK none \in Seq(Byte) : none = <<>> /\ Len(none) = 0
  <2>1. <<>> \in Seq(Byte) /\ Len(<<>>) = 0
    OBVIOUS
  <2>2. QED BY <2>1, Zenon
<1>11. Midway(q, none)'
  BY <1>1, <1>7, <1>8, <1>10 DEF Midway
<1>12. stream' = none \o (first \o others)
  <2>1. first \o others \in Seq(Byte)
    BY <1>3, <1>6, ConcatProperties
  <2>2. <<>> \o (first \o others) = first \o others
    BY <2>1, ConcatEmptySeq
  <2>3. QED BY <1>1, <1>3, <1>10, <2>2, Zenon
<1>13. bytes_so_far' + Len(none) + Len(first) = Head(sent').size
  <2>1. Len(first) \in Nat
    BY <1>6, LenProperties
  <2>2. Len(none) = 0 /\ Len(first) = Head(sent).size
    BY <1>5, <1>10
  <2>3. QED BY <1>1, <2>1, <2>2
<1>14. ReaderAt(q, none, first, others)'
  BY <1>1, <1>3, <1>5, <1>6, <1>7, <1>9, <1>10, <1>11, <1>12, <1>13 DEF ReaderAt
<1>15. ReaderInPlace'
  BY <1>1, <1>14 DEF ReaderInPlace
<1>16. QED BY <1>1, <1>2, <1>15 DEF RTInv, WriterInPlace, BothIdle, NeverRefused

(* It returns the Value that was sent first, and has read its bytes.       *)
LEMMA ReturnsHead ==
  ASSUME IndInv, NEW p, NEW tok, NEW rest, NEW later, Reading(p, tok, rest, later), Return
  PROVE  /\ vals'[1] = Head(sent).value /\ bytes_so_far = Head(sent).size
         /\ stream' = later /\ Carries(Tail(sent), later)
<1>1. /\ pc = "store" /\ frames = <<>>
      /\ UNCHANGED <<vals, stream>>
  BY DEF Return, streamVars
<1>2. /\ p.mode = "return" /\ Len(p.path) = Len(frames) /\ tok = <<>>
      /\ Continues(p, rest) /\ Placed(p) /\ Element = Current(p)
  BY <1>1, AtStore
<1>3. Len(frames) = 0 /\ p.path = <<>>
  BY <1>1, <1>2, PlaceFacts
<1>4. rest = <<>>
  BY <1>2, <1>3, RestAfterRoot
<1>5. /\ p.root = Head(sent).value /\ later \in Seq(Byte) /\ Carries(Tail(sent), later)
      /\ stream = tok \o (rest \o later)
      /\ bytes_so_far + Len(tok) + Len(rest) = Head(sent).size
  BY DEF Reading, ReaderAt
<1>6. vals'[1] = Head(sent).value
  <2>1. Element = vals[1]
    BY <1>3 DEF Element
  <2>2. Current(p) = p.root
    BY <1>3 DEF Current
  <2>3. QED BY <1>1, <1>2, <1>5, <2>1, <2>2
<1>7. bytes_so_far = Head(sent).size
  <2>1. Len(tok) = 0 /\ Len(rest) = 0
    BY <1>2, <1>4
  <2>2. bytes_so_far \in Nat
    BY ReadingFacts
  <2>3. QED BY <1>5, <2>1, <2>2
<1>8. stream = later
  <2>1. <<>> \o later = later
    BY <1>5, ConcatEmptySeq
  <2>2. QED BY <1>2, <1>4, <1>5, <2>1, Zenon
<1>9. QED BY <1>1, <1>5, <1>6, <1>7, <1>8

(* Only the last statement makes the result "true".                        *)
LEMMA OnlyReturnIsTrue ==
  ASSUME Step, result = "none"
  PROVE  result' = "true" <=> Return
<1>1. Return => result' = "true"
  BY DEF Return
<1>2. \/ UNCHANGED result \/ Return
      \/ result' \in {"false", "bad_alloc", "value_exception"}
  BY DEF Step, ReadMarker, ReadPayload, ReadInteger, ReadNoInteger, InvalidCount, ReadDigits,
         ReadBytes, PeekContainer, ReadHeader, PeekCount, ReadType, Enter, NextCounted, PeekEnd,
         Peel, LeaveCounted, StoreKey, StoreElement, PolicyViolation, BadAlloc,
         DepthExceeded, IndexError, Calm, Throw, Escape, Leave, StoreInto
<1>3. QED BY <1>1, <1>2

LEMMA CallRunning ==
  ASSUME Step
  PROVE  pc # "idle"
BY DEF Step, ReadMarker, ReadPayload, ReadInteger, ReadNoInteger, InvalidCount, ReadDigits,
       ReadBytes, PeekContainer, ReadHeader, PeekCount, ReadType, Enter, NextCounted, PeekEnd,
       Peel, LeaveCounted, StoreKey, StoreElement, PolicyViolation, BadAlloc,
       DepthExceeded, IndexError, Return, Running

LEMMA MidCall ==
  ASSUME RTInv, pc # "idle"
  PROVE  /\ wpc = "idle" /\ result = "none" /\ sent \in Seq(Messages) /\ sent # <<>>
         /\ \E p, tok, rest, later : Reading(p, tok, rest, later)
<1>1. /\ wpc = "idle" /\ sent # <<>> /\ result = "none" /\ given = NullValue
      /\ sent \in Seq(Messages)
      /\ \E p, tok, rest, later : ReaderAt(p, tok, rest, later)
  BY DEF RTInv, ReaderInPlace
<1>2. QED BY <1>1 DEF Reading

(* A call that returns hands over what was sent first.                     *)
LEMMA HandsOverHead ==
  ASSUME IndInv, RTInv, RunReader, Return
  PROVE  /\ sent # <<>> /\ sent' = Tail(sent) /\ received' = <<Head(sent)>>
         /\ Carries(sent', stream')
<1>1. Step /\ pc # "idle"
  BY CallRunning DEF RunReader
<1>2. PICK p, tok, rest, later : Reading(p, tok, rest, later)
  BY <1>1, MidCall
<1>3. result = "none" /\ sent \in Seq(Messages) /\ sent # <<>>
  BY <1>1, MidCall
<1>4. /\ vals'[1] = Head(sent).value /\ bytes_so_far = Head(sent).size
      /\ stream' = later /\ Carries(Tail(sent), later)
  BY <1>2, ReturnsHead
<1>5. result' = "true"
  BY DEF Return
<1>6. /\ received' = <<[value |-> vals'[1], size |-> bytes_so_far]>>
      /\ sent' = Tail(sent)
  BY <1>5 DEF RunReader
<1>7. Head(sent) = [value |-> vals'[1], size |-> bytes_so_far]
  <2>1. Head(sent) \in Messages
    BY <1>3, HeadTailProperties
  <2>2. QED BY <1>4, <2>1 DEF Messages
<1>8. QED BY <1>3, <1>4, <1>6, <1>7

LEMMA RunReaderKeeps ==
  ASSUME IndInv, RTInv, Exchangeable, RunReader
  PROVE  RTInv'
<1>1. Step /\ pc # "idle" /\ UNCHANGED <<wpc, out, offered>>
  BY CallRunning DEF RunReader, wvars
<1>2. wpc = "idle" /\ result = "none" /\ sent \in Seq(Messages) /\ sent # <<>>
  BY <1>1, MidCall
<1>3. PICK p, tok, rest, later : Reading(p, tok, rest, later)
  BY <1>1, MidCall
<1>4. Len(out') = offered'
  BY <1>1 DEF RTInv
<1>5. CASE Return
  <2>1. sent' = Tail(sent) /\ Carries(sent', stream')
    BY <1>5, HandsOverHead
  <2>2. sent' \in Seq(Messages)
    BY <1>2, <2>1, HeadTailProperties
  <2>3. pc' = "idle" /\ result' = "true"
    BY <1>5 DEF Return
  <2>4. QED
    BY <1>1, <1>2, <1>4, <2>1, <2>2, <2>3 DEF RTInv, WriterInPlace, ReaderInPlace, BothIdle,
                                              NeverRefused
<1>6. CASE ~Return
  <2>1. UNCHANGED sent
    BY <1>1, <1>2, <1>6, OnlyReturnIsTrue DEF RunReader
  <2>2. Lands
    BY <1>1, <1>3, <1>6, <2>1, StepLands
  <2>3. given = NullValue
    BY <1>3 DEF Reading
  <2>4. ReaderInPlace' /\ pc' # "idle" /\ result' = "none"
    BY <1>1, <1>2, <2>1, <2>2, <2>3 DEF Lands, ReaderInPlace
  <2>5. QED
    BY <1>1, <1>2, <1>4, <2>1, <2>4 DEF RTInv, WriterInPlace, BothIdle, NeverRefused
<1>7. QED BY <1>5, <1>6

(* The two ends share nothing but the stream, which the writer makes longer. *)
LEMMA ReaderApart ==
  ASSUME IndInv, WInv, WInv', [RTNext]_rtvars
  PROVE  IndInv'
<1>1. CASE StartWrite \/ UNCHANGED rtvars
  <2>1. UNCHANGED vars
    BY <1>1 DEF StartWrite, rtvars, readerVars
  <2>2. QED BY <2>1, StepKeeps
<1>2. CASE RunWriter
  <2>1. stream \in Seq(Byte) /\ out' \in Seq(Byte) /\ out \in Seq(Byte)
    BY DEF IndInv, TypeOK, WInv, WTypeOK
  <2>2. Len(out) \in Nat /\ Len(out') \in Nat
    BY <2>1, LenProperties
  <2>3. SubSeq(out', Len(out) + 1, Len(out')) \in Seq(Byte)
    <3>1. \A i \in Len(out) + 1 .. Len(out') : i \in 1 .. Len(out')
      BY <2>2
    <3>2. \A i \in Len(out) + 1 .. Len(out') : out'[i] \in Byte
      BY <2>1, <3>1, ElementOfSeq
    <3>3. Len(out) + 1 \in Int /\ Len(out') \in Int
      BY <2>2
    <3>4. QED BY <3>2, <3>3, SubSeqProperties
  <2>4. stream' \in Seq(Byte)
    BY <1>2, <2>1, <2>3, ConcatProperties DEF RunWriter, Transfer
  <2>5. UNCHANGED OtherReaderVars
    BY <1>2 DEF RunWriter
  <2>6. QED BY <2>4, <2>5 DEF OtherReaderVars, callVars, localVars, IndInv, TypeOK, DepthGuard,
                   Budget, TypedHeaderDead, EscapeOnlyOnReuse, InContainer, HeaderSound,
                   ElementFresh, Element, ObjectsIndexable
<1>3. CASE StartRead
  <2>1. Call
    BY <1>3 DEF StartRead, Call
  <2>2. QED BY <2>1, StepKeeps DEF Next
<1>4. CASE RunReader
  BY <1>4, StepKeeps DEF RunReader, Next
<1>5. QED BY <1>1, <1>2, <1>3, <1>4 DEF RTNext

LEMMA WriterApart ==
  ASSUME WInv, [RTNext]_rtvars
  PROVE  WInv'
<1>1. [WNext]_wvars
  BY DEF RTNext, StartWrite, RunWriter, StartRead, RunReader, rtvars, WNext
<1>2. QED BY <1>1, WStepInv

LEMMA NothingMovesKeeps ==
  ASSUME RTInv, UNCHANGED rtvars
  PROVE  RTInv'
<1>1. /\ UNCHANGED <<out, offered, wpc, wframes, value, written, start, sent>>
      /\ UNCHANGED <<stream, bytes_so_far, given, marker, b, use, num, header>>
      /\ UNCHANGED <<frames, vals, pc, result>>
  BY DEF rtvars, readerVars, vars, streamVars, callVars, localVars, wvars
<1>2. ASSUME NEW p, NEW done, NEW part, WriterAt(p, done, part) PROVE WriterAt(p, done, part)'
  BY <1>1, <1>2 DEF WriterAt, Mirrors
<1>3. ASSUME NEW p, NEW tok, NEW rest, NEW later, ReaderAt(p, tok, rest, later)
      PROVE  ReaderAt(p, tok, rest, later)'
  <2>1. FramesFollow(p)'
    BY <1>1, <1>3 DEF ReaderAt, FramesFollow, Follows, ReadingKey
  <2>2. Midway(p, tok)'
    <3>1. Container' = Container /\ Element' = Element
      BY <1>1 DEF Container, Element
    <3>2. \A s : IsRead(p, s)' <=> IsRead(p, s)
      BY <1>1 DEF IsRead
    <3>3. Midway(p, tok)
      BY <1>3 DEF ReaderAt
    <3>4. /\ pc' = pc /\ marker' = marker /\ frames' = frames /\ b' = b
          /\ num' = num /\ header' = header
      BY <1>1
    <3>5. Width(b') = Width(b)
      BY <3>4
    <3>6. CASE pc \in {"marker", "integer", "digits", "bytes"}
      <4>1. CASE pc = "marker"
        BY <3>3, <3>4, <4>1 DEF Midway
      <4>2. CASE pc = "integer"
        BY <3>2, <3>3, <3>4, <4>2 DEF Midway
      <4>3. CASE pc = "digits"
        BY <3>2, <3>3, <3>4, <3>5, <4>3 DEF Midway
      <4>4. CASE pc = "bytes"
        BY <3>2, <3>3, <3>4, <4>4 DEF Midway
      <4>5. QED BY <3>6, <4>1, <4>2, <4>3, <4>4
    <3>7. CASE pc \notin {"marker", "integer", "digits", "bytes"}
      BY <3>1, <3>3, <3>4, <3>7 DEF Midway
    <3>8. QED BY <3>6, <3>7
  <2>3. QED BY <1>1, <1>3, <2>1, <2>2 DEF ReaderAt
<1>4. WriterInPlace'
  BY <1>1, <1>2 DEF RTInv, WriterInPlace
<1>5. ReaderInPlace'
  BY <1>1, <1>3 DEF RTInv, ReaderInPlace
<1>6. QED BY <1>1, <1>4, <1>5 DEF RTInv, BothIdle, NeverRefused

-----------------------------------------------------------------------------
(* The inductive invariant of the pair.                                    *)
Sound == Exchangeable /\ IndInv /\ WInv /\ RTInv

LEMMA SoundInit == Exchangeable /\ RTInit => Sound
<1> SUFFICES ASSUME Exchangeable, RTInit PROVE Sound
  OBVIOUS
<1>1. IndInv /\ WInv
  BY InitEstablishes, WInitInv DEF RTInit
<1>2. /\ pc = "idle" /\ wpc = "idle" /\ result = "none" /\ stream \in Inputs
      /\ out = <<>> /\ offered = 0 /\ sent = <<>>
  BY DEF RTInit, Init, WInit
<1>3. stream = <<>> /\ Len(out) = offered /\ sent \in Seq(Messages)
  BY <1>2 DEF Exchangeable
<1>4. RTInv
  BY <1>2, <1>3, CarriesNothing DEF RTInv, WriterInPlace, ReaderInPlace, BothIdle, NeverRefused
<1>5. QED BY <1>1, <1>4 DEF Sound

LEMMA SoundStep == Sound /\ WithinPolicy' /\ [RTNext]_rtvars => Sound'
<1> SUFFICES ASSUME Sound, WithinPolicy', [RTNext]_rtvars PROVE Sound'
  OBVIOUS
<1>1. Exchangeable /\ IndInv /\ WInv /\ RTInv /\ stream \in Seq(Byte)
  BY DEF Sound, IndInv, TypeOK
<1>2. WInv' /\ IndInv'
  BY <1>1, WriterApart, ReaderApart
<1>3. RTInv'
  <2>1. CASE StartWrite
    BY <1>1, <2>1, StartWriteKeeps
  <2>2. CASE RunWriter
    BY <1>1, <2>2, RunWriterKeeps
  <2>3. CASE StartRead
    BY <1>1, <2>3, StartReadKeeps
  <2>4. CASE RunReader
    BY <1>1, <2>4, RunReaderKeeps
  <2>5. CASE UNCHANGED rtvars
    BY <1>1, <2>5, NothingMovesKeeps
  <2>6. QED BY <2>1, <2>2, <2>3, <2>4, <2>5 DEF RTNext
<1>4. Exchangeable'
  BY <1>1 DEF Exchangeable
<1>5. QED BY <1>2, <1>3, <1>4 DEF Sound

(* Whatever is written and read, within the policy or not: all that holds  *)
(* of a reader alone and of a writer alone holds of the two of them on one *)
(* stream, which grows under the reader between its calls.                 *)
THEOREM ApartInvariant == RTSpec => [](IndInv /\ WInv)
<1>1. RTInit => IndInv /\ WInv
  BY InitEstablishes, WInitInv DEF RTInit
<1>2. IndInv /\ WInv /\ [RTNext]_rtvars => IndInv' /\ WInv'
  BY WriterApart, ReaderApart
<1>3. QED BY <1>1, <1>2, PTL DEF RTSpec

(* Writer and reader are always at places of the Value under way, and the  *)
(* stream holds the bytes that lead from there to its end, and after them  *)
(* those of the Values that wait.                                          *)
THEOREM RoundTripInvariance == Exchangeable /\ RTSpec /\ []WithinPolicy => []Sound
  BY SoundInit, SoundStep, PTL DEF RTSpec

(* No call of getNextValue returns false or throws on what writeValue has  *)
(* written: no policy, no depth, no count and no allocation is exceeded.   *)
THEOREM ReadsNeverRefused == Exchangeable /\ RTSpec /\ []WithinPolicy => []NeverRefused
<1>1. Sound => NeverRefused
  BY DEF Sound, RTInv
<1>2. QED BY <1>1, RoundTripInvariance, PTL

(* When as many Values have been read as were written, the reads have left *)
(* no byte on the stream.                                                  *)
THEOREM EveryByteRead == Exchangeable /\ RTSpec /\ []WithinPolicy => []NothingLeft
<1>1. Sound => NothingLeft
  <2>1. SUFFICES ASSUME Sound, pc = "idle", wpc = "idle", sent = <<>> PROVE stream = <<>>
    BY DEF NothingLeft
  <2>2. Carries(<<>>, stream)
    BY <2>1 DEF Sound, RTInv, BothIdle
  <2>3. QED BY <2>2, CarriesHead
<1>2. QED BY <1>1, RoundTripInvariance, PTL

(* Every step is one of the channel, or one it does not see.               *)
LEMMA IsChannelStep ==
  Sound /\ Sound' /\ [RTNext]_rtvars => [Channel!Next]_<<sent, received>>
<1> SUFFICES ASSUME Sound, Sound', [RTNext]_rtvars, ~UNCHANGED <<sent, received>>
             PROVE  Channel!Next
  OBVIOUS
<1>1. IndInv /\ RTInv /\ sent \in Seq(Messages) /\ sent' \in Seq(Messages)
  BY DEF Sound, RTInv
<1>2. CASE RunWriter
  <2>1. UNCHANGED received
    BY <1>2 DEF RunWriter
  <2> DEFINE m == [value |-> written, size |-> rtn.first]
  <2>2. sent' = Append(sent, m)
    BY <1>2, <2>1 DEF RunWriter
  <2> HIDE DEF m
  <2>3. Len(sent) \in Nat /\ Len(sent') = Len(sent) + 1
    BY <1>1, <2>2, LenProperties
  <2>4. sent' \in [1 .. Len(sent) + 1 -> Messages]
    BY <1>1, <2>3
  <2>5. SubSeq(sent', 1, Len(sent)) = sent
    BY <1>1, <2>2, <2>3
  <2>6. QED BY <2>1, <2>4, <2>5 DEF Channel!Next, Channel!Send
<1>3. CASE RunReader
  <2>1. Return
    BY <1>1, <1>3, CallRunning, MidCall, OnlyReturnIsTrue DEF RunReader
  <2>2. QED BY <1>1, <1>3, <2>1, HandsOverHead DEF Channel!Next, Channel!Receive
<1>4. QED BY <1>2, <1>3 DEF RTNext, StartWrite, StartRead, rtvars

(* getNextValue returns the Values that writeValue was given, unchanged,   *)
(* in the order they were written, and reads as many bytes for each as     *)
(* writeValue had returned: the pair implements ValueChannel.              *)
THEOREM IsChannel == Exchangeable /\ RTSpec /\ []WithinPolicy => DeliversInOrder
<1>1. RTInit => Channel!Init
  BY DEF RTInit, Channel!Init
<1>2. QED
  BY <1>1, IsChannelStep, RoundTripInvariance, PTL DEF DeliversInOrder, Channel!Spec, RTSpec
=============================================================================
