------------------------------ MODULE SequenceFacts ------------------------------
(****************************************************************************)
(* Lemmas that the proofs about several components share: what the          *)
(* operators that take an element off a list or link one return, the least  *)
(* element of a set of numbers, and quotients.                              *)
(****************************************************************************)
EXTENDS Integers, SequencesExt, SequenceTheorems, WellFoundedInduction, TLAPS

\* Deleting position k of a sequence moves its later elements down by one.
LEMMA RemoveAtElements ==
    ASSUME NEW S, NEW s \in Seq(S), NEW k \in 1 .. Len(s)
    PROVE  /\ RemoveAt(s, k) \in Seq(S)
           /\ Len(RemoveAt(s, k)) = Len(s) - 1
           /\ \A i \in 1 .. Len(s) - 1 :
                RemoveAt(s, k)[i] = IF i < k THEN s[i] ELSE s[i + 1]
<1> DEFINE a == SubSeq(s, 1, k - 1)
           b == SubSeq(s, k + 1, Len(s))
<1>0. /\ Len(s) \in Nat /\ k \in Nat /\ 1 <= k /\ k <= Len(s)
      /\ \A i \in 1 .. Len(s) : s[i] \in S
  BY LenProperties
<1>1. /\ a \in Seq(S) /\ Len(a) = k - 1
      /\ \A i \in 1 .. k - 1 : a[i] = s[i]
  BY <1>0, SubSeqProperties
<1>2. /\ b \in Seq(S) /\ Len(b) = Len(s) - k
      /\ \A i \in 1 .. Len(s) - k : b[i] = s[k + i]
  BY <1>0, SubSeqProperties
<1> HIDE DEF a, b
<1>3. /\ a \o b \in Seq(S)
      /\ Len(a \o b) = Len(a) + Len(b)
      /\ \A i \in 1 .. Len(a) + Len(b) :
           (a \o b)[i] = IF i <= Len(a) THEN a[i] ELSE b[i - Len(a)]
  BY <1>1, <1>2, ConcatProperties
<1>4. Len(a \o b) = Len(s) - 1
  BY <1>0, <1>1, <1>2, <1>3
<1>5. ASSUME NEW i \in 1 .. Len(s) - 1
      PROVE  (a \o b)[i] = IF i < k THEN s[i] ELSE s[i + 1]
  <2>1. CASE i < k
    BY <1>0, <1>1, <1>2, <1>3, <2>1
  <2>2. CASE ~(i < k)
    <3> DEFINE j == i - (k - 1)
    <3>1. j \in 1 .. Len(s) - k /\ k + j = i + 1 /\ (a \o b)[i] = b[j]
      BY <1>0, <1>1, <1>2, <1>3, <2>2
    <3>2. b[j] = s[k + j]
      BY <1>2, <3>1
    <3> QED BY <2>2, <3>1, <3>2
  <2> QED BY <2>1, <2>2
<1>6. RemoveAt(s, k) = a \o b
  BY DEF RemoveAt, a, b
<1> QED BY <1>3, <1>4, <1>5, <1>6

\* Deleting position k of a duplicate-free sequence takes one element off and
\* leaves no element twice.
LEMMA RemoveAtRange ==
    ASSUME NEW S, NEW s \in Seq(S), IsInjective(s), NEW k \in 1 .. Len(s)
    PROVE  /\ RemoveAt(s, k) \in Seq(S)
           /\ IsInjective(RemoveAt(s, k))
           /\ Range(RemoveAt(s, k)) = Range(s) \ {s[k]}
<1> DEFINE r == RemoveAt(s, k)
<1>2. /\ r \in Seq(S) /\ Len(r) = Len(s) - 1
      /\ \A i \in 1 .. Len(s) - 1 : r[i] = IF i < k THEN s[i] ELSE s[i + 1]
  BY RemoveAtElements
<1> HIDE DEF r
<1>3. DOMAIN r = 1 .. Len(s) - 1 /\ DOMAIN s = 1 .. Len(s) /\ Len(s) \in Nat
  BY <1>2, LenProperties
<1>4. \A i, j \in 1 .. Len(s) : s[i] = s[j] => i = j
  BY <1>3 DEF IsInjective
<1>5. IsInjective(r)
  BY <1>2, <1>3, <1>4 DEF IsInjective
<1>6. ASSUME NEW i \in 1 .. Len(s) - 1  PROVE r[i] \in Range(s) \ {s[k]}
  <2>1. i + 1 \in 1 .. Len(s) /\ i \in 1 .. Len(s)
    BY <1>3
  <2>2. (r[i] = s[i] /\ i # k) \/ (r[i] = s[i + 1] /\ i + 1 # k)
    BY <1>2, <1>3
  <2> QED BY <1>3, <1>4, <2>1, <2>2 DEF Range
<1>7. ASSUME NEW i \in 1 .. Len(s), s[i] # s[k]  PROVE s[i] \in Range(r)
  <2>1. CASE i < k
    BY <1>2, <1>3, <2>1 DEF Range
  <2>2. CASE i > k
    <3>1. i - 1 \in 1 .. Len(s) - 1 /\ r[i - 1] = s[i]
      BY <1>2, <1>3, <2>2
    <3> QED BY <3>1, <1>3 DEF Range
  <2> QED BY <1>3, <1>7, <2>1, <2>2
<1>8. Range(r) = Range(s) \ {s[k]}
  BY <1>3, <1>6, <1>7 DEF Range
<1> QED BY <1>2, <1>5, <1>8 DEF r

\* Linking a new node at the tail of a list.
LEMMA AppendRange ==
    ASSUME NEW S, NEW s \in Seq(S), IsInjective(s), NEW t \in S, t \notin Range(s)
    PROVE  /\ Append(s, t) \in Seq(S)
           /\ IsInjective(Append(s, t))
           /\ Range(Append(s, t)) = Range(s) \cup {t}
<1>1. /\ Append(s, t) \in Seq(S)
      /\ Len(Append(s, t)) = Len(s) + 1 /\ Len(s) \in Nat
      /\ \A i \in 1 .. Len(s) : Append(s, t)[i] = s[i]
      /\ Append(s, t)[Len(s) + 1] = t
  BY AppendProperties, LenProperties
<1>2. DOMAIN s = 1 .. Len(s) /\ DOMAIN Append(s, t) = 1 .. Len(s) + 1
  BY <1>1, LenProperties
<1>3. \A i \in 1 .. Len(s) : s[i] # t
  BY <1>2 DEF Range
<1>4. IsInjective(Append(s, t))
  BY <1>1, <1>2, <1>3 DEF IsInjective
<1>5. Range(Append(s, t)) = Range(s) \cup {t}
  BY <1>1, <1>2 DEF Range
<1> QED BY <1>1, <1>4, <1>5

\* Taking the first node off a list.
LEMMA TailRange ==
    ASSUME NEW S, NEW s \in Seq(S), IsInjective(s), s # <<>>
    PROVE  /\ Head(s) \in S /\ Head(s) \in Range(s)
           /\ Tail(s) \in Seq(S)
           /\ IsInjective(Tail(s))
           /\ Range(Tail(s)) = Range(s) \ {Head(s)}
<1>1. /\ Len(s) \in Nat \ {0} /\ DOMAIN s = 1 .. Len(s)
      /\ Tail(s) \in Seq(S) /\ Len(Tail(s)) = Len(s) - 1
      /\ \A i \in 1 .. Len(s) - 1 : Tail(s)[i] = s[i + 1]
      /\ Head(s) \in S
  BY LenProperties, EmptySeq, HeadTailProperties
<1>2. Head(s) = s[1]
  OBVIOUS
<1>3. DOMAIN Tail(s) = 1 .. Len(s) - 1
  BY <1>1, LenProperties
<1>4. \A i, j \in 1 .. Len(s) : s[i] = s[j] => i = j
  BY <1>1 DEF IsInjective
<1>5. IsInjective(Tail(s))
  BY <1>1, <1>3, <1>4 DEF IsInjective
<1>6. ASSUME NEW x  PROVE x \in Range(Tail(s)) <=> x \in Range(s) \ {Head(s)}
  <2>1. ASSUME NEW i \in 1 .. Len(s) - 1, x = Tail(s)[i]  PROVE x \in Range(s) \ {Head(s)}
    <3>1. i + 1 \in 1 .. Len(s) /\ i + 1 # 1 /\ 1 \in 1 .. Len(s) /\ x = s[i + 1]
      BY <1>1, <2>1
    <3> QED BY <1>1, <1>2, <1>4, <3>1 DEF Range
  <2>2. ASSUME NEW i \in 1 .. Len(s), x = s[i], x # Head(s)  PROVE x \in Range(Tail(s))
    <3>1. i - 1 \in 1 .. Len(s) - 1 /\ (i - 1) + 1 = i
      BY <1>1, <1>2, <2>2
    <3>2. Tail(s)[i - 1] = x
      BY <1>1, <2>2, <3>1
    <3> QED BY <1>3, <3>1, <3>2 DEF Range
  <2> QED BY <1>1, <1>3, <2>1, <2>2 DEF Range
<1> QED BY <1>1, <1>2, <1>5, <1>6 DEF Range

\* Linking a new node at the head of a list.
LEMMA ConsRange ==
    ASSUME NEW S, NEW s \in Seq(S), IsInjective(s), NEW t \in S, t \notin Range(s)
    PROVE  /\ <<t>> \o s \in Seq(S)
           /\ IsInjective(<<t>> \o s)
           /\ Range(<<t>> \o s) = Range(s) \cup {t}
<1> DEFINE h == <<t>>
           c == h \o s
<1>1. h \in Seq(S) /\ Len(h) = 1 /\ h[1] = t
  OBVIOUS
<1> HIDE DEF h
<1>2. /\ c \in Seq(S) /\ Len(c) = 1 + Len(s) /\ Len(s) \in Nat
      /\ \A i \in 1 .. 1 + Len(s) : c[i] = IF i <= 1 THEN h[i] ELSE s[i - 1]
  <2>1. /\ c \in Seq(S) /\ Len(c) = Len(h) + Len(s)
        /\ \A i \in 1 .. Len(h) + Len(s) : c[i] = IF i <= Len(h) THEN h[i] ELSE s[i - Len(h)]
    BY <1>1, ConcatProperties
  <2>2. Len(s) \in Nat
    BY LenProperties
  <2> QED BY <1>1, <2>1, <2>2
<1> HIDE DEF c
<1>3. DOMAIN s = 1 .. Len(s) /\ DOMAIN c = 1 .. 1 + Len(s)
  BY <1>2, LenProperties
<1>4. c[1] = t /\ \A i \in 2 .. 1 + Len(s) : i - 1 \in 1 .. Len(s) /\ c[i] = s[i - 1]
  BY <1>1, <1>2
<1>5. \A i \in 1 .. Len(s) : s[i] # t
  BY <1>3 DEF Range
<1>6. \A i, j \in 1 .. Len(s) : s[i] = s[j] => i = j
  BY <1>3 DEF IsInjective
<1>7. ASSUME NEW i \in 1 .. 1 + Len(s), NEW j \in 1 .. 1 + Len(s), c[i] = c[j]
      PROVE  i = j
  <2>1. \A k \in 2 .. 1 + Len(s) : c[k] # c[1]
    BY <1>4, <1>5
  <2>2. CASE i = 1 \/ j = 1
    <3>1. (i = 1 \/ i \in 2 .. 1 + Len(s)) /\ (j = 1 \/ j \in 2 .. 1 + Len(s))
      BY <1>2
    <3> QED BY <1>7, <2>1, <2>2, <3>1
  <2>3. CASE i # 1 /\ j # 1
    <3>1. i \in 2 .. 1 + Len(s) /\ j \in 2 .. 1 + Len(s)
      BY <1>2, <2>3
    <3>2. i - 1 = j - 1
      BY <1>4, <1>6, <1>7, <3>1
    <3> QED BY <1>2, <3>2
  <2> QED BY <2>2, <2>3
<1>8. IsInjective(c)
  BY <1>3, <1>7 DEF IsInjective
<1>9. Range(h) = {t}
  BY <1>1, LenProperties DEF Range
<1>10. Range(c) = Range(s) \cup {t}
  BY <1>1, <1>9, RangeConcatenation DEF c
<1> QED BY <1>2, <1>8, <1>10 DEF c, h

\* A nonempty set of naturals has a least element.
LEMMA LeastNat ==
    ASSUME NEW T \in SUBSET Nat, T # {}
    PROVE  \E x \in T : \A y \in T : x <= y
<1> DEFINE R == OpToRel(<, Nat)
<1>1. IsWellFoundedOn(R, Nat)
  BY NatLessThanWellFounded
<1>2. \A x, y \in Nat : <<y, x>> \in R <=> y < x
  BY DEF OpToRel
<1> HIDE DEF R
<1>3. PICK x \in T : \A y \in T : ~(<<y, x>> \in R)
  BY <1>1, WFMin
<1>4. ASSUME NEW y \in T PROVE x <= y
  <2>1. x \in Nat /\ y \in Nat
    OBVIOUS
  <2>2. ~(y < x)
    BY <1>2, <1>3, <2>1
  <2> QED BY <2>1, <2>2
<1> QED BY <1>4

\* A number as its quotient and the rest.
LEMMA DivMod ==
    ASSUME NEW a \in Nat, NEW b \in Nat \ {0}
    PROVE  /\ a \div b \in Nat /\ a % b \in 0 .. b - 1 /\ a = (a \div b) * b + (a % b)
           /\ \E q, r \in Nat : q = a \div b /\ r = a % b /\ a = q * b + r /\ r < b
<1>1. a \div b \in Nat /\ a % b \in 0 .. b - 1 /\ a = (a \div b) * b + (a % b)
  BY SMT
<1>2. a % b \in Nat /\ a % b < b
  BY <1>1
<1> QED BY <1>1, <1>2, Zenon

\* A quotient and a rest give back the number, and no others do.
LEMMA PlaceOf ==
    ASSUME NEW b \in Nat \ {0}, NEW q \in Nat, NEW r \in 0 .. b - 1
    PROVE  (q * b + r) \div b = q /\ (q * b + r) % b = r
<1>1. q * b + r \in Nat
  <2>1. q * b \in Nat
    BY SMT
  <2> QED BY <2>1
<1>2. PICK x \in Nat : x = q * b + r
  BY <1>1
<1>3. PICK k, s \in Nat : k = x \div b /\ s = x % b /\ x = k * b + s /\ s < b
  BY DivMod
<1>4. \A u, v \in Nat : u < v => u * b + b <= v * b
  BY SMT
<1>5. q * b \in Nat /\ k * b \in Nat
  BY SMT
<1>6. ~(q < k) /\ ~(k < q)
  BY <1>2, <1>3, <1>4, <1>5
<1>7. q = k
  BY <1>6
<1>8. r = s
  BY <1>2, <1>3, <1>5, <1>7
<1> QED BY <1>2, <1>3, <1>7, <1>8
================================================================================
