------------------------------ MODULE SeqLemmas ------------------------------
EXTENDS Integers, Sequences, SequencesExt, WellFoundedInduction, SequenceTheorems, TLAPS

LessThan == {ss \in Nat \X Nat : ss[1] < ss[2]}

LEMMA LessThanWellFounded == IsWellFoundedOn(LessThan, Nat)
<1>1. LessThan = OpToRel(<, Nat)
    BY Zenon DEF LessThan, OpToRel
<1>. QED BY <1>1, NatLessThanWellFounded, Zenon

\* A non-empty set of natural numbers has a least element, which Min returns.
LEMMA MinProperties ==
    ASSUME NEW S \in SUBSET Nat, S # {}
    PROVE  Min(S) \in S /\ \A y \in S : Min(S) <= y
<1>1. PICK x \in S : \A y \in S : ~(<<y, x>> \in LessThan)
    BY Zenon, LessThanWellFounded, WFMin
<1>2. \A y \in S : x <= y
    <2>. SUFFICES ASSUME NEW y \in S PROVE x <= y
        OBVIOUS
    <2>1. <<y, x>> \in Nat \X Nat /\ <<y, x>>[1] = y /\ <<y, x>>[2] = x
        OBVIOUS
    <2>2. ~(y < x)
        BY <1>1, <2>1, Zenon DEF LessThan
    <2>. QED BY <2>2
<1>. QED BY Zenon, <1>2 DEF Min

\* IsInjective says of a sequence that no element is in it twice.
LEMMA InjectiveSeq ==
    ASSUME NEW S, NEW q \in Seq(S)
    PROVE  IsInjective(q) <=> \A i, j \in 1 .. Len(q) : q[i] = q[j] => i = j
BY DEF IsInjective

LEMMA RemoveFirstAbsent ==
    ASSUME NEW q, NEW e, ~Contains(q, e)
    PROVE  RemoveFirst(q, e) = q
BY DEF RemoveFirst, Contains

LEMMA RemoveFirstPresent ==
    ASSUME NEW S, NEW q \in Seq(S), NEW e, Contains(q, e)
    PROVE  /\ RemoveFirst(q, e) \in Seq(S)
           /\ Len(RemoveFirst(q, e)) = Len(q) - 1
           /\ \E k \in 1 .. Len(q) :
                 /\ q[k] = e
                 /\ \A i \in 1 .. Len(q) - 1 :
                       RemoveFirst(q, e)[i] = IF i < k THEN q[i] ELSE q[i + 1]
<1>. DEFINE I == {i \in 1 .. Len(q) : q[i] = e}
            k == Min(I)
            l == SubSeq(q, 1, k - 1)
            r == SubSeq(q, k + 1, Len(q))
<1>1. I \in SUBSET Nat /\ I # {}
    BY DEF Contains
<1>2. k \in 1 .. Len(q) /\ q[k] = e
    <2>. HIDE DEF I
    <2>1. k \in I BY <1>1, MinProperties
    <2>. QED BY <2>1 DEF I
<1>3. RemoveFirst(q, e) = l \o r
    BY Zenon, <1>1 DEF RemoveFirst, RemoveAt, SelectInSeq, Contains
<1>. HIDE DEF k
<1>4. /\ l \in Seq(S) /\ Len(l) = k - 1
      /\ \A i \in 1 .. k - 1 : l[i] = q[i]
    BY <1>2, SubSeqProperties
<1>5. /\ r \in Seq(S) /\ Len(r) = Len(q) - k
      /\ \A i \in 1 .. Len(q) - k : r[i] = q[k + i]
    BY <1>2, SubSeqProperties
<1>. HIDE DEF l, r
<1>6. /\ l \o r \in Seq(S) /\ Len(l \o r) = Len(q) - 1
      /\ \A i \in 1 .. Len(q) - 1 : (l \o r)[i] = IF i < k THEN q[i] ELSE q[i + 1]
    <2>1. /\ l \o r \in Seq(S) /\ Len(l \o r) = Len(l) + Len(r)
          /\ \A i \in 1 .. Len(l) + Len(r) :
                (l \o r)[i] = IF i <= Len(l) THEN l[i] ELSE r[i - Len(l)]
        BY Zenon, <1>4, <1>5, ConcatProperties
    <2>. HIDE DEF I
    <2>2. ASSUME NEW i \in 1 .. Len(q) - 1
          PROVE  (l \o r)[i] = IF i < k THEN q[i] ELSE q[i + 1]
        <3>1. CASE i < k
            BY <1>2, <1>4, <1>5, <2>1, <3>1
        <3>2. CASE ~(i < k)
            <4>0. /\ i \in 1 .. Len(l) + Len(r) /\ ~(i <= Len(l))
                  /\ i - Len(l) = i - (k - 1)
                BY <1>2, <1>4, <1>5, <3>2
            <4>1. (l \o r)[i] = r[i - (k - 1)]
                BY Zenon, <2>1, <4>0
            <4>2. i - (k - 1) \in 1 .. Len(q) - k /\ k + (i - (k - 1)) = i + 1
                BY <1>2, <3>2
            <4>3. r[i - (k - 1)] = q[i + 1]
                BY Zenon, <1>5, <4>2
            <4>. QED BY Zenon, <3>2, <4>1, <4>3
        <3>. QED BY Zenon, <3>1, <3>2
    <2>. QED BY <1>2, <1>4, <1>5, <2>1, <2>2
<1>. QED BY Zenon, <1>2, <1>3, <1>6

\* Taking an element out of a sequence without duplicates.
LEMMA RemoveFirstInjective ==
    ASSUME NEW S, NEW q \in Seq(S), NEW e, IsInjective(q)
    PROVE  /\ RemoveFirst(q, e) \in Seq(S)
           /\ IsInjective(RemoveFirst(q, e))
           /\ \A u : Contains(RemoveFirst(q, e), u) <=> Contains(q, u) /\ u # e
<1>1. CASE ~Contains(q, e)
    BY <1>1, RemoveFirstAbsent DEF Contains
<1>2. CASE Contains(q, e)
    <2>. DEFINE r == RemoveFirst(q, e)
    <2>1. /\ r \in Seq(S) /\ Len(r) = Len(q) - 1 /\ Len(q) \in Nat
        BY <1>2, RemoveFirstPresent
    <2>2. PICK k \in 1 .. Len(q) :
             /\ q[k] = e
             /\ \A i \in 1 .. Len(q) - 1 : r[i] = IF i < k THEN q[i] ELSE q[i + 1]
        BY <1>2, RemoveFirstPresent
    <2>. HIDE DEF r
    <2>3. IsInjective(r)
        <3>. DEFINE at(i) == IF i < k THEN i ELSE i + 1
        <3>1. ASSUME NEW i \in 1 .. Len(r)
              PROVE  at(i) \in 1 .. Len(q) /\ r[i] = q[at(i)]
            BY <2>1, <2>2
        <3>2. ASSUME NEW i \in 1 .. Len(r), NEW j \in 1 .. Len(r), at(i) = at(j)
              PROVE  i = j
            BY <2>1, <3>2
        <3>. HIDE DEF at
        <3>3. \A i, j \in 1 .. Len(q) : q[i] = q[j] => i = j
            BY InjectiveSeq
        <3>4. \A i, j \in 1 .. Len(r) : r[i] = r[j] => i = j
            BY <3>1, <3>2, <3>3
        <3>. QED BY <2>1, <3>4, InjectiveSeq
    <2>4. ASSUME NEW u, Contains(r, u) PROVE Contains(q, u) /\ u # e
        <3>1. PICK i \in 1 .. Len(r) : r[i] = u
            BY <2>4 DEF Contains
        <3>2. PICK j \in 1 .. Len(q) : j # k /\ q[j] = u
            <4>0. i \in 1 .. Len(q) - 1
                BY <2>1
            <4>1. CASE i < k
                <5>1. i \in 1 .. Len(q) /\ i # k
                    BY <2>1, <4>1
                <5>2. q[i] = u
                    BY Zenon, <2>2, <3>1, <4>0, <4>1
                <5>. QED BY Zenon, <5>1, <5>2
            <4>2. CASE ~(i < k)
                <5>1. i + 1 \in 1 .. Len(q) /\ i + 1 # k
                    BY <2>1, <4>2
                <5>2. q[i + 1] = u
                    BY Zenon, <2>2, <3>1, <4>0, <4>2
                <5>. QED BY Zenon, <5>1, <5>2
            <4>. QED BY <4>1, <4>2
        <3>3. q[j] # q[k]
            BY Zenon, <3>2, InjectiveSeq
        <3>. QED BY Zenon, <2>2, <3>2, <3>3 DEF Contains
    <2>5. ASSUME NEW u, Contains(q, u), u # e PROVE Contains(r, u)
        <3>1. PICK i \in 1 .. Len(q) : q[i] = u
            BY <2>5 DEF Contains
        <3>2. CASE i < k
            BY <2>1, <2>2, <3>1, <3>2 DEF Contains
        <3>3. CASE ~(i < k)
            <4>1. i - 1 \in 1 .. Len(q) - 1 /\ ~(i - 1 < k)
                BY <2>1, <2>2, <2>5, <3>1, <3>3
            <4>2. r[i - 1] = q[i]
                BY <2>2, <4>1
            <4>. QED BY <2>1, <3>1, <4>1, <4>2 DEF Contains
        <3>. QED BY <3>2, <3>3
    <2>. QED BY <2>1, <2>3, <2>4, <2>5 DEF r
<1>. QED BY <1>1, <1>2

LEMMA AppendInjectiveSeq ==
    ASSUME NEW S, NEW q \in Seq(S), NEW e \in S, IsInjective(q), ~Contains(q, e)
    PROVE  /\ Append(q, e) \in Seq(S)
           /\ IsInjective(Append(q, e))
           /\ \A u : Contains(Append(q, e), u) <=> Contains(q, u) \/ u = e
<1>1. /\ Append(q, e) \in Seq(S) /\ Len(Append(q, e)) = Len(q) + 1 /\ Len(q) \in Nat
      /\ \A i \in 1 .. Len(q) : Append(q, e)[i] = q[i]
      /\ Append(q, e)[Len(q) + 1] = e
    BY AppendProperties
<1>2. IsInjective(Append(q, e))
    <2>. DEFINE r == Append(q, e)
    <2>1. \A i, j \in 1 .. Len(q) : q[i] = q[j] => i = j
        BY InjectiveSeq
    <2>2. \A i, j \in 1 .. Len(q) + 1 : r[i] = r[j] => i = j
        BY <1>1, <2>1 DEF Contains
    <2>. QED BY Zenon, <1>1, <2>2, InjectiveSeq
<1>3. ASSUME NEW u PROVE Contains(Append(q, e), u) <=> Contains(q, u) \/ u = e
    BY <1>1 DEF Contains
<1>. QED BY <1>1, <1>2, <1>3

\* The elements of a sequence and its emptiness.
LEMMA EmptyContains ==
    ASSUME NEW S, NEW q \in Seq(S)
    PROVE  /\ q = <<>> <=> \A u \in S : ~Contains(q, u)
           /\ q # <<>> => Head(q) \in S /\ Contains(q, Head(q))
           /\ \A u : Contains(q, u) => u \in S
<1>1. CASE q = <<>>
    BY <1>1 DEF Contains
<1>2. CASE q # <<>>
    <2>1. Len(q) \in Nat \ {0} /\ Head(q) = q[1] /\ q[1] \in S
        BY <1>2, EmptySeq
    <2>. QED BY <1>2, <2>1 DEF Contains
<1>. QED BY <1>1, <1>2

\* Putting an element in at a place.
LEMMA InsertAtProperties ==
    ASSUME NEW S, NEW q \in Seq(S), NEW e \in S, NEW k \in 1 .. Len(q) + 1
    PROVE  /\ InsertAt(q, k, e) \in Seq(S)
           /\ Len(InsertAt(q, k, e)) = Len(q) + 1
           /\ \A i \in 1 .. Len(q) + 1 :
                 InsertAt(q, k, e)[i] = IF i < k THEN q[i] ELSE IF i = k THEN e ELSE q[i - 1]
<1>. DEFINE l == SubSeq(q, 1, k - 1)
            m == l \o <<e>>
            r == SubSeq(q, k, Len(q))
<1>0. Len(q) \in Nat
    OBVIOUS
<1>1. /\ l \in Seq(S) /\ Len(l) = k - 1
      /\ \A i \in 1 .. k - 1 : l[i] = q[i]
    BY <1>0, SubSeqProperties
<1>2. /\ r \in Seq(S) /\ Len(r) = Len(q) + 1 - k
      /\ \A i \in 1 .. Len(q) + 1 - k : r[i] = q[k + i - 1]
    BY <1>0, SubSeqProperties
<1>. HIDE DEF l
<1>3. /\ m \in Seq(S) /\ Len(m) = k /\ m[k] = e
      /\ \A i \in 1 .. k - 1 : m[i] = q[i]
    <2>1. <<e>> \in Seq(S) /\ Len(<<e>>) = 1 /\ <<e>>[1] = e
        OBVIOUS
    <2>2. /\ m \in Seq(S) /\ Len(m) = Len(l) + 1
          /\ \A i \in 1 .. Len(l) + 1 : m[i] = IF i <= Len(l) THEN l[i] ELSE <<e>>[i - Len(l)]
        BY <1>1, <2>1, ConcatProperties
    <2>. HIDE DEF m
    <2>3. m[k] = e
        <3>1. k \in 1 .. Len(l) + 1 /\ ~(k <= Len(l)) /\ k - Len(l) = 1
            BY <1>0, <1>1
        <3>. QED BY <2>1, <2>2, <3>1
    <2>4. ASSUME NEW i \in 1 .. k - 1 PROVE m[i] = q[i]
        <3>1. i \in 1 .. Len(l) + 1 /\ i <= Len(l)
            BY <1>0, <1>1
        <3>. QED BY <1>1, <2>2, <3>1
    <2>. QED BY <1>0, <1>1, <2>2, <2>3, <2>4
<1>. HIDE DEF m, r
<1>4. /\ m \o r \in Seq(S) /\ Len(m \o r) = Len(m) + Len(r)
      /\ \A i \in 1 .. Len(m) + Len(r) :
            (m \o r)[i] = IF i <= Len(m) THEN m[i] ELSE r[i - Len(m)]
    BY Zenon, <1>2, <1>3, ConcatProperties
<1>5. ASSUME NEW i \in 1 .. Len(q) + 1
      PROVE  (m \o r)[i] = IF i < k THEN q[i] ELSE IF i = k THEN e ELSE q[i - 1]
    <2>1. CASE i <= k
        BY <1>0, <1>2, <1>3, <1>4, <2>1
    <2>2. CASE ~(i <= k)
        <3>0. i \in 1 .. Len(m) + Len(r) /\ ~(i <= Len(m)) /\ Len(m) = k
            BY <1>0, <1>2, <1>3, <2>2
        <3>1. (m \o r)[i] = r[i - k]
            BY Zenon, <1>4, <3>0
        <3>2. i - k \in 1 .. Len(q) + 1 - k /\ k + (i - k) - 1 = i - 1
            BY <1>0, <2>2
        <3>3. r[i - k] = q[i - 1]
            BY Zenon, <1>2, <3>2
        <3>4. ~(i < k) /\ i # k
            BY <1>0, <2>2
        <3>. QED BY Zenon, <3>1, <3>3, <3>4
    <2>. QED BY Zenon, <2>1, <2>2
<1>6. InsertAt(q, k, e) = m \o r
    BY DEF InsertAt, m, l, r
<1>. QED BY <1>0, <1>2, <1>3, <1>4, <1>5, <1>6

\* Putting a new element into a sequence without duplicates.
LEMMA InsertAtInjective ==
    ASSUME NEW S, NEW q \in Seq(S), NEW e \in S, NEW k \in 1 .. Len(q) + 1,
           IsInjective(q), ~Contains(q, e)
    PROVE  /\ IsInjective(InsertAt(q, k, e))
           /\ \A u : Contains(InsertAt(q, k, e), u) <=> Contains(q, u) \/ u = e
<1>. DEFINE r == InsertAt(q, k, e)
<1>1. /\ r \in Seq(S) /\ Len(r) = Len(q) + 1 /\ Len(q) \in Nat
      /\ \A i \in 1 .. Len(q) + 1 : r[i] = IF i < k THEN q[i] ELSE IF i = k THEN e ELSE q[i - 1]
    BY InsertAtProperties
<1>. HIDE DEF r
<1>2. \A i, j \in 1 .. Len(q) : q[i] = q[j] => i = j
    BY InjectiveSeq
<1>3. \A i \in 1 .. Len(q) : q[i] # e
    BY DEF Contains
<1>4. ASSUME NEW i \in 1 .. Len(q) + 1, NEW j \in 1 .. Len(q) + 1, r[i] = r[j] PROVE i = j
    <2>. DEFINE at(n) == IF n < k THEN n ELSE n - 1
    <2>1. ASSUME NEW n \in 1 .. Len(q) + 1, n # k
          PROVE  at(n) \in 1 .. Len(q) /\ r[n] = q[at(n)]
        BY <1>1, <2>1
    <2>2. r[k] = e
        BY <1>1
    <2>3. CASE i = k \/ j = k
        BY <1>3, <1>4, <2>1, <2>2, <2>3
    <2>4. CASE i # k /\ j # k
        <3>1. at(i) = at(j)
            BY <1>2, <1>4, <2>1, <2>4
        <3>. QED BY <2>4, <3>1
    <2>. QED BY <2>3, <2>4
<1>5. IsInjective(r)
    BY <1>1, <1>4, InjectiveSeq
<1>6. ASSUME NEW u, Contains(r, u) PROVE Contains(q, u) \/ u = e
    <2>1. PICK i \in 1 .. Len(q) + 1 : r[i] = u
        BY <1>1, <1>6 DEF Contains
    <2>2. CASE i < k
        BY <1>1, <2>1, <2>2 DEF Contains
    <2>3. CASE i = k
        BY <1>1, <2>1, <2>3
    <2>4. CASE i > k
        <3>1. i - 1 \in 1 .. Len(q) /\ ~(i < k) /\ i # k
            BY <1>1, <2>4
        <3>2. q[i - 1] = u
            BY <1>1, <2>1, <3>1
        <3>. QED BY <3>1, <3>2 DEF Contains
    <2>. QED BY <1>1, <2>2, <2>3, <2>4
<1>7. ASSUME NEW u, Contains(q, u) PROVE Contains(r, u)
    <2>1. PICK i \in 1 .. Len(q) : q[i] = u
        BY <1>7 DEF Contains
    <2>2. CASE i < k
        BY <1>1, <2>1, <2>2 DEF Contains
    <2>3. CASE ~(i < k)
        <3>1. i + 1 \in 1 .. Len(q) + 1 /\ ~(i + 1 < k) /\ i + 1 # k /\ (i + 1) - 1 = i
            BY <1>1, <2>3
        <3>2. r[i + 1] = q[i]
            BY <1>1, <3>1
        <3>. QED BY <1>1, <2>1, <3>1, <3>2 DEF Contains
    <2>. QED BY <2>2, <2>3
<1>8. Contains(r, e)
    BY <1>1 DEF Contains
<1>. QED BY <1>5, <1>6, <1>7, <1>8 DEF r

=============================================================================
