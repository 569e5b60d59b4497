--------------------------- MODULE SequenceLemmas ---------------------------
(***************************************************************************)
(* What RemoveAt, InsertAt, Append and Tail do to a sequence, to the set   *)
(* of its elements and to how often one occurs, for the proofs about the   *)
(* lists of the windows and about queues.                                  *)
(***************************************************************************)
EXTENDS Integers, Sequences, FiniteSets, SequencesExt, SequenceTheorems,
        FiniteSetTheorems, FunctionTheorems, TLAPS

\* erase(begin() + i - 1): one element is gone, those behind it move up.
LEMMA RemoveAtLemma ==
  ASSUME NEW S, NEW s \in Seq(S), NEW i \in 1..Len(s)
  PROVE  /\ RemoveAt(s, i) \in Seq(S)
         /\ Len(RemoveAt(s, i)) = Len(s) - 1
         /\ \A j \in 1..(Len(s) - 1) :
              RemoveAt(s, i)[j] = IF j < i THEN s[j] ELSE s[j + 1]
<1> DEFINE a == SubSeq(s, 1, i - 1)
           b == SubSeq(s, i + 1, Len(s))
<1>1. /\ a \in Seq(S) /\ Len(a) = i - 1
      /\ \A j \in 1..(i - 1) : a[j] = s[j]
  BY SubSeqProperties
<1>2. /\ b \in Seq(S) /\ Len(b) = Len(s) - i
      /\ \A j \in 1..(Len(s) - i) : b[j] = s[i + j]
  BY SubSeqProperties
<1>3. /\ a \o b \in Seq(S) /\ Len(a \o b) = Len(s) - 1
      /\ \A j \in 1..(Len(s) - 1) :
           (a \o b)[j] = IF j <= i - 1 THEN a[j] ELSE b[j - (i - 1)]
  <2> HIDE DEF a, b
  <2>1. /\ a \o b \in Seq(S) /\ Len(a \o b) = Len(a) + Len(b)
        /\ \A j \in 1..(Len(a) + Len(b)) :
             (a \o b)[j] = IF j <= Len(a) THEN a[j] ELSE b[j - Len(a)]
    BY <1>1, <1>2, ConcatProperties
  <2>2. Len(a) + Len(b) = Len(s) - 1  BY <1>1, <1>2
  <2> QED BY <2>1, <2>2, <1>1
<1>4. ASSUME NEW j \in 1..(Len(s) - 1)
      PROVE  (a \o b)[j] = IF j < i THEN s[j] ELSE s[j + 1]
  <2> HIDE DEF a, b
  <2>1. CASE j < i  BY <2>1, <1>1, <1>3
  <2>2. CASE ~(j < i)
    <3>1. j - (i - 1) \in 1..(Len(s) - i) /\ ~(j <= i - 1)  BY <2>2
    <3>2. b[j - (i - 1)] = s[j + 1]
      <4>1. i + (j - (i - 1)) = j + 1  OBVIOUS
      <4> QED BY <3>1, <1>2, <4>1
    <3> QED BY <1>3, <3>1, <3>2, <2>2
  <2> QED BY <2>1, <2>2
<1> QED BY <1>3, <1>4 DEF RemoveAt

\* insert before the element at i: it and those behind it move down.
LEMMA InsertAtLemma ==
  ASSUME NEW S, NEW s \in Seq(S), NEW i \in 1..(Len(s) + 1), NEW e \in S
  PROVE  /\ InsertAt(s, i, e) \in Seq(S)
         /\ Len(InsertAt(s, i, e)) = Len(s) + 1
         /\ \A j \in 1..(Len(s) + 1) :
              InsertAt(s, i, e)[j] = IF j < i THEN s[j]
                                     ELSE IF j = i THEN e ELSE s[j - 1]
<1> DEFINE a == SubSeq(s, 1, i - 1)
           b == SubSeq(s, i, Len(s))
           c == a \o <<e>>
<1>1. /\ a \in Seq(S) /\ Len(a) = i - 1
      /\ \A j \in 1..(i - 1) : a[j] = s[j]
  BY SubSeqProperties
<1>2. /\ b \in Seq(S) /\ Len(b) = Len(s) - i + 1
      /\ \A j \in 1..(Len(s) - i + 1) : b[j] = s[i + j - 1]
  BY SubSeqProperties
<1>3. /\ c \in Seq(S) /\ Len(c) = i
      /\ \A j \in 1..i : c[j] = IF j < i THEN s[j] ELSE e
  <2> HIDE DEF a
  <2>1. <<e>> \in Seq(S) /\ Len(<<e>>) = 1 /\ <<e>>[1] = e  OBVIOUS
  <2>2. /\ a \o <<e>> \in Seq(S) /\ Len(a \o <<e>>) = i
        /\ \A j \in 1..i : (a \o <<e>>)[j] =
             IF j <= i - 1 THEN a[j] ELSE <<e>>[j - (i - 1)]
    BY <1>1, <2>1, ConcatProperties
  <2> QED BY <2>1, <2>2, <1>1
<1>4. /\ c \o b \in Seq(S) /\ Len(c \o b) = Len(s) + 1
      /\ \A j \in 1..(Len(s) + 1) :
           (c \o b)[j] = IF j <= i THEN c[j] ELSE b[j - i]
  <2> HIDE DEF b, c
  <2> QED BY <1>2, <1>3, ConcatProperties
<1>5. ASSUME NEW j \in 1..(Len(s) + 1)
      PROVE  (c \o b)[j] = IF j < i THEN s[j] ELSE IF j = i THEN e ELSE s[j - 1]
  <2> HIDE DEF b, c
  <2>1. CASE j <= i  BY <2>1, <1>3, <1>4
  <2>2. CASE ~(j <= i)
    <3>1. j - i \in 1..(Len(s) - i + 1)  BY <2>2
    <3>2. b[j - i] = s[j - 1]
      <4>1. i + (j - i) - 1 = j - 1  OBVIOUS
      <4> QED BY <3>1, <1>2, <4>1
    <3> QED BY <1>4, <3>2, <2>2
  <2> QED BY <2>1, <2>2
<1> QED BY <1>4, <1>5 DEF InsertAt

\* The elements of a sequence, and whether they differ, are those of another
\* one whose positions it permutes.
LEMMA RemoveAtElements ==
  ASSUME NEW S, NEW s \in Seq(S), NEW i \in 1..Len(s), IsInjective(s)
  PROVE  /\ IsInjective(RemoveAt(s, i))
         /\ ToSet(RemoveAt(s, i)) = ToSet(s) \ {s[i]}
<1> DEFINE r == RemoveAt(s, i)
<1>1. /\ r \in Seq(S) /\ Len(r) = Len(s) - 1
      /\ \A j \in 1..(Len(s) - 1) : r[j] = IF j < i THEN s[j] ELSE s[j + 1]
  BY RemoveAtLemma
<1>2. /\ DOMAIN r = 1..(Len(s) - 1) /\ DOMAIN s = 1..Len(s) /\ Len(s) \in Nat
  <2> HIDE DEF r
  <2> QED BY <1>1
<1>3. \A j, k \in 1..Len(s) : s[j] = s[k] => j = k
  BY <1>2 DEF IsInjective
<1> HIDE DEF r
<1>4. \A j, k \in 1..(Len(s) - 1) : r[j] = r[k] => j = k
  <2> TAKE j, k \in 1..(Len(s) - 1)
  <2> HAVE r[j] = r[k]
  <2>1. j \in 1..Len(s) /\ j + 1 \in 1..Len(s)  BY <1>2
  <2>2. k \in 1..Len(s) /\ k + 1 \in 1..Len(s)  BY <1>2
  <2>3. CASE j < i /\ k < i  BY <2>3, <1>1, <1>3, <2>1, <2>2
  <2>4. CASE j < i /\ ~(k < i)
    <3>1. s[j] = s[k + 1]  BY <2>4, <1>1
    <3>2. j = k + 1  BY <3>1, <1>3, <2>1, <2>2
    <3> QED BY <3>2, <2>4
  <2>5. CASE ~(j < i) /\ k < i
    <3>1. s[j + 1] = s[k]  BY <2>5, <1>1
    <3>2. j + 1 = k  BY <3>1, <1>3, <2>1, <2>2
    <3> QED BY <3>2, <2>5
  <2>6. CASE ~(j < i) /\ ~(k < i)
    <3>1. s[j + 1] = s[k + 1]  BY <2>6, <1>1
    <3>2. j + 1 = k + 1  BY <3>1, <1>3, <2>1, <2>2
    <3> QED BY <3>2
  <2> QED BY <2>3, <2>4, <2>5, <2>6
<1>5. ASSUME NEW j \in 1..(Len(s) - 1)
      PROVE  \E k \in 1..Len(s) : k # i /\ r[j] = s[k]
  <2>1. CASE j < i  BY <2>1, <1>1, <1>2
  <2>2. CASE ~(j < i)
    <3>1. j + 1 \in 1..Len(s) /\ j + 1 # i  BY <2>2, <1>2
    <3> QED BY <2>2, <3>1, <1>1
  <2> QED BY <2>1, <2>2
<1>6. ASSUME NEW k \in 1..Len(s), k # i
      PROVE  \E j \in 1..(Len(s) - 1) : r[j] = s[k]
  <2>1. CASE k < i
    <3>1. k \in 1..(Len(s) - 1)  BY <2>1, <1>2
    <3> QED BY <2>1, <3>1, <1>1
  <2>2. CASE k > i
    <3>1. k - 1 \in 1..(Len(s) - 1) /\ ~(k - 1 < i) /\ (k - 1) + 1 = k
      BY <2>2, <1>2
    <3> QED BY <3>1, <1>1
  <2> QED BY <1>6, <2>1, <2>2
<1>7. ToSet(r) = ToSet(s) \ {s[i]}
  <2>1. ToSet(r) \subseteq ToSet(s) \ {s[i]}  BY <1>2, <1>3, <1>5 DEF ToSet
  <2>2. ToSet(s) \ {s[i]} \subseteq ToSet(r)  BY <1>2, <1>6 DEF ToSet
  <2> QED BY <2>1, <2>2
<1> QED BY <1>2, <1>4, <1>7 DEF IsInjective, r

\* push_back of a new element.
LEMMA AppendElements ==
  ASSUME NEW S, NEW s \in Seq(S), NEW e \in S, IsInjective(s), e \notin ToSet(s)
  PROVE  /\ IsInjective(Append(s, e))
         /\ ToSet(Append(s, e)) = ToSet(s) \union {e}
<1> DEFINE r == Append(s, e)
<1>1. /\ DOMAIN r = 1..(Len(s) + 1) /\ DOMAIN s = 1..Len(s) /\ Len(s) \in Nat
      /\ \A j \in 1..Len(s) : r[j] = s[j]
      /\ r[Len(s) + 1] = e
  BY AppendProperties
<1>2. /\ \A j, k \in 1..Len(s) : s[j] = s[k] => j = k
      /\ \A j \in 1..Len(s) : s[j] # e
  BY <1>1 DEF IsInjective, ToSet
<1> HIDE DEF r
<1>3. \A j \in 1..(Len(s) + 1) : j \in 1..Len(s) \/ j = Len(s) + 1  BY <1>1
<1>4. \A j, k \in 1..(Len(s) + 1) : r[j] = r[k] => j = k  BY <1>1, <1>2, <1>3
<1>5. 1..Len(s) \subseteq 1..(Len(s) + 1) /\ Len(s) + 1 \in 1..(Len(s) + 1)
  BY <1>1
<1>6. ToSet(r) = ToSet(s) \union {e}  BY <1>1, <1>3, <1>5 DEF ToSet
<1> QED BY <1>1, <1>4, <1>6 DEF IsInjective, r

-----------------------------------------------------------------------------
(***************************************************************************)
(* Queues.                                                                 *)
(***************************************************************************)
LEMMA AppendFacts ==
  ASSUME NEW S, NEW q \in Seq(S), NEW e \in S
  PROVE  /\ Append(q, e) \in Seq(S) /\ Len(Append(q, e)) = Len(q) + 1 /\ Len(q) \in Nat
         /\ DOMAIN Append(q, e) = DOMAIN q \union {Len(q) + 1}
         /\ Len(q) + 1 \notin DOMAIN q
         /\ \A i \in DOMAIN q : Append(q, e)[i] = q[i] /\ i \in Nat /\ i < Len(q) + 1
         /\ Append(q, e)[Len(q) + 1] = e
         /\ ToSet(Append(q, e)) = ToSet(q) \union {e}
<1> DEFINE r == Append(q, e)
<1>1. /\ r \in Seq(S) /\ Len(r) = Len(q) + 1 /\ r[Len(q) + 1] = e
      /\ \A i \in 1..Len(q) : r[i] = q[i]
  BY AppendProperties
<1>2. DOMAIN r = 1..(Len(q) + 1) /\ DOMAIN q = 1..Len(q) /\ Len(q) \in Nat
  BY <1>1
<1>3. /\ DOMAIN r = DOMAIN q \union {Len(q) + 1} /\ Len(q) + 1 \notin DOMAIN q
      /\ \A i \in DOMAIN q : i \in Nat /\ i < Len(q) + 1 /\ r[i] = q[i]
  BY <1>1, <1>2
<1> HIDE DEF r
<1>4. ToSet(r) = ToSet(q) \union {e}  BY <1>1, <1>3 DEF ToSet
<1> QED BY <1>1, <1>2, <1>3, <1>4 DEF r

LEMMA TailFacts ==
  ASSUME NEW S, NEW q \in Seq(S), q # <<>>
  PROVE  /\ Tail(q) \in Seq(S) /\ Len(Tail(q)) = Len(q) - 1 /\ Len(q) \in Nat
         /\ Head(q) \in S /\ Head(q) = q[1] /\ 1 \in DOMAIN q
         /\ \A i \in DOMAIN Tail(q) : /\ i \in Nat /\ i >= 1 /\ i + 1 \in DOMAIN q
                                      /\ Tail(q)[i] = q[i + 1]
         /\ \A i \in DOMAIN q : i # 1 => i - 1 \in DOMAIN Tail(q) /\ q[i] = Tail(q)[i - 1]
         /\ ToSet(q) = ToSet(Tail(q)) \union {Head(q)}
<1> DEFINE u == Tail(q)
<1>1. /\ u \in Seq(S) /\ Len(u) = Len(q) - 1 /\ Len(q) \in Nat \ {0}
      /\ Head(q) = q[1] /\ q[1] \in S /\ \A i \in 1..Len(u) : u[i] = q[i + 1]
  OBVIOUS
<1>2. DOMAIN u = 1..Len(u) /\ DOMAIN q = 1..Len(q)  BY <1>1
<1>3. \A i \in DOMAIN u : i \in Nat /\ i >= 1 /\ i + 1 \in DOMAIN q /\ u[i] = q[i + 1]
  BY <1>1, <1>2
<1>4. 1 \in DOMAIN q  BY <1>1, <1>2
<1>5. ASSUME NEW i \in DOMAIN q, i # 1
      PROVE  i - 1 \in DOMAIN u /\ q[i] = u[i - 1]
  <2>1. i \in Nat /\ i - 1 \in 1..Len(u) /\ (i - 1) + 1 = i  BY <1>1, <1>2, <1>5
  <2> QED BY <2>1, <1>1, <1>2
<1> HIDE DEF u
<1>6. ToSet(q) = ToSet(u) \union {Head(q)}
  <2>1. ASSUME NEW i \in DOMAIN q PROVE q[i] \in ToSet(u) \union {Head(q)}
    <3>1. CASE i = 1  BY <3>1, <1>1
    <3>2. CASE i # 1  BY <3>2, <1>5 DEF ToSet
    <3> QED BY <3>1, <3>2
  <2>2. \A i \in DOMAIN u : u[i] \in ToSet(q)  BY <1>3 DEF ToSet
  <2>3. Head(q) \in ToSet(q)  BY <1>1, <1>4 DEF ToSet
  <2> QED BY <2>1, <2>2, <2>3 DEF ToSet
<1> QED BY <1>1, <1>3, <1>4, <1>5, <1>6 DEF u

\* How often x is in a queue.
Times(q, x) == Cardinality({i \in DOMAIN q : q[i] = x})

LEMMA TimesFacts ==
  ASSUME NEW S, NEW q \in Seq(S), NEW x
  PROVE  /\ Times(q, x) \in Nat
         /\ IsFiniteSet({i \in DOMAIN q : q[i] = x})
         /\ Times(q, x) = 0 <=> x \notin ToSet(q)
<1> DEFINE D == {i \in DOMAIN q : q[i] = x}
<1>1. DOMAIN q = 1..Len(q) /\ Len(q) \in Nat  OBVIOUS
<1>2. IsFiniteSet(1..Len(q))  BY <1>1, FS_Interval
<1>3. IsFiniteSet(D)  BY <1>1, <1>2, FS_Subset
<1>4. Cardinality(D) \in Nat /\ (Cardinality(D) = 0 <=> D = {})
  BY <1>3, FS_CardinalityType, FS_EmptySet
<1>5. D = {} <=> x \notin ToSet(q)  BY DEF ToSet
<1> QED BY <1>3, <1>4, <1>5 DEF Times

LEMMA TimesAppend ==
  ASSUME NEW S, NEW q \in Seq(S), NEW e \in S, NEW x
  PROVE  Times(Append(q, e), x) = Times(q, x) + (IF e = x THEN 1 ELSE 0)
<1> DEFINE D == {i \in DOMAIN q : q[i] = x}
           E == {i \in DOMAIN Append(q, e) : Append(q, e)[i] = x}
           n == Len(q) + 1
<1>1. E = D \union (IF e = x THEN {n} ELSE {})
  BY AppendFacts
<1>2. n \notin D  BY AppendFacts
<1>3. IsFiniteSet(D) /\ Times(q, x) = Cardinality(D) /\ Cardinality(D) \in Nat
  BY TimesFacts DEF Times
<1>4. Times(Append(q, e), x) = Cardinality(E)  BY DEF Times
<1> HIDE DEF D, E, n
<1>5. Cardinality(D \union {n}) = Cardinality(D) + 1  BY <1>2, <1>3, FS_AddElement
<1>6. CASE e = x  BY <1>1, <1>3, <1>4, <1>5, <1>6
<1>7. CASE e # x
  <2>1. E = D  BY <1>1, <1>7
  <2> QED BY <2>1, <1>3, <1>4, <1>7
<1> QED BY <1>6, <1>7

LEMMA TimesTail ==
  ASSUME NEW S, NEW q \in Seq(S), q # <<>>, NEW x
  PROVE  Times(q, x) = Times(Tail(q), x) + (IF Head(q) = x THEN 1 ELSE 0)
<1> DEFINE u == Tail(q)
           D == {i \in DOMAIN u : u[i] = x}
           E == {i \in DOMAIN q : q[i] = x} \ {1}
           f == [i \in D |-> i + 1]
<1>1. /\ u \in Seq(S) /\ Head(q) = q[1] /\ 1 \in DOMAIN q
      /\ \A i \in DOMAIN u : i \in Nat /\ i >= 1 /\ i + 1 \in DOMAIN q /\ u[i] = q[i + 1]
      /\ \A i \in DOMAIN q : i # 1 => i - 1 \in DOMAIN u /\ q[i] = u[i - 1]
  BY TailFacts
<1>2. IsFiniteSet(D) /\ Times(u, x) = Cardinality(D) /\ Cardinality(D) \in Nat
  <2>1. ASSUME NEW v \in Seq(S)
        PROVE  /\ IsFiniteSet({i \in DOMAIN v : v[i] = x})
               /\ Times(v, x) = Cardinality({i \in DOMAIN v : v[i] = x})
               /\ Times(v, x) \in Nat
    BY TimesFacts DEF Times
  <2> HIDE DEF u
  <2>2. u \in Seq(S)  BY <1>1
  <2> QED BY <2>1, <2>2
<1> HIDE DEF u
<1>3. f \in Bijection(D, E)
  <2>1. ASSUME NEW i \in D PROVE i + 1 \in E
    <3>1. i \in Nat /\ i >= 1 /\ i + 1 \in DOMAIN q /\ q[i + 1] = x  BY <1>1
    <3> QED BY <3>1
  <2>2. f \in [D -> E]  BY <2>1
  <2>3. \A i, j \in D : f[i] = f[j] => i = j  BY <1>1
  <2>4. ASSUME NEW k \in E PROVE \E i \in D : f[i] = k
    <3>1. k \in DOMAIN q /\ k # 1 /\ q[k] = x  OBVIOUS
    <3>2. k - 1 \in D  BY <3>1, <1>1
    <3>3. k \in Int
      <4>1. DOMAIN q = 1..Len(q)  OBVIOUS
      <4> QED BY <3>1, <4>1
    <3>4. f[k - 1] = k  BY <3>2, <3>3
    <3> QED BY <3>2, <3>4
  <2> HIDE DEF f, D, E
  <2> QED BY <2>2, <2>3, <2>4, Fun_IsBij
<1>4. IsFiniteSet(E) /\ Cardinality(E) = Cardinality(D)
  <2>1. ExistsBijection(D, E)  BY <1>3 DEF ExistsBijection
  <2> HIDE DEF D, E, f
  <2> QED BY <1>2, <2>1, FS_Bijection
<1>5. {i \in DOMAIN q : q[i] = x} = E \union (IF Head(q) = x THEN {1} ELSE {})
  BY <1>1
<1>6. 1 \notin E  OBVIOUS
<1>7. Times(q, x) = Cardinality(E \union (IF Head(q) = x THEN {1} ELSE {}))
  BY <1>5 DEF Times
<1> HIDE DEF D, E, f
<1>8. Cardinality(E \union {1}) = Cardinality(E) + 1  BY <1>4, <1>6, FS_AddElement
<1>9. CASE Head(q) = x  BY <1>2, <1>4, <1>7, <1>8, <1>9 DEF u
<1>10. CASE Head(q) # x
  <2>1. E \union {} = E  OBVIOUS
  <2> QED BY <2>1, <1>2, <1>4, <1>7, <1>10 DEF u
<1> QED BY <1>9, <1>10
=============================================================================
