---------------------------- MODULE ProofLemmas ----------------------------
(***************************************************************************)
(* Facts about natural numbers and sequences that the proofs about several *)
(* components need: least elements, induction over a set of numbers, the   *)
(* elements of sequences, and sequences that count upwards.                *)
(***************************************************************************)
EXTENDS Integers, SequenceTheorems, FiniteSetTheorems, TLAPS

\* A set of natural numbers has a least element.  The intervals below its
\* elements are finite sets, which strict inclusion orders well.
LEMMA LeastElement ==
    ASSUME NEW S \in SUBSET Nat, S # {}
    PROVE  \E n \in S : \A m \in S : n <= m
<1> DEFINE Below == {0..n : n \in S}
<1>1. Below \subseteq FiniteSubsetsOf(Nat) /\ Below # {}
  <2>1. \A n \in S : IsFiniteSet(0..n) /\ 0..n \in SUBSET Nat
    BY FS_Interval
  <2> QED
    BY <2>1 DEF FiniteSubsetsOf
<1>2. PICK b \in Below : \A a \in Below : <<a, b>> \notin StrictSubsetOrdering(Nat)
  BY <1>1, FS_StrictSubsetOrderingWellFounded, WFMin
<1>3. PICK n \in S : b = 0..n
  BY <1>2
<1>4. ASSUME NEW m \in S, m < n PROVE FALSE
  <2>1. 0..m \in SUBSET Nat /\ 0..n \in SUBSET Nat /\ 0..m \subseteq 0..n /\ n \notin 0..m /\ n \in 0..n
    BY <1>4
  <2>2. <<0..m, 0..n>> \in StrictSubsetOrdering(Nat)
    BY <2>1 DEF StrictSubsetOrdering
  <2> QED
    BY <1>2, <1>3, <2>2
<1> QED
  BY <1>4

\* Induction, for a property that is given as the set of its numbers.
LEMMA InductiveSet ==
    ASSUME NEW S \in SUBSET Nat, 0 \in S, \A n \in S : n + 1 \in S
    PROVE  S = Nat
<1>1. ASSUME Nat \ S # {} PROVE FALSE
  <2>1. PICK n \in Nat \ S : \A m \in Nat \ S : n <= m
    BY <1>1, LeastElement
  <2>2. n # 0 /\ n - 1 \in Nat /\ n - 1 \notin Nat \ S
    BY <2>1
  <2>3. n = (n - 1) + 1
    BY <2>2
  <2> QED
    BY <2>1, <2>2, <2>3
<1> QED
  BY <1>1
----------------------------------------------------------------------------
\* A function on the numbers up to n is a sequence.
LEMMA SeqOfFunction ==
    ASSUME NEW S, NEW n \in Nat, NEW s, s = [i \in 1..n |-> s[i]], \A i \in 1..n : s[i] \in S
    PROVE  s \in Seq(S) /\ Len(s) = n
<1>1. s \in [1..n -> S]
  OBVIOUS
<1>2. s \in Seq(S)
  BY <1>1, SeqDef
<1> QED
  BY <1>1, <1>2, LenProperties

\* Moving the head of one sequence to the end of another keeps their concatenation.
LEMMA MoveHead ==
    ASSUME NEW S, NEW p \in Seq(S), NEW q \in Seq(S), q # <<>>
    PROVE  Append(p, Head(q)) \o Tail(q) = p \o q
<1>1. Head(q) \in S /\ Tail(q) \in Seq(S) /\ q = <<Head(q)>> \o Tail(q)
  <2>1. Head(q) \in S /\ Tail(q) \in Seq(S) /\ Len(Tail(q)) = Len(q) - 1
        /\ \A i \in 1..Len(Tail(q)) : Tail(q)[i] = q[i + 1]
    BY HeadTailProperties
  <2>2. <<Head(q)>> \in Seq(S) /\ Len(<<Head(q)>>) = 1 /\ <<Head(q)>>[1] = Head(q)
    BY <2>1
  <2> DEFINE r == <<Head(q)>> \o Tail(q)
  <2>3. r \in Seq(S) /\ Len(r) = 1 + Len(Tail(q))
        /\ \A i \in 1..(1 + Len(Tail(q))) :
               r[i] = IF i <= 1 THEN Head(q) ELSE Tail(q)[i - 1]
    BY <2>1, <2>2, ConcatProperties
  <2>4. Len(q) \in Nat \ {0} /\ Head(q) = q[1]
    BY EmptySeq
  <2>5. Len(r) = Len(q) /\ \A i \in 1..Len(r) : r[i] = q[i]
    <3> HIDE DEF r
    <3> QED
      BY <2>1, <2>3, <2>4
  <2> QED
    BY <2>1, <2>3, <2>5, SeqEqual
<1>2. Append(p, Head(q)) = p \o <<Head(q)>>
  BY <1>1, AppendIsConcat
<1>3. <<Head(q)>> \in Seq(S)
  BY <1>1
<1> QED
  BY <1>1, <1>2, <1>3, ConcatAssociative

\* A sequence over a set is one over a larger set.
LEMMA SeqOfMore ==
    ASSUME NEW S, NEW T, S \subseteq T, NEW s \in Seq(S)
    PROVE  s \in Seq(T)
<1>1. Len(s) \in Nat /\ \A i \in 1..Len(s) : s[i] \in T
  BY LenProperties, ElementOfSeq
<1>2. SubSeq(s, 1, Len(s)) \in Seq(T)
  BY <1>1, SubSeqProperties
<1> QED
  BY <1>2, SubSeqFull

Elems(s)    == {s[i] : i \in 1..Len(s)}
OnceEach(s) == \A i, j \in 1..Len(s) : s[i] = s[j] => i = j

LEMMA ElemsAppend ==
    ASSUME NEW S, NEW s \in Seq(S), NEW e \in S
    PROVE  Elems(Append(s, e)) = Elems(s) \cup {e}
<1> DEFINE a == Append(s, e)
<1>1. /\ Len(a) = Len(s) + 1 /\ Len(s) \in Nat /\ a[Len(s) + 1] = e
      /\ \A i \in 1..Len(s) : a[i] = s[i]
  BY AppendProperties, LenProperties
<1> HIDE DEF a
<1>2. \A i \in 1..Len(a) : a[i] \in Elems(s) \cup {e}
  BY <1>1 DEF Elems
<1>3. \A i \in 1..Len(s) : s[i] \in Elems(a)
  BY <1>1 DEF Elems
<1>4. e \in Elems(a)
  BY <1>1 DEF Elems
<1>5. Elems(a) = Elems(s) \cup {e}
  BY <1>2, <1>3, <1>4 DEF Elems
<1> QED
  BY <1>5 DEF a

\* Appending a new element keeps the elements of a sequence different.
LEMMA AppendOnce ==
    ASSUME NEW S, NEW s \in Seq(S), NEW e \in S
    PROVE  /\ Elems(Append(s, e)) = Elems(s) \cup {e}
           /\ OnceEach(s) /\ e \notin Elems(s) => OnceEach(Append(s, e))
<1> DEFINE a == Append(s, e)
<1>1. /\ Len(a) = Len(s) + 1 /\ Len(s) \in Nat /\ a[Len(s) + 1] = e
      /\ \A i \in 1..Len(s) : a[i] = s[i]
  BY AppendProperties, LenProperties
<1> HIDE DEF a
<1>2. OnceEach(s) /\ e \notin Elems(s) => OnceEach(a)
  BY <1>1 DEF OnceEach, Elems
<1> QED
  BY <1>2, ElemsAppend DEF a

\* Taking the head away keeps them different, and takes one element away.
LEMMA TailOnce ==
    ASSUME NEW S, NEW s \in Seq(S), s # <<>>
    PROVE  /\ Head(s) \in S /\ Elems(s) = Elems(Tail(s)) \cup {Head(s)}
           /\ OnceEach(s) => OnceEach(Tail(s)) /\ Head(s) \notin Elems(Tail(s))
<1> DEFINE r == Tail(s)
<1>1. /\ Len(s) \in Nat \ {0} /\ Len(r) = Len(s) - 1 /\ Head(s) = s[1] /\ Head(s) \in S
      /\ \A i \in 1..Len(r) : r[i] = s[i + 1]
  BY HeadTailProperties, EmptySeq
<1> HIDE DEF r
<1>2. Elems(s) = Elems(r) \cup {s[1]}
  <2>1. \A i \in 1..Len(r) : r[i] \in Elems(s)
    BY <1>1 DEF Elems
  <2>2. ASSUME NEW i \in 1..Len(s) PROVE s[i] \in Elems(r) \cup {s[1]}
    <3>1. CASE i = 1
      BY <3>1
    <3>2. CASE i # 1
      <4>1. i - 1 \in 1..Len(r) /\ s[i] = r[i - 1]
        BY <1>1, <3>2
      <4> QED
        BY <4>1 DEF Elems
    <3> QED
      BY <3>1, <3>2
  <2>3. s[1] \in Elems(s)
    BY <1>1 DEF Elems
  <2> QED
    BY <2>1, <2>2, <2>3 DEF Elems
<1>3. OnceEach(s) => OnceEach(r) /\ s[1] \notin Elems(r)
  BY <1>1 DEF OnceEach, Elems
<1> QED
  BY <1>1, <1>2, <1>3 DEF r

\* A sequence of different numbers from 1..n has at most n of them.
LEMMA OnceEachFits ==
    ASSUME NEW n \in Nat, NEW s \in Seq(1..n), OnceEach(s)
    PROVE  Len(s) <= n
<1>1. Len(s) \in Nat /\ s \in [1..Len(s) -> 1..n]
  BY LenProperties
<1>2. s \in Injection(1..Len(s), 1..n)
  BY <1>1 DEF Injection, IsInjective, OnceEach
<1>3. IsFiniteSet(1..n) /\ Cardinality(1..n) = n
  <2>1. 1 \in Int /\ n \in Int /\ (n - 1) + 1 = n /\ (1 > n <=> n = 0)
    OBVIOUS
  <2>2. /\ IsFiniteSet(1..n)
        /\ Cardinality(1..n) = IF 1 > n THEN 0 ELSE n - 1 + 1
    BY <2>1, FS_Interval
  <2> QED
    BY <2>1, <2>2
<1>4. Cardinality(1..Len(s)) = Len(s)
  <2> DEFINE l == Len(s)
  <2>1. l \in Nat
    BY <1>1
  <2> HIDE DEF l
  <2>2. 1 \in Int /\ l \in Int /\ (l - 1) + 1 = l /\ (1 > l <=> l = 0)
    BY <2>1
  <2>3. Cardinality(1..l) = IF 1 > l THEN 0 ELSE l - 1 + 1
    BY <2>2, FS_Interval
  <2>4. Cardinality(1..l) = l
    BY <2>2, <2>3
  <2> QED
    BY <2>4 DEF l
<1> QED
  BY <1>2, <1>3, <1>4, FS_Injection
----------------------------------------------------------------------------
\* s is k + 1, k + 2, ..
CountsFrom(s, k) == \A i \in 1..Len(s) : s[i] = k + i

\* It goes on counting when the next number is appended ...
LEMMA CountAppend ==
    ASSUME NEW s \in Seq(Int), NEW k \in Int, CountsFrom(s, k),
           NEW e, e = k + Len(s) + 1
    PROVE  /\ Append(s, e) \in Seq(Int) /\ Len(Append(s, e)) = Len(s) + 1
           /\ CountsFrom(Append(s, e), k)
<1>1. e \in Int /\ Len(s) \in Nat
  BY LenProperties
<1> DEFINE a == Append(s, e)
<1>2. /\ a \in Seq(Int) /\ Len(a) = Len(s) + 1 /\ a[Len(s) + 1] = e
      /\ \A i \in 1..Len(s) : a[i] = s[i]
  BY <1>1, AppendProperties
<1> HIDE DEF a
<1>3. ASSUME NEW i \in 1..Len(a) PROVE a[i] = k + i
  <2>1. i \in 1..Len(s) \/ i = Len(s) + 1
    BY <1>1, <1>2
  <2> QED
    BY <2>1, <1>1, <1>2 DEF CountsFrom
<1> QED
  BY <1>2, <1>3 DEF a, CountsFrom

\* ... when its head is taken away ...
LEMMA CountTail ==
    ASSUME NEW s \in Seq(Int), NEW k \in Int, CountsFrom(s, k), s # <<>>
    PROVE  /\ Head(s) = k + 1 /\ Tail(s) \in Seq(Int) /\ Len(Tail(s)) = Len(s) - 1
           /\ CountsFrom(Tail(s), k + 1)
<1> DEFINE r == Tail(s)
<1>1. /\ r \in Seq(Int) /\ Len(r) = Len(s) - 1 /\ Len(s) \in Nat \ {0} /\ Head(s) = s[1]
      /\ \A i \in 1..Len(r) : r[i] = s[i + 1]
  BY HeadTailProperties, EmptySeq
<1> HIDE DEF r
<1>2. ASSUME NEW i \in 1..Len(r) PROVE r[i] = (k + 1) + i
  <2>1. i + 1 \in 1..Len(s) /\ i \in Int /\ r[i] = s[i + 1]
    BY <1>1
  <2>2. s[i + 1] = k + (i + 1)
    BY <2>1 DEF CountsFrom
  <2> QED
    BY <2>1, <2>2
<1>3. s[1] = k + 1
  BY <1>1 DEF CountsFrom
<1> QED
  BY <1>1, <1>2, <1>3 DEF r, CountsFrom

\* ... and in both parts when it is cut.
LEMMA CountCut ==
    ASSUME NEW s \in Seq(Int), NEW k \in Int, CountsFrom(s, k), NEW n \in 0..Len(s)
    PROVE  /\ SubSeq(s, 1, n) \in Seq(Int) /\ Len(SubSeq(s, 1, n)) = n
           /\ CountsFrom(SubSeq(s, 1, n), k)
           /\ SubSeq(s, n + 1, Len(s)) \in Seq(Int)
           /\ Len(SubSeq(s, n + 1, Len(s))) = Len(s) - n
           /\ CountsFrom(SubSeq(s, n + 1, Len(s)), k + n)
<1> DEFINE p == SubSeq(s, 1, n)
           r == SubSeq(s, n + 1, Len(s))
<1>1. Len(s) \in Nat /\ n \in Nat /\ \A i \in 1..Len(s) : s[i] \in Int
  BY LenProperties, ElementOfSeq
<1>2. p \in Seq(Int) /\ Len(p) = n /\ \A i \in 1..n : p[i] = s[i]
  BY <1>1, SubSeqProperties
<1>3. /\ r \in Seq(Int) /\ Len(r) = Len(s) - n
      /\ \A i \in 1..(Len(s) - n) : r[i] = s[n + i]
  BY <1>1, SubSeqProperties
<1> HIDE DEF p, r
<1>4. CountsFrom(p, k) /\ CountsFrom(r, k + n)
  BY <1>1, <1>2, <1>3 DEF CountsFrom
<1> QED
  BY <1>2, <1>3, <1>4 DEF p, r

\* Two that follow each other count as one.
LEMMA CountConcat ==
    ASSUME NEW s \in Seq(Int), NEW t \in Seq(Int), NEW k \in Int,
           CountsFrom(s, k), CountsFrom(t, k + Len(s))
    PROVE  /\ s \o t \in Seq(Int) /\ Len(s \o t) = Len(s) + Len(t)
           /\ CountsFrom(s \o t, k)
<1> DEFINE c == s \o t
<1>1. Len(s) \in Nat /\ Len(t) \in Nat
  BY LenProperties
<1>2. /\ c \in Seq(Int) /\ Len(c) = Len(s) + Len(t)
      /\ \A i \in 1..(Len(s) + Len(t)) : c[i] = IF i <= Len(s) THEN s[i] ELSE t[i - Len(s)]
  BY ConcatProperties
<1> HIDE DEF c
<1>3. ASSUME NEW i \in 1..Len(c) PROVE c[i] = k + i
  <2>1. CASE i <= Len(s)
    <3>1. i \in 1..Len(s) /\ c[i] = s[i]
      BY <2>1, <1>1, <1>2
    <3> QED
      BY <3>1 DEF CountsFrom
  <2>2. CASE ~(i <= Len(s))
    <3>1. i - Len(s) \in 1..Len(t) /\ i \in Int /\ c[i] = t[i - Len(s)]
      BY <2>2, <1>1, <1>2
    <3>2. t[i - Len(s)] = (k + Len(s)) + (i - Len(s))
      BY <3>1 DEF CountsFrom
    <3> QED
      BY <3>1, <3>2, <1>1
  <2> QED
    BY <2>1, <2>2
<1> QED
  BY <1>2, <1>3 DEF c, CountsFrom

\* The head of one goes to the end of the one before it.
LEMMA CountMove ==
    ASSUME NEW s \in Seq(Int), NEW t \in Seq(Int), NEW k \in Int,
           CountsFrom(s, k), CountsFrom(t, k + Len(s)), t # <<>>
    PROVE  /\ Append(s, Head(t)) \in Seq(Int) /\ Len(Append(s, Head(t))) = Len(s) + 1
           /\ CountsFrom(Append(s, Head(t)), k)
           /\ Tail(t) \in Seq(Int) /\ Len(Tail(t)) = Len(t) - 1 /\ Len(t) > 0
           /\ CountsFrom(Tail(t), k + Len(s) + 1)
<1>1. Len(s) \in Nat /\ k + Len(s) \in Int
  BY LenProperties
<1>2. /\ Head(t) = k + Len(s) + 1 /\ Tail(t) \in Seq(Int) /\ Len(Tail(t)) = Len(t) - 1
      /\ CountsFrom(Tail(t), k + Len(s) + 1)
  BY <1>1, CountTail
<1>3. Len(t) \in Nat /\ Len(t) > 0
  BY EmptySeq, LenProperties
<1>4. Append(s, Head(t)) \in Seq(Int) /\ Len(Append(s, Head(t))) = Len(s) + 1
      /\ CountsFrom(Append(s, Head(t)), k)
  BY <1>2, CountAppend
<1> QED
  BY <1>2, <1>3, <1>4
----------------------------------------------------------------------------
\* How many elements a set has that keeps, gains, loses or exchanges one.
LEMMA OneMoreOrLess ==
    ASSUME NEW T, IsFiniteSet(T), NEW A \in SUBSET T, NEW B \in SUBSET T, NEW t
    PROVE  /\ Cardinality(A) \in Nat /\ Cardinality(B) \in Nat
           /\ A \subseteq B => Cardinality(A) <= Cardinality(B)
           /\ t \notin A /\ A \cup {t} \subseteq B => Cardinality(A) + 1 <= Cardinality(B)
           /\ A \subseteq B \cup {t} => Cardinality(A) <= Cardinality(B) + 1
           /\ \A u : t \in A /\ u \notin A /\ (A \ {t}) \cup {u} \subseteq B
                  => Cardinality(A) <= Cardinality(B)
<1>1. IsFiniteSet(A) /\ IsFiniteSet(B)
  BY FS_Subset
<1>2. Cardinality(A) \in Nat /\ Cardinality(B) \in Nat
  BY <1>1, FS_CardinalityType
<1>3. A \subseteq B => Cardinality(A) <= Cardinality(B)
  BY <1>1, FS_Subset
<1>4. ASSUME t \notin A, A \cup {t} \subseteq B PROVE Cardinality(A) + 1 <= Cardinality(B)
  <2>1. Cardinality(A \cup {t}) = Cardinality(A) + 1
    BY <1>1, <1>4, FS_AddElement
  <2>2. Cardinality(A \cup {t}) <= Cardinality(B)
    BY <1>1, <1>4, FS_Subset
  <2> QED
    BY <2>1, <2>2
<1>5. ASSUME A \subseteq B \cup {t} PROVE Cardinality(A) <= Cardinality(B) + 1
  <2>1. /\ IsFiniteSet(B \cup {t})
        /\ Cardinality(B \cup {t}) = Cardinality(B) \/ Cardinality(B \cup {t}) = Cardinality(B) + 1
    BY <1>1, FS_AddElement
  <2>2. Cardinality(A) <= Cardinality(B \cup {t})
    BY <1>5, <2>1, FS_Subset
  <2> QED
    BY <1>2, <2>1, <2>2
<1>6. ASSUME NEW u, t \in A, u \notin A, (A \ {t}) \cup {u} \subseteq B
      PROVE  Cardinality(A) <= Cardinality(B)
  <2>1. IsFiniteSet(A \ {t}) /\ Cardinality(A \ {t}) = Cardinality(A) - 1
    BY <1>1, <1>6, FS_RemoveElement
  <2>2. Cardinality((A \ {t}) \cup {u}) = Cardinality(A \ {t}) + 1
    BY <1>6, <2>1, FS_AddElement
  <2>3. Cardinality((A \ {t}) \cup {u}) <= Cardinality(B)
    BY <1>1, <1>6, FS_Subset
  <2> QED
    BY <1>2, <2>1, <2>2, <2>3
<1> QED
  BY <1>2, <1>3, <1>4, <1>5, <1>6
=============================================================================
