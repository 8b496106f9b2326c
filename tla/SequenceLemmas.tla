----------------------------- MODULE SequenceLemmas -----------------------------
(***************************************************************************)
(* What the sequences of this project do to the set of their elements, and *)
(* what is gathered from a sequence of sequences.  FlattenSeq is recursive: *)
(* the facts about it rest on the least number for which they would fail.  *)
(***************************************************************************)
EXTENDS SequencesExt, FiniteSetTheorems, SequenceTheorems,
        WellFoundedInduction, TLAPS

\* An enumeration of a finite set has each of its elements once.
LEMMA OrderCovers ==
  ASSUME NEW S, IsFiniteSet(S), NEW order \in SetToSeqs(S)
  PROVE  /\ order \in Seq(S) /\ Range(order) = S
         /\ \A i, j \in DOMAIN order : order[i] = order[j] => i = j
  <1> DEFINE D == 1..Cardinality(S)
  <1>1. Cardinality(S) \in Nat
    BY FS_CardinalityType
  <1>2. order \in [D -> S] /\ \A i, j \in D : i # j => order[i] # order[j]
    BY DEF SetToSeqs
  <1>3. order \in Seq(S) /\ DOMAIN order = D
    BY <1>1, <1>2, SeqDef
  <1>4. IsFiniteSet(D) /\ Cardinality(D) = Cardinality(S)
    BY <1>1, FS_Interval
  <1>5. order \in Injection(D, S)
    BY <1>2 DEF Injection, IsInjective
  <1>6. order \in Surjection(D, S)
    <2> HIDE DEF D
    <2> QED
      BY <1>4, <1>5, FS_Injection
  <1>7. Range(order) = S
    BY <1>2, <1>6 DEF Surjection, Range
  <1> QED
    BY <1>2, <1>3, <1>7

\* Dropping the head of a sequence without duplicates drops it from its range.
LEMMA TailOfDistinct ==
  ASSUME NEW S, NEW s \in Seq(S), s # <<>>,
         \A i, j \in DOMAIN s : s[i] = s[j] => i = j
  PROVE  /\ Head(s) \in Range(s) /\ Tail(s) \in Seq(S)
         /\ Range(Tail(s)) = Range(s) \ {Head(s)}
         /\ \A i, j \in DOMAIN Tail(s) : Tail(s)[i] = Tail(s)[j] => i = j
  <1>1. /\ Len(s) \in Nat /\ Len(s) # 0 /\ DOMAIN s = 1..Len(s)
        /\ Head(s) = s[1]
        /\ Tail(s) \in Seq(S) /\ Len(Tail(s)) = Len(s) - 1
        /\ \A i \in 1..Len(Tail(s)) : Tail(s)[i] = s[i+1]
    BY HeadTailProperties, EmptySeq, LenProperties
  <1>2. DOMAIN Tail(s) = 1..(Len(s) - 1)
    BY <1>1, LenProperties
  <1>3. Head(s) \in Range(s)
    BY <1>1 DEF Range
  <1>4. Range(Tail(s)) = Range(s) \ {Head(s)}
    <2>1. ASSUME NEW x \in Range(Tail(s)) PROVE x \in Range(s) \ {Head(s)}
      <3>1. PICK i \in 1..(Len(s) - 1) : x = Tail(s)[i]
        BY <1>2 DEF Range
      <3>2. x = s[i+1] /\ i+1 \in 1..Len(s) /\ i+1 # 1
        BY <1>1, <3>1
      <3> QED
        BY <1>1, <3>2 DEF Range
    <2>2. ASSUME NEW x \in Range(s) \ {Head(s)} PROVE x \in Range(Tail(s))
      <3>1. PICK i \in 1..Len(s) : x = s[i]
        BY <1>1 DEF Range
      <3>2. i # 1 /\ i - 1 \in 1..(Len(s) - 1) /\ Tail(s)[i - 1] = s[i]
        BY <1>1, <3>1
      <3> QED
        BY <1>2, <3>1, <3>2 DEF Range
    <2> QED
      BY <2>1, <2>2
  <1>5. \A i, j \in DOMAIN Tail(s) : Tail(s)[i] = Tail(s)[j] => i = j
    BY <1>1, <1>2
  <1> QED
    BY <1>1, <1>3, <1>4, <1>5

\* Every set of natural numbers that is not empty has a least element.
LEMMA Least ==
  ASSUME NEW T, T \subseteq Nat, T # {}
  PROVE  \E m \in T : \A n \in T : m <= n
  <1>1. IsWellFoundedOn(OpToRel(<, Nat), Nat)
    BY NatLessThanWellFounded
  <1>2. PICK R : R = OpToRel(<, Nat)
    OBVIOUS
  <1>3. \A y, x \in Nat : <<y, x>> \in R <=> y < x
    BY <1>2 DEF OpToRel
  <1>4. \E m \in T : \A n \in T : ~(<<n, m>> \in R)
    BY <1>1, <1>2, WFMin
  <1>5. \A n \in T : n \in Nat
    OBVIOUS
  <1>6. PICK m \in T : \A n \in T : ~(<<n, m>> \in R)
    BY <1>4
  <1>7. ASSUME NEW n \in T PROVE m <= n
    <2>1. n \in Nat /\ m \in Nat
      BY <1>5, <1>6
    <2>2. ~(n < m)
      BY <1>3, <1>6, <2>1
    <2> QED
      BY <2>1, <2>2
  <1> QED
    BY <1>6, <1>7

\* A function on 1..n is a sequence.
LEMMA FunctionSeq ==
  ASSUME NEW S, NEW n, n \in Nat, NEW f \in [1..n -> S]
  PROVE  f \in Seq(S) /\ Len(f) = n
  <1>1. f \in Seq(S)
    BY SeqDef
  <1> QED
    BY <1>1, LenProperties

\* f gathers the first n sequences of seqs one after the other.
Gathers(seqs, n, f) ==
  f = [i \in 1..n |-> IF i = 1 THEN seqs[i] ELSE f[i-1] \o seqs[i]]

\* FlattenSeq is the last entry of a function that gathers all of seqs.
LEMMA FlattenChosen ==
  ASSUME NEW seqs, Len(seqs) # 0
  PROVE  FlattenSeq(seqs) = (CHOOSE f : Gathers(seqs, Len(seqs), f))[Len(seqs)]
  BY DEF FlattenSeq, Gathers

\* f gathers all of seqs.
GathersAll(seqs, f) == Gathers(seqs, Len(seqs), f)

\* s and t begin with the same n entries.
SameFirst(s, t, n) == \A i \in 1..n : s[i] = t[i]

\* What a gathering function is at an entry.
LEMMA GatherAt ==
  ASSUME NEW seqs, NEW n, NEW f, Gathers(seqs, n, f), NEW i \in 1..n
  PROVE  f[i] = IF i = 1 THEN seqs[i] ELSE f[i-1] \o seqs[i]
  <1>1. f = [j \in 1..n |-> IF j = 1 THEN seqs[j] ELSE f[j-1] \o seqs[j]]
    BY DEF Gathers
  <1> QED
    BY ONLY <1>1, i \in 1..n

\* There is such a function: the least n that has none cannot be.
LEMMA GatherExists ==
  ASSUME NEW S, NEW seqs \in Seq(Seq(S)), NEW n \in 1..Len(seqs)
  PROVE  \E f \in [1..n -> Seq(S)] : Gathers(seqs, n, f)
  <1> DEFINE Has(m) == \E f \in [1..m -> Seq(S)] : Gathers(seqs, m, f)
  <1> DEFINE T == {m \in 1..Len(seqs) : ~Has(m)}
  <1>1. \A i \in 1..Len(seqs) : seqs[i] \in Seq(S)
    BY ElementOfSeq
  <1>2. Len(seqs) \in Nat /\ T \subseteq Nat
    BY LenProperties
  <1>3. T = {}
    <2> SUFFICES ASSUME T # {} PROVE FALSE
      OBVIOUS
    <2> HIDE DEF Has
    <2>1. PICK m \in T : \A k \in T : m <= k
      <3> HIDE DEF T
      <3> QED
        BY <1>2, Least
    <2>2. m \in 1..Len(seqs) /\ ~Has(m)
      OBVIOUS
    <2>3. m # 1
      <3>1. ASSUME m = 1 PROVE Has(m)
        <4> DEFINE f == [i \in 1..1 |-> seqs[i]]
        <4>1. f \in [1..1 -> Seq(S)]
          BY <1>1, <2>2, <3>1
        <4>2. f = [i \in 1..1 |-> IF i = 1 THEN seqs[i] ELSE f[i-1] \o seqs[i]]
          OBVIOUS
        <4> QED
          BY <3>1, <4>1, <4>2 DEF Has, Gathers
      <3> QED
        BY <2>2, <3>1
    <2>4. m - 1 \in 1..Len(seqs) /\ ~(m <= m - 1)
      BY <1>2, <2>2, <2>3
    <2>5. Has(m - 1)
      BY <2>1, <2>4
    <2>6. PICK f \in [1..(m - 1) -> Seq(S)] : Gathers(seqs, m - 1, f)
      BY <2>5 DEF Has
    <2> DEFINE g == [i \in 1..m |-> IF i < m THEN f[i] ELSE f[m - 1] \o seqs[m]]
    <2>7. ASSUME NEW i \in 1..m
          PROVE  /\ g[i] \in Seq(S)
                 /\ g[i] = IF i = 1 THEN seqs[i] ELSE g[i-1] \o seqs[i]
      <3>1. CASE i < m
        <4>1. i \in 1..(m - 1) /\ g[i] = f[i]
          BY <2>2, <3>1
        <4>2. f[i] = IF i = 1 THEN seqs[i] ELSE f[i-1] \o seqs[i]
          BY <2>6, <4>1 DEF Gathers
        <4>3. i # 1 => i - 1 \in 1..m /\ i - 1 < m /\ g[i-1] = f[i-1]
          BY <2>2, <4>1
        <4>4. f[i] \in Seq(S)
          BY <2>6, <4>1
        <4> HIDE DEF g
        <4> QED
          BY <4>1, <4>2, <4>3, <4>4
      <3>2. CASE ~(i < m)
        <4>1. i = m /\ i # 1 /\ m - 1 \in 1..(m - 1) /\ i - 1 = m - 1 /\ i - 1 \in 1..m /\ i - 1 < m
          BY <2>2, <2>3, <2>4, <3>2
        <4>2. g[i] = f[m - 1] \o seqs[m] /\ g[i - 1] = f[m - 1]
          BY <3>2, <4>1
        <4>3. f[m - 1] \in Seq(S) /\ seqs[m] \in Seq(S)
          BY <1>1, <2>2, <2>6, <4>1
        <4>4. f[m - 1] \o seqs[m] \in Seq(S)
          BY <4>3, ConcatProperties
        <4> HIDE DEF g
        <4> QED
          BY <4>1, <4>2, <4>4
      <3> QED
        BY <3>1, <3>2
    <2>8. g \in [1..m -> Seq(S)]
      BY <2>7
    <2>9. g = [i \in 1..m |-> IF i = 1 THEN seqs[i] ELSE g[i-1] \o seqs[i]]
      <3>1. g = [i \in 1..m |-> g[i]]
        OBVIOUS
      <3> HIDE DEF g
      <3> QED
        BY <2>7, <3>1
    <2>10. Has(m)
      <3> HIDE DEF g
      <3> QED
        BY <2>8, <2>9 DEF Has, Gathers
    <2> QED
      BY <2>2, <2>10
  <1>4. Has(n)
    <2> HIDE DEF Has
    <2> QED
      BY <1>3
  <1> QED
    BY <1>4

\* Sequences that begin alike are gathered alike.
LEMMA GatherAgree ==
  ASSUME NEW s, NEW t, NEW f, NEW g, GathersAll(s, f), GathersAll(t, g),
         Len(s) \in Nat, Len(t) \in Nat, Len(s) <= Len(t),
         SameFirst(s, t, Len(s))
  PROVE  SameFirst(f, g, Len(s))
  <1> DEFINE n == Len(s)
  <1> DEFINE T == {i \in 1..n : f[i] # g[i]}
  <1>1. ASSUME NEW i \in 1..n
        PROVE  /\ f[i] = IF i = 1 THEN s[i] ELSE f[i-1] \o s[i]
               /\ g[i] = IF i = 1 THEN s[i] ELSE g[i-1] \o s[i]
    <2>1. i \in 1..Len(s) /\ i \in 1..Len(t) /\ s[i] = t[i]
      BY DEF SameFirst
    <2>2. f[i] = IF i = 1 THEN s[i] ELSE f[i-1] \o s[i]
      BY <2>1, GatherAt DEF GathersAll
    <2>3. g[i] = IF i = 1 THEN t[i] ELSE g[i-1] \o t[i]
      BY <2>1, GatherAt DEF GathersAll
    <2> QED
      BY <2>1, <2>2, <2>3
  <1>2. T = {}
    <2> SUFFICES ASSUME T # {} PROVE FALSE
      OBVIOUS
    <2>1. T \subseteq Nat
      OBVIOUS
    <2>2. PICK i \in T : \A j \in T : i <= j
      <3> HIDE DEF T
      <3> QED
        BY <2>1, Least
    <2>3. i \in 1..n /\ f[i] # g[i]
      OBVIOUS
    <2>4. i # 1
      BY <1>1, <2>3
    <2>5. i - 1 \in 1..n /\ ~(i <= i - 1)
      BY <2>3, <2>4
    <2>6. f[i - 1] = g[i - 1]
      BY <2>2, <2>5
    <2> QED
      BY <1>1, <2>3, <2>4, <2>6
  <1> QED
    BY <1>2 DEF SameFirst

\* Sequences over S are flattened to one over S.
LEMMA FlattenGathered ==
  ASSUME NEW S, NEW seqs \in Seq(Seq(S)), Len(seqs) # 0
  PROVE  /\ FlattenSeq(seqs) \in Seq(S)
         /\ \E f \in [1..Len(seqs) -> Seq(S)] :
              GathersAll(seqs, f) /\ FlattenSeq(seqs) = f[Len(seqs)]
  <1>1. /\ Len(seqs) \in Nat /\ Len(seqs) \in 1..Len(seqs) /\ Len(seqs) <= Len(seqs)
    BY LenProperties
  <1>2. PICK h \in [1..Len(seqs) -> Seq(S)] : GathersAll(seqs, h)
    BY <1>1, GatherExists DEF GathersAll
  <1> DEFINE f == CHOOSE g : GathersAll(seqs, g)
  <1>3. GathersAll(seqs, f)
    BY <1>2
  <1>4. FlattenSeq(seqs) = f[Len(seqs)]
    BY FlattenChosen DEF GathersAll
  <1> HIDE DEF f
  <1>5. SameFirst(f, h, Len(seqs))
    <2>1. SameFirst(seqs, seqs, Len(seqs))
      BY DEF SameFirst
    <2> QED
      BY <1>1, <1>2, <1>3, <2>1, GatherAgree
  <1>6. f[Len(seqs)] = h[Len(seqs)] /\ h[Len(seqs)] \in Seq(S)
    BY <1>1, <1>2, <1>5 DEF SameFirst
  <1> QED
    BY <1>2, <1>4, <1>6

\* A sequence added at the end is added to the flattened one.
LEMMA FlattenAppend ==
  ASSUME NEW S, NEW seqs \in Seq(Seq(S)), NEW s \in Seq(S)
  PROVE  /\ FlattenSeq(seqs) \in Seq(S)
         /\ FlattenSeq(Append(seqs, s)) = FlattenSeq(seqs) \o s
  <1> DEFINE more == Append(seqs, s)
             n == Len(seqs)
  <1>1. /\ more \in Seq(Seq(S)) /\ n \in Nat /\ Len(more) = n + 1 /\ Len(more) # 0
        /\ \A i \in 1..n : seqs[i] = more[i]
        /\ more[n + 1] = s
    BY AppendProperties, LenProperties
  <1> HIDE DEF more
  <1>2. PICK g \in [1..Len(more) -> Seq(S)] :
           GathersAll(more, g) /\ FlattenSeq(more) = g[Len(more)]
    BY <1>1, FlattenGathered
  <1>3. g[n+1] = IF n + 1 = 1 THEN s ELSE g[n] \o s
    <2>1. n + 1 \in 1..Len(more) /\ n + 1 - 1 = n
      BY <1>1
    <2>2. g[n+1] = IF n+1 = 1 THEN more[n+1] ELSE g[n+1-1] \o more[n+1]
      BY <1>2, <2>1, GatherAt DEF GathersAll
    <2> QED
      BY <1>1, <2>1, <2>2
  <1>4. CASE n = 0
    <2>1. seqs = <<>>
      BY <1>4, EmptySeq
    <2>2. FlattenSeq(seqs) = <<>>
      BY <1>4, <2>1 DEF FlattenSeq
    <2>3. <<>> \o s = s /\ <<>> \in Seq(S)
      BY ConcatEmptySeq, EmptySeq
    <2>4. FlattenSeq(more) = s
      BY <1>1, <1>2, <1>3, <1>4
    <2> QED
      BY <2>2, <2>3, <2>4 DEF more
  <1>5. CASE n # 0
    <2>1. PICK f \in [1..n -> Seq(S)] : GathersAll(seqs, f) /\ FlattenSeq(seqs) = f[n]
      BY <1>5, FlattenGathered
    <2>2. n \in 1..n /\ n <= n /\ n <= Len(more) /\ n + 1 # 1
      BY <1>1, <1>5
    <2>3. SameFirst(f, g, n)
      <3>1. SameFirst(seqs, more, Len(seqs))
        BY <1>1 DEF SameFirst
      <3> QED
        BY <1>1, <1>2, <2>1, <2>2, <3>1, GatherAgree
    <2>4. f[n] = g[n]
      BY <2>2, <2>3 DEF SameFirst
    <2>6. f[n] \in Seq(S)
      BY <2>1, <2>2
    <2>5. FlattenSeq(more) = g[n] \o s
      BY <1>1, <1>2, <1>3, <2>2
    <2> QED
      BY <2>1, <2>4, <2>5, <2>6 DEF more
  <1> QED
    BY <1>4, <1>5

\* So is an element added to the last sequence.
LEMMA FlattenExtend ==
  ASSUME NEW S, NEW seqs \in Seq(Seq(S)), seqs # <<>>, NEW x \in S
  PROVE  LET more == [seqs EXCEPT ![Len(seqs)] = Append(@, x)]
         IN  more \in Seq(Seq(S)) /\ FlattenSeq(more) = Append(FlattenSeq(seqs), x)
  <1> DEFINE more == [seqs EXCEPT ![Len(seqs)] = Append(@, x)]
             n == Len(seqs)
             front == SubSeq(seqs, 1, n - 1)
             last == seqs[n]
  <1>1. n \in Nat /\ n # 0 /\ n \in 1..n /\ last \in Seq(S) /\ DOMAIN seqs = 1..n
    BY EmptySeq, LenProperties, ElementOfSeq
  <1>2. front \in Seq(Seq(S)) /\ Len(front) = n - 1 /\ \A i \in 1..(n-1) : front[i] = seqs[i]
    BY <1>1, SubSeqProperties
  <1>3. Append(last, x) \in Seq(S) /\ Append(last, x) = last \o <<x>>
    BY <1>1, AppendProperties, AppendIsConcat
  <1>4. more \in Seq(Seq(S)) /\ Len(more) = n /\ more[n] = Append(last, x)
        /\ \A i \in 1..(n-1) : more[i] = seqs[i]
    <2>1. \A i \in 1..n : seqs[i] \in Seq(S)
      BY ElementOfSeq
    <2>2. more \in [1..n -> Seq(S)]
      BY <1>1, <1>3, <2>1
    <2>3. more \in Seq(Seq(S)) /\ Len(more) = n
      BY <1>1, <2>2, SeqDef, LenProperties
    <2>4. more[n] = Append(last, x)
      BY <1>1
    <2>5. \A i \in 1..(n-1) : more[i] = seqs[i]
      <3>1. \A i \in 1..(n-1) : i \in 1..n /\ i # n
        <4>1. n \in Nat
          BY <1>1
        <4> HIDE DEF n
        <4> QED
          BY <4>1
      <3> QED
        BY <1>1, <3>1
    <2> QED
      BY <2>3, <2>4, <2>5
  <1> HIDE DEF more, front
  <1>5. ASSUME NEW t \in Seq(Seq(S)), Len(t) = n, \A i \in 1..(n-1) : t[i] = seqs[i]
        PROVE  FlattenSeq(t) = FlattenSeq(front) \o t[n]
    <2>1. t[n] \in Seq(S)
      BY <1>1, <1>5, ElementOfSeq
    <2> DEFINE u == Append(front, t[n])
    <2>2. /\ u \in Seq(Seq(S)) /\ Len(u) = Len(front) + 1
          /\ \A i \in 1..Len(front) : u[i] = front[i]
          /\ u[Len(front) + 1] = t[n]
      BY <1>2, <2>1, AppendProperties
    <2> HIDE DEF u
    <2>4. Len(front) + 1 = n /\ \A i \in 1..n : i = n \/ i \in 1..(n-1)
      <3>1. n \in Nat /\ Len(front) = n - 1
        BY <1>1, <1>2
      <3> HIDE DEF n
      <3> QED
        BY <3>1
    <2>5. Len(u) = n /\ \A i \in 1..n : u[i] = t[i]
      BY <1>2, <1>5, <2>2, <2>4
    <2>3. t = u
      BY <1>5, <2>2, <2>5, SeqEqual
    <2>6. FlattenSeq(u) = FlattenSeq(front) \o t[n]
      BY <1>2, <2>1, FlattenAppend DEF u
    <2> QED
      BY <2>3, <2>6
  <1>6. FlattenSeq(seqs) = FlattenSeq(front) \o last
    BY <1>5
  <1>7. FlattenSeq(more) = FlattenSeq(front) \o Append(last, x)
    BY <1>4, <1>5
  <1>8. FlattenSeq(front) \in Seq(S)
    BY <1>2, <1>1, FlattenAppend
  <1>9. /\ FlattenSeq(front) \o (last \o <<x>>) = (FlattenSeq(front) \o last) \o <<x>>
        /\ FlattenSeq(front) \o last \in Seq(S)
    BY <1>1, <1>8, ConcatAssociative, ConcatProperties
  <1>10. (FlattenSeq(front) \o last) \o <<x>> = Append(FlattenSeq(front) \o last, x)
    BY <1>9, AppendIsConcat
  <1> QED
    BY <1>3, <1>4, <1>6, <1>7, <1>9, <1>10 DEF more

\* x is somewhere in s before y.
Precedes(s, x, y) == \E k, m \in DOMAIN s : k < m /\ s[k] = x /\ s[m] = y

\* In the first n of seqs, x comes before y.
Follow(seqs, n, x, y) ==
  \E a, b \in 1..n :
    \/ a < b /\ x \in Range(seqs[a]) /\ y \in Range(seqs[b])
    \/ a = b /\ Precedes(seqs[a], x, y)

Holds(seqs, n, x) == \E a \in 1..n : x \in Range(seqs[a])

\* flat has the elements of the first n of seqs, in their order.
Flattens(flat, seqs, n) ==
  /\ \A x : x \in Range(flat) <=> Holds(seqs, n, x)
  /\ \A k, m \in DOMAIN flat : k < m => Follow(seqs, n, flat[k], flat[m])
  /\ \A a, b \in 1..n : a < b =>
       \A x \in Range(seqs[a]), y \in Range(seqs[b]) : Precedes(flat, x, y)

LEMMA FlattensMore ==
  ASSUME NEW S, NEW seqs, NEW n \in Nat, n # 0, NEW s \in Seq(S), seqs[n] \in Seq(S),
         Flattens(s, seqs, n - 1)
  PROVE  Flattens(s \o seqs[n], seqs, n)
  <1>1. PICK t : t = seqs[n]
    OBVIOUS
  <1>2. PICK r : r = s \o t
    OBVIOUS
  <1>3. /\ Len(s) \in Nat /\ DOMAIN s = 1..Len(s) /\ Len(t) \in Nat /\ DOMAIN t = 1..Len(t)
        /\ t \in Seq(S)
    BY <1>1, LenProperties
  <1>4. /\ r \in Seq(S) /\ Len(r) = Len(s) + Len(t)
        /\ \A k \in 1..(Len(s) + Len(t)) : r[k] = IF k <= Len(s) THEN s[k] ELSE t[k - Len(s)]
    BY <1>2, <1>3, ConcatProperties
  <1>5. DOMAIN r = 1..(Len(s) + Len(t))
    BY <1>4, LenProperties
  <1>6. \A k \in DOMAIN s : k \in DOMAIN r /\ r[k] = s[k]
    BY <1>3, <1>4, <1>5
  <1>7. \A k \in DOMAIN t : k + Len(s) \in DOMAIN r /\ r[k + Len(s)] = t[k] /\ k + Len(s) > Len(s)
    <2> SUFFICES ASSUME NEW k \in DOMAIN t
                 PROVE  k + Len(s) \in DOMAIN r /\ r[k + Len(s)] = t[k] /\ k + Len(s) > Len(s)
      OBVIOUS
    <2>1. /\ k + Len(s) \in 1..(Len(s) + Len(t)) /\ ~(k + Len(s) <= Len(s))
          /\ k + Len(s) - Len(s) = k
      BY <1>3
    <2> QED
      BY <1>3, <1>4, <1>5, <2>1
  <1>8. \A k \in DOMAIN r : k \in DOMAIN s \/ (k > Len(s) /\ k - Len(s) \in DOMAIN t /\ r[k] = t[k - Len(s)])
    BY <1>3, <1>4, <1>5
  <1>9. n \in 1..n /\ \A a \in 1..n : a = n \/ (a \in 1..(n - 1) /\ a < n)
    OBVIOUS
  <1>10. \A a \in 1..(n - 1) : a \in 1..n /\ a < n
    OBVIOUS
  <1>11. Range(r) = Range(s) \cup Range(t)
    <2>1. ASSUME NEW k \in DOMAIN r PROVE r[k] \in Range(s) \cup Range(t)
      BY <1>6, <1>8 DEF Range
    <2>2. ASSUME NEW k \in DOMAIN s PROVE s[k] \in Range(r)
      BY <1>6 DEF Range
    <2>3. ASSUME NEW k \in DOMAIN t PROVE t[k] \in Range(r)
      BY <1>7 DEF Range
    <2> QED
      BY <2>1, <2>2, <2>3 DEF Range
  <1>12. \A x : x \in Range(r) <=> Holds(seqs, n, x)
    BY <1>1, <1>9, <1>10, <1>11 DEF Holds, Flattens
  <1>13. ASSUME NEW k \in DOMAIN r, NEW m \in DOMAIN r, k < m
         PROVE  Follow(seqs, n, r[k], r[m])
    <2>1. CASE m \in DOMAIN s
      <3>1. k \in DOMAIN s
        BY <1>3, <1>5, <1>13, <2>1
      <3>2. Follow(seqs, n - 1, s[k], s[m])
        BY <1>13, <2>1, <3>1 DEF Flattens
      <3>3. Follow(seqs, n, s[k], s[m])
        BY <1>10, <3>2 DEF Follow
      <3> QED
        BY <1>6, <2>1, <3>1, <3>3
    <2>2. CASE k \in DOMAIN s /\ m \notin DOMAIN s
      <3>1. r[m] \in Range(t) /\ r[k] \in Range(s)
        BY <1>6, <1>8, <2>2 DEF Range
      <3>2. PICK a \in 1..(n - 1) : r[k] \in Range(seqs[a])
        BY <3>1 DEF Flattens, Holds
      <3> QED
        BY <1>1, <1>9, <1>10, <3>1, <3>2 DEF Follow
    <2>3. CASE k \notin DOMAIN s /\ m \notin DOMAIN s
      <3>1. /\ k - Len(s) \in DOMAIN t /\ m - Len(s) \in DOMAIN t
            /\ r[k] = t[k - Len(s)] /\ r[m] = t[m - Len(s)]
        BY <1>8, <2>3
      <3>2. k - Len(s) < m - Len(s)
        BY <1>3, <1>5, <1>13
      <3>3. Precedes(t, r[k], r[m])
        BY <3>1, <3>2 DEF Precedes
      <3> QED
        BY <1>1, <1>9, <3>3 DEF Follow
    <2> QED
      BY <2>1, <2>2, <2>3
  <1>14. ASSUME NEW a \in 1..n, NEW b \in 1..n, a < b,
                NEW x \in Range(seqs[a]), NEW y \in Range(seqs[b])
         PROVE  Precedes(r, x, y)
    <2>1. a \in 1..(n - 1)
      BY <1>14
    <2>2. CASE b \in 1..(n - 1)
      <3>1. Precedes(s, x, y)
        BY <1>14, <2>1, <2>2 DEF Flattens
      <3>2. PICK k, m \in DOMAIN s : k < m /\ s[k] = x /\ s[m] = y
        BY <3>1 DEF Precedes
      <3> QED
        BY <1>6, <3>2 DEF Precedes
    <2>3. CASE b = n
      <3>1. x \in Range(s)
        BY <2>1 DEF Flattens, Holds
      <3>2. PICK k \in DOMAIN s : s[k] = x
        BY <3>1 DEF Range
      <3>3. PICK m \in DOMAIN t : t[m] = y
        BY <1>1, <2>3 DEF Range
      <3>4. k < m + Len(s)
        BY <1>3
      <3> QED
        BY <1>6, <1>7, <3>2, <3>3, <3>4 DEF Precedes
    <2> QED
      BY <1>9, <2>2, <2>3
  <1>15. Flattens(r, seqs, n)
    BY <1>12, <1>13, <1>14 DEF Flattens
  <1> QED
    BY <1>1, <1>2, <1>15

\* So does the flattened sequence: the least n for which the first n fail
\* cannot be.
LEMMA FlattenPlaces ==
  ASSUME NEW S, NEW seqs \in Seq(Seq(S)), Len(seqs) # 0
  PROVE  FlattenSeq(seqs) \in Seq(S) /\ Flattens(FlattenSeq(seqs), seqs, Len(seqs))
  <1>1. Len(seqs) \in Nat /\ \A n \in 1..Len(seqs) : seqs[n] \in Seq(S)
    BY LenProperties, ElementOfSeq
  <1>2. PICK f \in [1..Len(seqs) -> Seq(S)] :
          GathersAll(seqs, f) /\ FlattenSeq(seqs) = f[Len(seqs)]
    BY FlattenGathered
  <1>3. ASSUME NEW n \in 1..Len(seqs)
        PROVE  f[n] = IF n = 1 THEN seqs[n] ELSE f[n-1] \o seqs[n]
    <2>1. Gathers(seqs, Len(seqs), f)
      BY <1>2 DEF GathersAll
    <2> QED
      BY <2>1 DEF Gathers
  <1> DEFINE T == {n \in 1..Len(seqs) : ~Flattens(f[n], seqs, n)}
  <1>4. T = {}
    <2> SUFFICES ASSUME T # {} PROVE FALSE
      OBVIOUS
    <2>1. T \subseteq Nat
      OBVIOUS
    <2>2. PICK n \in T : \A m \in T : n <= m
      <3> HIDE DEF T
      <3> QED
        BY <2>1, Least
    <2>3. n \in 1..Len(seqs) /\ ~Flattens(f[n], seqs, n)
      OBVIOUS
    <2>4. CASE n = 1
      <3>1. PICK e : e = <<>>
        OBVIOUS
      <3>2. seqs[n] \in Seq(S) /\ n \in Nat /\ n # 0
        BY <1>1, <2>3, <2>4
      <3>3. e \in Seq(S) /\ e \o seqs[n] = seqs[n]
        BY <3>1, <3>2, EmptySeq, ConcatEmptySeq
      <3>4. Flattens(e, seqs, n - 1)
        <4>1. 1..(n - 1) = {} /\ DOMAIN e = {} /\ Range(e) = {}
          BY <2>4, <3>1 DEF Range
        <4> QED
          BY <4>1 DEF Flattens, Holds
      <3>5. Flattens(e \o seqs[n], seqs, n)
        BY <3>2, <3>3, <3>4, FlattensMore
      <3> QED
        BY <1>3, <2>3, <2>4, <3>3, <3>5
    <2>5. CASE n # 1
      <3>1. n - 1 \in 1..Len(seqs) /\ ~(n <= n - 1) /\ n \in Nat /\ n # 0
        BY <1>1, <2>3, <2>5
      <3>2. Flattens(f[n - 1], seqs, n - 1) /\ f[n - 1] \in Seq(S)
        BY <1>2, <2>2, <3>1
      <3>3. Flattens(f[n - 1] \o seqs[n], seqs, n)
        BY <1>1, <2>3, <3>1, <3>2, FlattensMore
      <3> QED
        BY <1>3, <2>3, <2>5, <3>3
    <2> QED
      BY <2>4, <2>5
  <1>5. Len(seqs) \in 1..Len(seqs)
    BY <1>1
  <1> QED
    BY <1>2, <1>4, <1>5

\* What seqs[from + 1], ..., seqs[to] are flattened to.
Piece(seqs, from, to) == FlattenSeq(SubSeq(seqs, from + 1, to))

LEMMA PieceMore ==
  ASSUME NEW S, NEW seqs \in Seq(Seq(S)), NEW from \in Nat, NEW to \in Nat,
         from < to, to <= Len(seqs)
  PROVE  /\ Piece(seqs, from, to - 1) \in Seq(S) /\ seqs[to] \in Seq(S)
         /\ Piece(seqs, from, to) = Piece(seqs, from, to - 1) \o seqs[to]
  <1>1. /\ Len(seqs) \in Nat /\ from + 1 \in 1..Len(seqs) /\ to \in (from + 1)..Len(seqs)
        /\ to \in 1..Len(seqs)
    BY LenProperties
  <1>2. seqs[to] \in Seq(S)
    BY <1>1, ElementOfSeq
  <1> DEFINE front == SubSeq(seqs, from + 1, to - 1)
  <1>3. front \in Seq(Seq(S))
    <2>1. from + 1 \in Int /\ to - 1 \in Int
      OBVIOUS
    <2>2. \A i \in (from + 1)..(to - 1) : seqs[i] \in Seq(S)
      <3>1. \A i \in (from + 1)..(to - 1) : i \in 1..Len(seqs)
        BY <1>1
      <3> QED
        BY <3>1, ElementOfSeq
    <2> QED
      BY <2>1, <2>2, SubSeqProperties
  <1>4. SubSeq(seqs, from + 1, to) = Append(front, seqs[to])
    <2>1. SubSeq(seqs, from + 1, to) = front \o <<seqs[to]>>
      BY <1>1, SubSeqRecursiveSecond
    <2>2. front \o <<seqs[to]>> = Append(front, seqs[to])
      <3> HIDE DEF front
      <3> QED
        BY <1>2, <1>3, AppendIsConcat
    <2> QED
      BY <2>1, <2>2
  <1>5. FlattenSeq(front) \in Seq(S) /\ FlattenSeq(Append(front, seqs[to])) = FlattenSeq(front) \o seqs[to]
    <2> HIDE DEF front
    <2> QED
      BY <1>2, <1>3, FlattenAppend
  <1> QED
    BY <1>2, <1>4, <1>5 DEF Piece

\* Nothing, one sequence, all of them, and two pieces that meet.
LEMMA PieceNone ==
  ASSUME NEW S, NEW seqs, NEW at \in Nat
  PROVE  Piece(seqs, at, at) = <<>> /\ Piece(seqs, at, at) \in Seq(S)
  <1>1. SubSeq(seqs, at + 1, at) = <<>>
    BY SubSeqEmpty
  <1>2. FlattenSeq(<<>>) = <<>> /\ <<>> \in Seq(S)
    BY EmptySeq DEF FlattenSeq
  <1> QED
    BY <1>1, <1>2 DEF Piece

LEMMA PieceOne ==
  ASSUME NEW S, NEW seqs \in Seq(Seq(S)), NEW n \in 1..Len(seqs)
  PROVE  Piece(seqs, n - 1, n) = seqs[n] /\ seqs[n] \in Seq(S)
  <1>1. n - 1 \in Nat /\ n \in Nat /\ n - 1 < n /\ n <= Len(seqs)
    BY LenProperties
  <1>2. /\ Piece(seqs, n - 1, n) = Piece(seqs, n - 1, n - 1) \o seqs[n]
        /\ seqs[n] \in Seq(S)
    BY <1>1, PieceMore
  <1>3. Piece(seqs, n - 1, n - 1) = <<>>
    BY <1>1, PieceNone
  <1> QED
    BY <1>2, <1>3, ConcatEmptySeq

LEMMA PieceAll ==
  ASSUME NEW S, NEW seqs \in Seq(Seq(S))
  PROVE  Piece(seqs, 0, Len(seqs)) = FlattenSeq(seqs)
  <1>1. SubSeq(seqs, 1, Len(seqs)) = seqs
    BY SubSeqFull
  <1>2. 0 + 1 = 1
    OBVIOUS
  <1> QED
    BY <1>1, <1>2 DEF Piece

LEMMA PiecesMeet ==
  ASSUME NEW S, NEW seqs \in Seq(Seq(S)), NEW a \in Nat, NEW b \in Nat, NEW c \in Nat,
         a <= b, b <= c, c <= Len(seqs)
  PROVE  /\ Piece(seqs, a, b) \in Seq(S)
         /\ Piece(seqs, a, b) \o Piece(seqs, b, c) = Piece(seqs, a, c)
  <1>1. Len(seqs) \in Nat
    BY LenProperties
  <1>2. Piece(seqs, a, b) \in Seq(S)
    <2>1. CASE a = b
      BY <2>1, PieceNone
    <2>2. CASE a # b
      <3>1. a < b /\ b <= Len(seqs)
        BY <1>1, <2>2
      <3>2. /\ Piece(seqs, a, b - 1) \in Seq(S) /\ seqs[b] \in Seq(S)
            /\ Piece(seqs, a, b) = Piece(seqs, a, b - 1) \o seqs[b]
        BY <3>1, PieceMore
      <3> QED
        BY <3>2, ConcatProperties
    <2> QED
      BY <2>1, <2>2
  <1> DEFINE Meet(d) == Piece(seqs, a, b) \o Piece(seqs, b, d) = Piece(seqs, a, d)
             T == {d \in b..c : ~Meet(d)}
  <1>3. T = {}
    <2> SUFFICES ASSUME T # {} PROVE FALSE
      OBVIOUS
    <2> HIDE DEF Meet
    <2>1. T \subseteq Nat
      OBVIOUS
    <2>2. PICK d \in T : \A e \in T : d <= e
      <3> HIDE DEF T
      <3> QED
        BY <2>1, Least
    <2>3. d \in b..c /\ ~Meet(d)
      OBVIOUS
    <2>4. ASSUME d = b PROVE FALSE
      <3>1. Piece(seqs, b, d) = <<>>
        BY <2>4, PieceNone
      <3>2. Piece(seqs, a, b) \o Piece(seqs, b, d) = Piece(seqs, a, b)
        BY <1>2, <3>1, ConcatEmptySeq
      <3> QED
        BY <2>3, <2>4, <3>2 DEF Meet
    <2>5. ASSUME d # b PROVE FALSE
      <3>1. d - 1 \in b..c /\ ~(d <= d - 1) /\ d \in Nat /\ b < d /\ a < d /\ d <= Len(seqs)
        BY <1>1, <2>3, <2>5
      <3>2. Meet(d - 1)
        BY <2>2, <3>1
      <3>3. /\ Piece(seqs, b, d - 1) \in Seq(S) /\ seqs[d] \in Seq(S)
            /\ Piece(seqs, b, d) = Piece(seqs, b, d - 1) \o seqs[d]
        BY <3>1, PieceMore
      <3>4. Piece(seqs, a, d) = Piece(seqs, a, d - 1) \o seqs[d]
        BY <3>1, PieceMore
      <3>5. Piece(seqs, a, b) \o (Piece(seqs, b, d - 1) \o seqs[d])
              = (Piece(seqs, a, b) \o Piece(seqs, b, d - 1)) \o seqs[d]
        <4>1. PICK x, y, z : x = Piece(seqs, a, b) /\ y = Piece(seqs, b, d - 1) /\ z = seqs[d]
          OBVIOUS
        <4>2. x \in Seq(S) /\ y \in Seq(S) /\ z \in Seq(S)
          BY <1>2, <3>3, <4>1
        <4>3. (x \o y) \o z = x \o (y \o z)
          BY ONLY <4>2, ConcatAssociative
        <4> QED
          BY <4>1, <4>3
      <3> QED
        BY <2>3, <3>2, <3>3, <3>4, <3>5 DEF Meet
    <2> QED
      BY <2>4, <2>5
  <1>4. c \in b..c
    OBVIOUS
  <1> QED
    BY <1>2, <1>3, <1>4

=============================================================================
