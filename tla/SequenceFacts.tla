---------------------------- MODULE SequenceFacts ----------------------------
(***************************************************************************)
(* What the other proofs need to know of least and greatest elements, of   *)
(* concatenation and of FlattenSeq.                                        *)
(*                                                                         *)
(* The library's induction theorems take the induction hypothesis as an    *)
(* operator.  Here induction is done with what needs none: the order of    *)
(* the naturals is well founded, so that a set of counterexamples that is  *)
(* not empty has a least one.                                              *)
(***************************************************************************)
EXTENDS SequencesExt, FiniteSetsExt, SequenceTheorems, WellFoundedInduction, TLAPS

\* A set of naturals that is not empty has a least element.
LEMMA LeastExists ==
  ASSUME NEW T, T \subseteq Nat, T # {}
  PROVE  \E x \in T : \A y \in T : x <= y
<1> DEFINE R == {ss \in Nat \X Nat : ss[1] < ss[2]}
<1>1. IsWellFoundedOn(R, Nat)
  BY NatLessThanWellFounded DEF OpToRel
<1>2. \A x, y \in Nat : <<y, x>> \in R <=> y < x
  OBVIOUS
<1> HIDE DEF R
<1>3. PICK x \in T : \A y \in T : ~ (<<y, x>> \in R)
  BY <1>1, WFMin
<1>4. \A y \in T : x <= y
  <2> SUFFICES ASSUME NEW y \in T PROVE x <= y
    OBVIOUS
  <2>1. x \in Nat /\ y \in Nat
    OBVIOUS
  <2>2. ~(y < x)
    BY <2>1, <1>2, <1>3
  <2> QED
    BY <2>1, <2>2
<1> QED
  BY <1>4

LEMMA MinOf ==
  ASSUME NEW T, T \subseteq Nat, T # {}
  PROVE  Min(T) \in T /\ \A y \in T : Min(T) <= y
BY LeastExists DEF Min

\* A bounded one has a greatest.
LEMMA MaxOf ==
  ASSUME NEW n \in Nat, NEW T, T \subseteq 0 .. n, T # {}
  PROVE  Max(T) \in T /\ \A y \in T : Max(T) >= y
<1> DEFINE D == {n - x : x \in T}
<1>1. D \subseteq Nat /\ D # {}
  <2>1. \A x \in T : n - x \in Nat
    OBVIOUS
  <2>2. D \subseteq Nat
    BY <2>1
  <2>3. \E x \in T : n - x \in D
    OBVIOUS
  <2> QED
    BY <2>2, <2>3
<1>2. PICK d \in D : \A e \in D : d <= e
  BY <1>1, LeastExists
<1>3. PICK x \in T : d = n - x
  OBVIOUS
<1>4. \A y \in T : x >= y
  <2> SUFFICES ASSUME NEW y \in T PROVE x >= y
    OBVIOUS
  <2>1. n - y \in D
    OBVIOUS
  <2>2. n - x <= n - y
    BY <1>2, <1>3, <2>1
  <2> QED
    BY <2>2
<1> QED
  BY <1>4 DEF Max

-----------------------------------------------------------------------------
(* FlattenSeq.                                                             *)

\* f holds what FlattenSeq has put together after each of n elements.
Unfolds(f, s, n) ==
  f = [i \in 1 .. n |-> IF i = 1 THEN s[i] ELSE f[i - 1] \o s[i]]

LEMMA UnfoldingExists ==
  ASSUME NEW S, NEW s \in Seq(Seq(S)), NEW n \in Nat
  PROVE  \E f : Unfolds(f, s, n)
<1> DEFINE Bad == {k \in Nat : ~ \E f : Unfolds(f, s, k)}
<1>1. SUFFICES ASSUME Bad # {} PROVE FALSE
  OBVIOUS
<1>2. PICK k \in Bad : \A j \in Bad : k <= j
  BY <1>1, LeastExists
<1>3. k # 0
  <2>1. Unfolds([i \in 1 .. 0 |-> 0], s, 0)
    BY DEF Unfolds
  <2> QED
    BY <2>1
<1>4. k - 1 \in Nat /\ k - 1 \notin Bad
  BY <1>2, <1>3
<1>5. PICK f : Unfolds(f, s, k - 1)
  BY <1>4
<1> DEFINE g == [i \in 1 .. k |-> IF i = k THEN (IF i = 1 THEN s[i] ELSE f[i - 1] \o s[i])
                                           ELSE f[i]]
<1>6. \A i \in 1 .. k - 1 : f[i] = IF i = 1 THEN s[i] ELSE f[i - 1] \o s[i]
  BY <1>5 DEF Unfolds
<1>7. ASSUME NEW i \in 1 .. k
      PROVE  g[i] = IF i = 1 THEN s[i] ELSE g[i - 1] \o s[i]
  <2>1. i # 1 => i - 1 \in 1 .. k /\ i - 1 # k
    BY <1>4
  <2>2. i # 1 => g[i - 1] = f[i - 1]
    BY <2>1
  <2>3. CASE i = k
    BY <2>2, <2>3
  <2>4. CASE i # k
    <3>1. i \in 1 .. k - 1
      BY <2>4, <1>4
    <3> QED
      BY <1>6, <2>2, <2>4, <3>1
  <2> QED
    BY <2>3, <2>4
<1>8. Unfolds(g, s, k)
  BY <1>7 DEF Unfolds
<1> QED
  BY <1>2, <1>8

LEMMA Flattens ==
  ASSUME NEW S, NEW s \in Seq(Seq(S)), s # <<>>
  PROVE  \E f : Unfolds(f, s, Len(s)) /\ FlattenSeq(s) = f[Len(s)]
<1>1. PICK f : Unfolds(f, s, Len(s))
  BY UnfoldingExists
<1>2. Len(s) # 0
  BY EmptySeq
<1> DEFINE h == CHOOSE g : g = [i \in 1 .. Len(s) |-> IF i = 1 THEN s[i] ELSE g[i - 1] \o s[i]]
<1>3. Unfolds(h, s, Len(s))
  BY <1>1, Zenon DEF Unfolds
<1>4. FlattenSeq(s) = h[Len(s)]
  BY <1>2, Zenon DEF FlattenSeq
<1> QED
  BY <1>3, <1>4, Zenon

LEMMA FlattenEmpty == FlattenSeq(<<>>) = <<>>
BY DEF FlattenSeq

LEMMA FlattenType ==
  ASSUME NEW S, NEW s \in Seq(Seq(S))
  PROVE  FlattenSeq(s) \in Seq(S)
<1>1. CASE s = <<>>
  <2>1. FlattenSeq(s) = <<>>
    BY <1>1, FlattenEmpty, Zenon
  <2>2. <<>> \in Seq(S)
    OBVIOUS
  <2> QED
    BY <2>1, <2>2, Zenon
<1>2. CASE s # <<>>
  <2>1. PICK f : Unfolds(f, s, Len(s)) /\ FlattenSeq(s) = f[Len(s)]
    BY <1>2, Flattens
  <2>2. Len(s) \in Nat /\ Len(s) >= 1
    BY <1>2, EmptySeq, LenProperties
  <2> DEFINE Bad == {k \in 1 .. Len(s) : f[k] \notin Seq(S)}
  <2>3. ASSUME Bad # {} PROVE FALSE
    <3>1. Bad \subseteq Nat
      OBVIOUS
    <3>2. PICK k \in Bad : \A j \in Bad : k <= j
      <4> HIDE DEF Bad
      <4> QED
        BY <2>3, <3>1, LeastExists
    <3>3. k \in 1 .. Len(s) /\ s[k] \in Seq(S)
      BY ElementOfSeq
    <3>4. f[k] = IF k = 1 THEN s[k] ELSE f[k - 1] \o s[k]
      BY <2>1, <3>3 DEF Unfolds
    <3>5. k # 1 => k - 1 \in 1 .. Len(s) /\ k - 1 \notin Bad
      BY <2>2, <3>2
    <3>6. k # 1 => f[k - 1] \in Seq(S)
      BY <3>5
    <3>7. f[k] \in Seq(S)
      BY <3>3, <3>4, <3>6, ConcatProperties
    <3> QED
      BY <3>7
  <2>4. f[Len(s)] \in Seq(S)
    BY <2>2, <2>3
  <2> QED
    BY <2>1, <2>4
<1> QED
  BY <1>1, <1>2

LEMMA FlattenAppend ==
  ASSUME NEW S, NEW s \in Seq(Seq(S)), NEW e \in Seq(S)
  PROVE  FlattenSeq(Append(s, e)) = FlattenSeq(s) \o e
<1> DEFINE t == Append(s, e)
           n == Len(s)
<1>1. /\ t \in Seq(Seq(S)) /\ t # <<>> /\ Len(t) = n + 1 /\ n \in Nat
      /\ \A i \in 1 .. n : t[i] = s[i]
      /\ t[n + 1] = e
  BY AppendProperties
<1> HIDE DEF t
<1>2. PICK g : Unfolds(g, t, n + 1) /\ FlattenSeq(t) = g[n + 1]
  BY <1>1, Flattens
<1>3. n + 1 \in 1 .. n + 1
  BY <1>1
<1>4. g[n + 1] = IF n + 1 = 1 THEN t[n + 1] ELSE g[n + 1 - 1] \o t[n + 1]
  <2>1. \A i \in 1 .. n + 1 : g[i] = IF i = 1 THEN t[i] ELSE g[i - 1] \o t[i]
    BY <1>2 DEF Unfolds
  <2> QED
    BY <1>3, <2>1
<1>5. CASE s = <<>>
  <2>1. n = 0
    BY <1>5
  <2>2. FlattenSeq(t) = e
    BY <1>1, <1>2, <1>4, <2>1
  <2>3. <<>> \o e = e
    OBVIOUS
  <2> QED
    BY <1>5, <2>2, <2>3, FlattenEmpty DEF t
<1>6. CASE s # <<>>
  <2>1. PICK f : Unfolds(f, s, n) /\ FlattenSeq(s) = f[n]
    BY <1>6, Flattens
  <2>2. n \in 1 .. n /\ n # 0
    BY <1>1, <1>6, EmptySeq
  <2>3. f[n] = g[n]
    <3> DEFINE Bad == {k \in 1 .. n : f[k] # g[k]}
    <3>1. SUFFICES ASSUME Bad # {} PROVE FALSE
      BY <2>2
    <3>2. Bad \subseteq Nat
      BY <1>1
    <3>3. PICK k \in Bad : \A j \in Bad : k <= j
      <4> HIDE DEF Bad
      <4> QED
        BY <3>1, <3>2, LeastExists
    <3>4. k \in 1 .. n /\ k \in 1 .. n + 1 /\ f[k] # g[k] /\ s[k] = t[k]
      BY <1>1
    <3>5. f[k] = IF k = 1 THEN s[k] ELSE f[k - 1] \o s[k]
      BY <2>1, <3>4 DEF Unfolds
    <3>6. g[k] = IF k = 1 THEN t[k] ELSE g[k - 1] \o t[k]
      BY <1>2, <3>4 DEF Unfolds
    <3>7. k # 1 => f[k - 1] = g[k - 1]
      <4>1. k # 1 => k - 1 \in 1 .. n /\ k - 1 \notin Bad
        BY <1>1, <3>3
      <4> QED
        BY <4>1
    <3> QED
      BY <3>4, <3>5, <3>6, <3>7
  <2>4. n + 1 # 1 /\ n + 1 - 1 = n
    BY <1>1, <2>2
  <2> QED
    BY <1>1, <1>2, <1>4, <2>1, <2>3, <2>4 DEF t
<1> QED
  BY <1>5, <1>6

LEMMA FlattenConcat ==
  ASSUME NEW S, NEW s \in Seq(Seq(S)), NEW u \in Seq(Seq(S))
  PROVE  FlattenSeq(s \o u) = FlattenSeq(s) \o FlattenSeq(u)
<1> DEFINE Fails(t) == FlattenSeq(s \o t) # FlattenSeq(s) \o FlattenSeq(t)
           Bad == {Len(t) : t \in {t \in Seq(Seq(S)) : Fails(t)}}
<1>1. SUFFICES ASSUME Fails(u) PROVE FALSE
  OBVIOUS
<1>2. Bad \subseteq Nat /\ Len(u) \in Bad
  BY <1>1, LenProperties
<1>3. PICK t \in Seq(Seq(S)) : Fails(t) /\ \A k \in Bad : Len(t) <= k
  <2>1. PICK n \in Bad : \A k \in Bad : n <= k
    <3> HIDE DEF Bad
    <3> QED
      BY <1>2, LeastExists
  <2> QED
    BY <2>1
<1>4. CASE t = <<>>
  <2>1. s \o t = s
    BY <1>4, ConcatEmptySeq
  <2>2. FlattenSeq(s) \o <<>> = FlattenSeq(s)
    BY FlattenType, ConcatEmptySeq
  <2>3. FlattenSeq(t) = <<>>
    BY <1>4, FlattenEmpty, Zenon
  <2> QED
    BY <1>3, <2>1, <2>2, <2>3
<1>5. CASE t # <<>>
  <2>1. PICK r \in Seq(Seq(S)), e \in Seq(S) : t = Append(r, e)
    BY <1>5, SequenceEmptyOrAppend
  <2>2. Len(r) \in Nat /\ Len(t) = Len(r) + 1
    BY <2>1, AppendProperties, LenProperties
  <2>3. ~Fails(r)
    <3>1. Fails(r) => Len(r) \in Bad
      OBVIOUS
    <3>2. ~(Len(t) <= Len(r))
      BY <2>2
    <3> QED
      BY <1>3, <3>1, <3>2
  <2>4. s \o t = Append(s \o r, e)
    <3>1. t = r \o <<e>> /\ <<e>> \in Seq(Seq(S))
      BY <2>1, AppendIsConcat
    <3>2. s \o t = (s \o r) \o <<e>>
      BY <3>1, ConcatAssociative
    <3>3. s \o r \in Seq(Seq(S))
      BY ConcatProperties
    <3> QED
      BY <3>2, <3>3, AppendIsConcat
  <2>5. FlattenSeq(s \o t) = FlattenSeq(s \o r) \o e
    <3>1. s \o r \in Seq(Seq(S))
      BY ConcatProperties
    <3> QED
      BY <2>4, <3>1, FlattenAppend
  <2>6. FlattenSeq(t) = FlattenSeq(r) \o e
    BY <2>1, FlattenAppend
  <2>7. (FlattenSeq(s) \o FlattenSeq(r)) \o e = FlattenSeq(s) \o (FlattenSeq(r) \o e)
    <3>1. FlattenSeq(s) \in Seq(S) /\ FlattenSeq(r) \in Seq(S)
      BY FlattenType
    <3> QED
      BY <3>1, ConcatAssociative, SMTT(20)
  <2> QED
    BY <1>3, <2>3, <2>5, <2>6, <2>7
<1> QED
  BY <1>4, <1>5

LEMMA FlattenHead ==
  ASSUME NEW S, NEW s \in Seq(Seq(S)), s # <<>>
  PROVE  FlattenSeq(s) = Head(s) \o FlattenSeq(Tail(s))
<1>1. /\ Head(s) \in Seq(S) /\ Tail(s) \in Seq(Seq(S))
  BY HeadTailProperties
<1>2. <<Head(s)>> \in Seq(Seq(S)) /\ s = <<Head(s)>> \o Tail(s)
  <2>1. 1 \in 1 .. Len(s) /\ Len(s) \in 1 .. Len(s)
    BY EmptySeq
  <2>2. SubSeq(s, 1, Len(s)) = <<s[1]>> \o SubSeq(s, 2, Len(s))
    BY <2>1, SubSeqRecursiveFirst
  <2>3. SubSeq(s, 1, Len(s)) = s /\ SubSeq(s, 2, Len(s)) = Tail(s)
    BY SubSeqFull, TailIsSubSeq
  <2>4. s[1] = Head(s)
    BY <2>1
  <2> QED
    BY <1>1, <2>2, <2>3, <2>4
<1>3. FlattenSeq(<<Head(s)>>) = Head(s)
  <2>1. <<Head(s)>> = Append(<<>>, Head(s)) /\ <<>> \in Seq(Seq(S))
    <3>1. <<>> \in Seq(Seq(S))
      OBVIOUS
    <3>2. Append(<<>>, Head(s)) = <<>> \o <<Head(s)>>
      BY <1>1, <3>1, AppendIsConcat
    <3> QED
      BY <1>2, <3>1, <3>2, ConcatEmptySeq
  <2>2. FlattenSeq(<<Head(s)>>) = FlattenSeq(<<>>) \o Head(s)
    BY <1>1, <2>1, FlattenAppend
  <2>3. <<>> \o Head(s) = Head(s)
    BY <1>1, ConcatEmptySeq
  <2> QED
    BY <2>2, <2>3, FlattenEmpty
<1> QED
  BY <1>1, <1>2, <1>3, FlattenConcat

-----------------------------------------------------------------------------
(* Beginnings and ends of a concatenation.                                 *)

LEMMA DropFirst ==
  ASSUME NEW S, NEW s \in Seq(S), NEW t \in Seq(S)
  PROVE  SubSeq(s \o t, Len(s) + 1, Len(s \o t)) = t
<1>1. /\ s \o t \in Seq(S) /\ Len(s \o t) = Len(s) + Len(t)
      /\ Len(s) \in Nat /\ Len(t) \in Nat
  BY ConcatProperties, LenProperties
<1>2. CASE t = <<>>
  BY <1>1, <1>2, SubSeqEmpty
<1>3. CASE t # <<>>
  <2>1. Len(t) >= 1
    BY <1>3, EmptySeq
  <2>2. /\ Len(s) + 1 \in Len(s) + 1 .. Len(s) + Len(t)
        /\ Len(s) + Len(t) \in Len(s) + 1 .. Len(s) + Len(t)
    BY <1>1, <2>1
  <2>3. SubSeq(s \o t, Len(s) + 1, Len(s) + Len(t))
          = SubSeq(t, Len(s) + 1 - Len(s), Len(s) + Len(t) - Len(s))
    BY <2>2, SubSeqOfConcat2
  <2>4. Len(s) + 1 - Len(s) = 1 /\ Len(s) + Len(t) - Len(s) = Len(t)
    BY <1>1
  <2> QED
    BY <1>1, <2>3, <2>4, SubSeqFull
<1> QED
  BY <1>2, <1>3

LEMMA TakeFirst ==
  ASSUME NEW S, NEW s \in Seq(S), NEW t \in Seq(S)
  PROVE  SubSeq(s \o t, 1, Len(s)) = s
<1>1. CASE s = <<>>
  BY <1>1, SubSeqEmpty
<1>2. CASE s # <<>>
  <2>1. 1 \in 1 .. Len(s) /\ Len(s) \in 1 .. Len(s)
    BY <1>2, EmptySeq
  <2> QED
    BY <2>1, SubSeqOfConcat1, SubSeqFull
<1> QED
  BY <1>1, <1>2

\* A sequence is what comes before a place in it and what comes after.
LEMMA Split ==
  ASSUME NEW S, NEW s \in Seq(S), NEW k \in 0 .. Len(s)
  PROVE  /\ SubSeq(s, 1, k) \in Seq(S) /\ Len(SubSeq(s, 1, k)) = k
         /\ SubSeq(s, k + 1, Len(s)) \in Seq(S)
         /\ Len(SubSeq(s, k + 1, Len(s))) = Len(s) - k
         /\ s = SubSeq(s, 1, k) \o SubSeq(s, k + 1, Len(s))
<1>1. Len(s) \in Nat /\ k \in Nat /\ k <= Len(s)
  BY LenProperties
<1>2. \A i \in 1 .. k : s[i] \in S
  BY <1>1
<1>3. \A i \in k + 1 .. Len(s) : s[i] \in S
  BY <1>1
<1>4. SubSeq(s, 1, k) \in Seq(S) /\ Len(SubSeq(s, 1, k)) = k
  BY <1>1, <1>2, SubSeqProperties
<1>5. /\ SubSeq(s, k + 1, Len(s)) \in Seq(S)
      /\ Len(SubSeq(s, k + 1, Len(s))) = Len(s) - k
  BY <1>1, <1>3, SubSeqProperties
<1>6. SubSeq(s, 1, k) \o SubSeq(s, k + 1, Len(s)) = SubSeq(s, 1, Len(s))
  <2>1. 1 \in 1 .. Len(s) + 1 /\ k \in 1 - 1 .. Len(s) /\ Len(s) \in k .. Len(s)
    BY <1>1
  <2> QED
    BY <2>1, ConcatAdjacentSubSeq
<1> QED
  BY <1>4, <1>5, <1>6, SubSeqFull

-----------------------------------------------------------------------------
(* What the elements of a sequence contribute, one after the other.        *)

Gather(f, s) == FlattenSeq([i \in 1 .. Len(s) |-> f[s[i]]])

LEMMA GatherEmpty ==
  ASSUME NEW f
  PROVE  Gather(f, <<>>) = <<>>
<1>1. [i \in 1 .. Len(<<>>) |-> f[<<>>[i]]] = <<>>
  OBVIOUS
<1> QED
  BY <1>1, FlattenEmpty, Zenon DEF Gather

LEMMA GatherType ==
  ASSUME NEW S, NEW T, NEW f \in [S -> Seq(T)], NEW s \in Seq(S)
  PROVE  Gather(f, s) \in Seq(T)
<1>1. [i \in 1 .. Len(s) |-> f[s[i]]] \in Seq(Seq(T))
  <2>1. Len(s) \in Nat /\ \A i \in 1 .. Len(s) : s[i] \in S
    BY ElementOfSeq, LenProperties
  <2>2. \A i \in 1 .. Len(s) : f[s[i]] \in Seq(T)
    BY <2>1
  <2> QED
    BY <2>1, <2>2
<1> QED
  BY <1>1, FlattenType DEF Gather

LEMMA GatherOne ==
  ASSUME NEW S, NEW T, NEW f \in [S -> Seq(T)], NEW e \in S
  PROVE  Gather(f, <<e>>) = f[e]
<1> DEFINE x == f[e]
<1>1. x \in Seq(T)
  OBVIOUS
<1>2. [i \in 1 .. Len(<<e>>) |-> f[<<e>>[i]]] = <<x>>
  OBVIOUS
<1> HIDE DEF x
<1>3. <<x>> = Append(<<>>, x) /\ <<>> \in Seq(Seq(T))
  <2>1. <<>> \in Seq(Seq(T))
    OBVIOUS
  <2> QED
    BY <1>1, <2>1, AppendIsConcat, ConcatEmptySeq
<1>4. FlattenSeq(<<x>>) = FlattenSeq(<<>>) \o x
  BY <1>1, <1>3, FlattenAppend
<1>5. <<>> \o x = x
  BY <1>1, ConcatEmptySeq
<1> QED
  BY <1>2, <1>4, <1>5, FlattenEmpty, Zenon DEF Gather, x

LEMMA GatherConcat ==
  ASSUME NEW S, NEW T, NEW f \in [S -> Seq(T)], NEW s \in Seq(S), NEW t \in Seq(S)
  PROVE  Gather(f, s \o t) = Gather(f, s) \o Gather(f, t)
<1> DEFINE a == [i \in 1 .. Len(s) |-> f[s[i]]]
           b == [i \in 1 .. Len(t) |-> f[t[i]]]
           c == [i \in 1 .. Len(s \o t) |-> f[(s \o t)[i]]]
<1>1. /\ s \o t \in Seq(S) /\ Len(s \o t) = Len(s) + Len(t)
      /\ Len(s) \in Nat /\ Len(t) \in Nat
      /\ \A i \in 1 .. Len(s) + Len(t) :
           (s \o t)[i] = IF i <= Len(s) THEN s[i] ELSE t[i - Len(s)]
  BY ConcatProperties, LenProperties
<1>2. /\ \A i \in 1 .. Len(s) : s[i] \in S
      /\ \A i \in 1 .. Len(t) : t[i] \in S
      /\ \A i \in 1 .. Len(s \o t) : (s \o t)[i] \in S
  BY <1>1, ElementOfSeq
<1>3. /\ a \in Seq(Seq(T)) /\ Len(a) = Len(s)
      /\ \A i \in 1 .. Len(s) : a[i] = f[s[i]]
  BY <1>1, <1>2
<1>4. /\ b \in Seq(Seq(T)) /\ Len(b) = Len(t)
      /\ \A i \in 1 .. Len(t) : b[i] = f[t[i]]
  BY <1>1, <1>2
<1>5. /\ c \in Seq(Seq(T)) /\ Len(c) = Len(s) + Len(t)
      /\ \A i \in 1 .. Len(s) + Len(t) : c[i] = f[(s \o t)[i]]
  BY <1>1, <1>2
<1> HIDE DEF a, b, c
<1>6. c = a \o b
  <2>1. /\ a \o b \in Seq(Seq(T)) /\ Len(a \o b) = Len(s) + Len(t)
        /\ \A i \in 1 .. Len(s) + Len(t) :
             (a \o b)[i] = IF i <= Len(s) THEN a[i] ELSE b[i - Len(s)]
    <3>1. /\ a \o b \in Seq(Seq(T)) /\ Len(a \o b) = Len(a) + Len(b)
          /\ \A i \in 1 .. Len(a) + Len(b) :
               (a \o b)[i] = IF i <= Len(a) THEN a[i] ELSE b[i - Len(a)]
      BY <1>3, <1>4, ConcatProperties, ZenonT(30)
    <3> QED
      BY <1>3, <1>4, <3>1
  <2>2. ASSUME NEW i \in 1 .. Len(s) + Len(t) PROVE c[i] = (a \o b)[i]
    <3>1. CASE i <= Len(s)
      <4>1. i \in 1 .. Len(s)
        BY <1>1, <3>1
      <4> QED
        BY <1>1, <1>3, <1>5, <2>1, <3>1, <4>1
    <3>2. CASE ~(i <= Len(s))
      <4>1. i - Len(s) \in 1 .. Len(t)
        BY <1>1, <3>2
      <4>2. (a \o b)[i] = b[i - Len(s)] /\ b[i - Len(s)] = f[t[i - Len(s)]]
        BY <1>4, <2>1, <3>2, <4>1
      <4>3. c[i] = f[(s \o t)[i]] /\ (s \o t)[i] = t[i - Len(s)]
        BY <1>1, <1>5, <3>2
      <4> QED
        BY <4>2, <4>3, Zenon
    <3> QED
      BY <3>1, <3>2
  <2> QED
    <3>1. Len(c) = Len(a \o b) /\ \A i \in 1 .. Len(c) : c[i] = (a \o b)[i]
      BY <1>5, <2>1, <2>2
    <3> QED
      BY <1>5, <2>1, <3>1, SeqEqual, Zenon
<1>7. FlattenSeq(a \o b) = FlattenSeq(a) \o FlattenSeq(b)
  BY <1>3, <1>4, FlattenConcat
<1> QED
  BY <1>6, <1>7 DEF Gather, a, b, c

\* Two sequences are equal if they have the same length and elements.
LEMMA TwoOf ==
  ASSUME NEW a, NEW b
  PROVE  <<a>> \o <<b>> = <<a, b>>
<1> DEFINE S == {a, b}
           s == <<a>>
           t == <<b>>
           u == <<a, b>>
<1>1. s \in Seq(S) /\ t \in Seq(S) /\ u \in Seq(S) /\ Len(s) = 1 /\ Len(t) = 1 /\ Len(u) = 2
      /\ s[1] = a /\ t[1] = b /\ u[1] = a /\ u[2] = b
  OBVIOUS
<1> HIDE DEF s, t, u
<1>2. /\ s \o t \in Seq(S) /\ Len(s \o t) = 2
      /\ (s \o t)[1] = s[1] /\ (s \o t)[2] = t[1]
  <2>1. /\ s \o t \in Seq(S) /\ Len(s \o t) = Len(s) + Len(t)
        /\ \A i \in 1 .. Len(s) + Len(t) :
             (s \o t)[i] = IF i <= Len(s) THEN s[i] ELSE t[i - Len(s)]
    BY <1>1, ConcatProperties, Zenon
  <2> QED
    BY <2>1, <1>1
<1>3. Len(s \o t) = Len(u) /\ \A i \in 1 .. Len(s \o t) : (s \o t)[i] = u[i]
  BY <1>1, <1>2
<1>4. s \o t = u
  BY <1>1, <1>2, <1>3, SeqEqual, Zenon
<1> QED
  BY <1>4 DEF s, t, u

LEMMA ThreeOf ==
  ASSUME NEW a, NEW b, NEW c
  PROVE  <<a>> \o <<b, c>> = <<a, b, c>>
<1> DEFINE S == {a, b, c}
           s == <<a>>
           t == <<b, c>>
           u == <<a, b, c>>
<1>1. s \in Seq(S) /\ t \in Seq(S) /\ u \in Seq(S) /\ Len(s) = 1 /\ Len(t) = 2 /\ Len(u) = 3
      /\ s[1] = a /\ t[1] = b /\ t[2] = c /\ u[1] = a /\ u[2] = b /\ u[3] = c
  OBVIOUS
<1> HIDE DEF s, t, u
<1>2. /\ s \o t \in Seq(S) /\ Len(s \o t) = 3
      /\ (s \o t)[1] = s[1] /\ (s \o t)[2] = t[1] /\ (s \o t)[3] = t[2]
  <2>1. /\ s \o t \in Seq(S) /\ Len(s \o t) = Len(s) + Len(t)
        /\ \A i \in 1 .. Len(s) + Len(t) :
             (s \o t)[i] = IF i <= Len(s) THEN s[i] ELSE t[i - Len(s)]
    BY <1>1, ConcatProperties, Zenon
  <2> QED
    BY <2>1, <1>1
<1>3. Len(s \o t) = Len(u) /\ \A i \in 1 .. Len(s \o t) : (s \o t)[i] = u[i]
  BY <1>1, <1>2
<1>4. s \o t = u
  BY <1>1, <1>2, <1>3, SeqEqual, Zenon
<1> QED
  BY <1>4 DEF s, t, u

-----------------------------------------------------------------------------
(* Two ways to cut one sequence.                                           *)

LEMMA FirstAndRest ==
  ASSUME NEW S, NEW s \in Seq(S), s # <<>>
  PROVE  /\ Head(s) \in S /\ Tail(s) \in Seq(S)
         /\ <<Head(s)>> \in Seq(S) /\ s = <<Head(s)>> \o Tail(s)
<1>1. Head(s) \in S /\ Tail(s) \in Seq(S)
  BY HeadTailProperties
<1>2. <<Head(s)>> \in Seq(S)
  BY <1>1
<1>3. 1 \in 1 .. Len(s) /\ Len(s) \in 1 .. Len(s)
  BY EmptySeq, LenProperties
<1>4. SubSeq(s, 1, Len(s)) = <<s[1]>> \o SubSeq(s, 2, Len(s))
  BY <1>3, SubSeqRecursiveFirst
<1>5. SubSeq(s, 1, Len(s)) = s /\ SubSeq(s, 2, Len(s)) = Tail(s)
  BY SubSeqFull, TailIsSubSeq
<1>6. s[1] = Head(s)
  BY <1>3
<1> QED
  BY <1>1, <1>2, <1>4, <1>5, <1>6

LEMMA SeqWithin ==
  ASSUME NEW S, NEW X, NEW s \in Seq(S)
  PROVE  s \in Seq(X) <=> \A i \in 1 .. Len(s) : s[i] \in X
<1>1. ASSUME s \in Seq(X), NEW i \in 1 .. Len(s) PROVE s[i] \in X
  BY <1>1, ElementOfSeq
<1>2. ASSUME \A i \in 1 .. Len(s) : s[i] \in X PROVE s \in Seq(X)
  BY <1>2
<1> QED
  BY <1>1, <1>2

LEMMA ConcatWithin ==
  ASSUME NEW S, NEW X, NEW a \in Seq(S), NEW b \in Seq(S)
  PROVE  a \o b \in Seq(X) <=> a \in Seq(X) /\ b \in Seq(X)
<1>1. ASSUME a \in Seq(X), b \in Seq(X) PROVE a \o b \in Seq(X)
  BY <1>1, ConcatProperties
<1>2. ASSUME a \o b \in Seq(X) PROVE a \in Seq(X) /\ b \in Seq(X)
  <2>1. /\ Len(a) \in Nat /\ Len(b) \in Nat
        /\ Len(a \o b) = Len(a) + Len(b)
        /\ \A i \in 1 .. Len(a) + Len(b) :
             (a \o b)[i] = IF i <= Len(a) THEN a[i] ELSE b[i - Len(a)]
    BY ConcatProperties, LenProperties
  <2> DEFINE c == a \o b
  <2>2. \A i \in 1 .. Len(c) : c[i] \in X
    BY <1>2, ElementOfSeq
  <2> HIDE DEF c
  <2>3. ASSUME NEW i \in 1 .. Len(a) PROVE a[i] \in X
    <3>1. i \in 1 .. Len(c) /\ c[i] = a[i]
      BY <2>1 DEF c
    <3> QED
      BY <2>2, <3>1
  <2>4. ASSUME NEW i \in 1 .. Len(b) PROVE b[i] \in X
    <3>1. Len(a) + i \in 1 .. Len(c) /\ c[Len(a) + i] = b[i]
      BY <2>1 DEF c
    <3> QED
      BY <2>2, <3>1
  <2> QED
    BY <2>3, <2>4, SeqWithin
<1> QED
  BY <1>1, <1>2

\* The sequence s has a part in X and then a part in Y.
Parts(s, X, Y) ==
  \E k \in 0 .. Len(s) :
    (\A i \in 1 .. k : s[i] \in X) /\ \A i \in k + 1 .. Len(s) : s[i] \in Y

LEMMA IndexOfConcat ==
  ASSUME NEW S, NEW s \in Seq(S), NEW t \in Seq(S)
  PROVE  /\ Len(s) \in Nat /\ Len(t) \in Nat /\ Len(s \o t) = Len(s) + Len(t)
         /\ s \o t \in Seq(S)
         /\ \A i \in 1 .. Len(s) : (s \o t)[i] = s[i]
         /\ \A i \in 1 .. Len(t) : (s \o t)[Len(s) + i] = t[i]
<1>1. /\ Len(s) \in Nat /\ Len(t) \in Nat /\ s \o t \in Seq(S)
      /\ Len(s \o t) = Len(s) + Len(t)
      /\ \A i \in 1 .. Len(s) + Len(t) :
           (s \o t)[i] = IF i <= Len(s) THEN s[i] ELSE t[i - Len(s)]
  BY ConcatProperties, LenProperties
<1> QED
  BY <1>1

LEMMA PartsOfOne ==
  ASSUME NEW S, NEW X, NEW Y, NEW s \in Seq(S), s \in Seq(X) \/ s \in Seq(Y)
  PROVE  Parts(s, X, Y)
<1>1. Len(s) \in Nat
  BY LenProperties
<1>2. CASE s \in Seq(X)
  <2>1. \A i \in 1 .. Len(s) : s[i] \in X
    BY <1>2, SeqWithin
  <2> QED
    BY <1>1, <2>1 DEF Parts
<1>3. CASE s \in Seq(Y)
  <2>1. \A i \in 1 .. Len(s) : s[i] \in Y
    BY <1>3, SeqWithin
  <2> QED
    BY <1>1, <2>1 DEF Parts
<1> QED
  BY <1>2, <1>3

LEMMA PartsAfter ==
  ASSUME NEW S, NEW X, NEW Y, NEW s \in Seq(S), NEW t \in Seq(S),
         Parts(s, X, Y), t \in Seq(Y)
  PROVE  Parts(s \o t, X, Y)
<1> DEFINE c == s \o t
<1>1. /\ Len(s) \in Nat /\ Len(t) \in Nat /\ Len(c) = Len(s) + Len(t)
      /\ \A i \in 1 .. Len(s) : c[i] = s[i]
      /\ \A i \in 1 .. Len(t) : c[Len(s) + i] = t[i]
  BY IndexOfConcat
<1>2. \A i \in 1 .. Len(t) : t[i] \in Y
  BY SeqWithin
<1>3. PICK k \in 0 .. Len(s) :
        (\A i \in 1 .. k : s[i] \in X) /\ \A i \in k + 1 .. Len(s) : s[i] \in Y
  BY DEF Parts
<1> HIDE DEF c
<1>4. \A i \in 1 .. k : c[i] \in X
  BY <1>1, <1>3
<1>5. ASSUME NEW i \in k + 1 .. Len(c) PROVE c[i] \in Y
  <2>1. CASE i <= Len(s)
    BY <1>1, <1>3, <2>1
  <2>2. CASE i > Len(s)
    <3>1. i - Len(s) \in 1 .. Len(t) /\ i = Len(s) + (i - Len(s))
      BY <1>1, <2>2
    <3> QED
      BY <1>1, <1>2, <3>1
  <2> QED
    BY <1>1, <2>1, <2>2
<1>6. k \in 0 .. Len(c)
  BY <1>1
<1>7. Parts(c, X, Y)
  BY <1>4, <1>5, <1>6 DEF Parts
<1> QED
  BY <1>7 DEF c

LEMMA PartsRest ==
  ASSUME NEW S, NEW X, NEW Y, NEW s \in Seq(S), NEW t \in Seq(S),
         Parts(s \o t, X, Y)
  PROVE  \/ s \in Seq(X) /\ Parts(t, X, Y)
         \/ Parts(s, X, Y) /\ t \in Seq(Y)
<1> DEFINE c == s \o t
<1>1. /\ Len(s) \in Nat /\ Len(t) \in Nat /\ Len(c) = Len(s) + Len(t)
      /\ \A i \in 1 .. Len(s) : c[i] = s[i]
      /\ \A i \in 1 .. Len(t) : c[Len(s) + i] = t[i]
  BY IndexOfConcat
<1>2. PICK k \in 0 .. Len(c) :
        (\A i \in 1 .. k : c[i] \in X) /\ \A i \in k + 1 .. Len(c) : c[i] \in Y
  BY DEF Parts
<1> HIDE DEF c
<1>3. CASE k <= Len(s)
  <2>1. k \in 0 .. Len(s)
    BY <1>1, <1>2, <1>3
  <2>4. \A i \in 1 .. k : s[i] \in X
    BY <1>1, <1>2, <1>3
  <2>5. \A i \in k + 1 .. Len(s) : s[i] \in Y
    BY <1>1, <1>2, <1>3
  <2>2. ASSUME NEW i \in 1 .. Len(t) PROVE t[i] \in Y
    <3>1. Len(s) + i \in k + 1 .. Len(c)
      BY <1>1, <1>3
    <3> QED
      BY <1>1, <1>2, <3>1
  <2>3. t \in Seq(Y)
    BY <2>2, SeqWithin
  <2> QED
    BY <2>1, <2>4, <2>5, <2>3 DEF Parts
<1>4. CASE k > Len(s)
  <2>1. \A i \in 1 .. Len(s) : s[i] \in X
    BY <1>1, <1>2, <1>4
  <2>2. s \in Seq(X)
    BY <2>1, SeqWithin
  <2> DEFINE n == k - Len(s)
  <2>3. n \in 0 .. Len(t)
    BY <1>1, <1>2, <1>4
  <2>4. ASSUME NEW i \in 1 .. n PROVE t[i] \in X
    <3>1. Len(s) + i \in 1 .. k /\ i \in 1 .. Len(t)
      BY <1>1, <1>4, <2>3
    <3> QED
      BY <1>1, <1>2, <3>1
  <2>5. ASSUME NEW i \in n + 1 .. Len(t) PROVE t[i] \in Y
    <3>1. Len(s) + i \in k + 1 .. Len(c) /\ i \in 1 .. Len(t)
      BY <1>1, <1>4, <2>3
    <3> QED
      BY <1>1, <1>2, <3>1
  <2> HIDE DEF n
  <2> QED
    BY <2>2, <2>3, <2>4, <2>5 DEF Parts
<1> QED
  BY <1>1, <1>2, <1>3, <1>4

LEMMA PartsSplit ==
  ASSUME NEW S, NEW X, NEW Y, NEW s \in Seq(S), Parts(s, X, Y)
  PROVE  \E a, b \in Seq(S) : s = a \o b /\ a \in Seq(X) /\ b \in Seq(Y)
<1>1. PICK k \in 0 .. Len(s) :
        (\A i \in 1 .. k : s[i] \in X) /\ \A i \in k + 1 .. Len(s) : s[i] \in Y
  BY Zenon DEF Parts
<1> DEFINE a == SubSeq(s, 1, k)
           b == SubSeq(s, k + 1, Len(s))
<1>2. a \in Seq(S) /\ Len(a) = k /\ b \in Seq(S) /\ Len(b) = Len(s) - k /\ s = a \o b
  BY Split, ZenonT(30)
<1> HIDE DEF a, b
<1>3. /\ Len(s) \in Nat
      /\ \A i \in 1 .. Len(a) : s[i] = a[i]
      /\ \A i \in 1 .. Len(b) : s[Len(a) + i] = b[i]
  BY <1>2, IndexOfConcat, LenProperties
<1>4. \A i \in 1 .. Len(a) : a[i] \in X
  BY <1>1, <1>2, <1>3
<1>5. ASSUME NEW i \in 1 .. Len(b) PROVE b[i] \in Y
  <2>1. k + i \in k + 1 .. Len(s)
    BY <1>1, <1>2, <1>3
  <2> QED
    BY <1>1, <1>2, <1>3, <2>1
<1>6. a \in Seq(X) /\ b \in Seq(Y)
  BY <1>2, <1>4, <1>5, SeqWithin
<1> QED
  BY <1>2, <1>6

LEMMA PartsJoin ==
  ASSUME NEW S, NEW X, NEW Y, NEW s \in Seq(S), NEW t \in Seq(S),
         s \in Seq(X), Parts(t, X, Y)
  PROVE  Parts(s \o t, X, Y)
<1>1. PICK a \in Seq(S), b \in Seq(S) : t = a \o b /\ a \in Seq(X) /\ b \in Seq(Y)
  BY PartsSplit
<1>2. s \o t = (s \o a) \o b
  BY <1>1, ConcatAssociative, SMTT(20)
<1>3. s \o a \in Seq(X) /\ s \o a \in Seq(S)
  BY <1>1, ConcatProperties
<1>4. Parts(s \o a, X, Y)
  BY <1>3, PartsOfOne
<1>5. Parts((s \o a) \o b, X, Y)
  BY <1>1, <1>3, <1>4, PartsAfter
<1> QED
  BY <1>2, <1>5

LEMMA PartsTail ==
  ASSUME NEW S, NEW X, NEW Y, NEW s \in Seq(S), s # <<>>, Parts(s, X, Y)
  PROVE  \/ Head(s) \in X /\ Parts(Tail(s), X, Y)
         \/ Head(s) \in Y /\ s \in Seq(Y) /\ Tail(s) \in Seq(Y) /\ Parts(Tail(s), X, Y)
<1>1. PICK k \in 0 .. Len(s) :
        (\A i \in 1 .. k : s[i] \in X) /\ \A i \in k + 1 .. Len(s) : s[i] \in Y
  BY DEF Parts
<1>2. Len(s) \in Nat /\ Len(s) >= 1 /\ Head(s) = s[1] /\ Tail(s) \in Seq(S)
      /\ Len(Tail(s)) = Len(s) - 1 /\ \A i \in 1 .. Len(Tail(s)) : Tail(s)[i] = s[i + 1]
  BY EmptySeq, LenProperties, HeadTailProperties
<1>3. CASE k = 0
  <2>1. \A i \in 1 .. Len(s) : s[i] \in Y
    BY <1>1, <1>3
  <2>2. \A i \in 1 .. Len(Tail(s)) : Tail(s)[i] \in Y
    BY <1>2, <2>1
  <2>3. s \in Seq(Y) /\ Tail(s) \in Seq(Y)
    BY <1>2, <2>1, <2>2, SeqWithin
  <2>4. Parts(Tail(s), X, Y)
    BY <1>2, <2>3, PartsOfOne
  <2> QED
    BY <1>2, <2>1, <2>3, <2>4
<1>4. CASE k # 0
  <2>1. Head(s) \in X
    BY <1>1, <1>2, <1>4
  <2>2. k - 1 \in 0 .. Len(Tail(s))
    BY <1>1, <1>2, <1>4
  <2>3. \A i \in 1 .. k - 1 : Tail(s)[i] \in X
    BY <1>1, <1>2, <1>4
  <2>4. \A i \in (k - 1) + 1 .. Len(Tail(s)) : Tail(s)[i] \in Y
    BY <1>1, <1>2, <1>4
  <2> QED
    BY <2>1, <2>2, <2>3, <2>4 DEF Parts
<1> QED
  BY <1>3, <1>4

LEMMA TailWithin ==
  ASSUME NEW S, NEW X, NEW s \in Seq(S), s # <<>>, s \in Seq(X)
  PROVE  Head(s) \in X /\ Tail(s) \in Seq(X)
BY HeadTailProperties

LEMMA OneWithin ==
  ASSUME NEW X, NEW e
  PROVE  <<e>> \in Seq(X) <=> e \in X
<1>1. ASSUME <<e>> \in Seq(X) PROVE e \in X
  <2>1. Len(<<e>>) = 1 /\ <<e>>[1] = e
    OBVIOUS
  <2> QED
    BY <1>1, <2>1, ElementOfSeq
<1> QED
  BY <1>1

LEMMA PartsWithin ==
  ASSUME NEW S, NEW X, NEW Y, NEW A, NEW B, NEW s \in Seq(S), Parts(s, X, Y),
         X \subseteq A, Y \subseteq B
  PROVE  Parts(s, A, B)
BY DEF Parts
=============================================================================
