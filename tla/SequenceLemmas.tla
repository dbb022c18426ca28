---------------------------- MODULE SequenceLemmas ----------------------------
(***************************************************************************)
(* Induction over numbers in terms of sets, and what follows from it for   *)
(* the operators on sequences that are defined by recursion (FlattenSeq)   *)
(* or by the least index (SelectInSeq).                                    *)
(***************************************************************************)
EXTENDS Integers, Sequences, SequencesExt, SequenceTheorems, WellFoundedInduction, TLAPS

(* Every set of natural numbers has a least element.                       *)
LEMMA LeastElement ==
    ASSUME NEW T \in SUBSET Nat, T # {}
    PROVE  \E m \in T : \A n \in T : m <= n
<1>1. PICK m \in T : \A n \in T : ~(<<n, m>> \in OpToRel(<, Nat))
    BY NatLessThanWellFounded, WFMin
<1>2. \A n \in T : ~(n < m)
    BY <1>1 DEF OpToRel
<1> QED BY <1>2

(* And a bounded one has a greatest one.                                   *)
LEMMA GreatestElement ==
    ASSUME NEW n \in Nat, NEW T \in SUBSET (1 .. n), T # {}
    PROVE  \E m \in T : \A i \in T : m >= i
<1> DEFINE B == {k \in Nat : \A i \in T : k >= i}
<1>1. n \in B
    OBVIOUS
<1>2. PICK k \in B : \A j \in B : k <= j
    BY <1>1, LeastElement
<1>3. k # 0
    <2>1. PICK i \in T : TRUE
        OBVIOUS
    <2>2. k >= i /\ i >= 1
        BY <1>2
    <2> QED BY <1>2, <2>2
<1>4. k - 1 \in Nat /\ k - 1 \notin B
    BY <1>2, <1>3
<1>5. PICK m \in T : ~(k - 1 >= m)
    BY <1>4
<1>6. m = k
    BY <1>2, <1>5
<1> QED BY <1>2, <1>6

(* Which element Min and Max choose.                                       *)
LEMMA MinIs ==
    ASSUME NEW T \in SUBSET Int, NEW m \in T, \A i \in T : m <= i
    PROVE  Min(T) = m
<1>1. \A x \in T : (\A y \in T : x <= y) => x = m
    OBVIOUS
<1> QED BY <1>1 DEF Min

(* The same from above.                                                    *)
LEMMA MaxIs ==
    ASSUME NEW T \in SUBSET Int, NEW m \in T, \A i \in T : m >= i
    PROVE  Max(T) = m
<1>1. \A x \in T : (\A y \in T : x >= y) => x = m
    OBVIOUS
<1> QED BY <1>1 DEF Max

(* The indices where something holds, and the induction from one of them.  *)
LEMMA UpwardInduction ==
    ASSUME NEW m \in Nat, NEW n \in Nat, NEW T,
           m \in T, \A i \in m .. n - 1 : i \in T => i + 1 \in T
    PROVE  \A i \in m .. n : i \in T
<1> SUFFICES ASSUME (m .. n) \ T # {} PROVE FALSE
    OBVIOUS
<1>1. (m .. n) \ T \in SUBSET Nat
    OBVIOUS
<1>2. PICK k \in (m .. n) \ T : \A i \in (m .. n) \ T : k <= i
    BY <1>1, LeastElement
<1>3. k # m /\ k - 1 \in m .. n - 1
    BY <1>2
<1>4. k - 1 \in T
    BY <1>2, <1>3
<1> QED BY <1>2, <1>3, <1>4

-------------------------------------------------------------------------------
(* FlattenSeq *)

(* f[i] is the concatenation of the first i sequences of s.                *)
Flattens(f, s) ==
    /\ s # <<>> => f[1] = s[1]
    /\ \A i \in 1 .. Len(s) - 1 : f[i + 1] = f[i] \o s[i + 1]

(* Such a function exists for the first n elements, whatever n is.         *)
LEMMA FlatteningExists ==
    ASSUME NEW S, NEW s \in Seq(Seq(S))
    PROVE  \E f : f = [i \in 1 .. Len(s) |-> IF i = 1 THEN s[i] ELSE f[i - 1] \o s[i]]
<1> DEFINE Until(f, n) == f = [i \in 1 .. n |-> IF i = 1 THEN s[i] ELSE f[i - 1] \o s[i]]
           T == {n \in Nat : \E f : Until(f, n)}
<1>1. 0 \in T
    <2>1. Until([i \in {} |-> s[i]], 0)
        OBVIOUS
    <2> QED BY <2>1
<1>2. ASSUME NEW n \in 0 .. Len(s) - 1, n \in T PROVE n + 1 \in T
    <2>1. PICK f : Until(f, n)
        BY <1>2
    <2> DEFINE g == [i \in 1 .. n + 1 |->
                        IF i <= n THEN f[i] ELSE IF i = 1 THEN s[i] ELSE f[i - 1] \o s[i]]
    <2>2. Until(g, n + 1)
        <3>1. \A i \in 1 .. n : f[i] = IF i = 1 THEN s[i] ELSE f[i - 1] \o s[i]
            BY <2>1
        <3>2. \A i \in 1 .. n + 1 : i # 1 => g[i - 1] = f[i - 1]
            BY <1>2
        <3>3. \A i \in 1 .. n + 1 : g[i] = IF i = 1 THEN s[i] ELSE g[i - 1] \o s[i]
            BY <3>1, <3>2
        <3> QED BY <3>3
    <2>3. \E h : Until(h, n + 1)
        <3> HIDE DEF Until
        <3> QED BY <2>2
    <2>4. n + 1 \in Nat
        BY <1>2
    <2> HIDE DEF Until
    <2> QED BY <2>3, <2>4
<1>3. Len(s) \in Nat /\ 0 \in Nat
    OBVIOUS
<1> HIDE DEF T
<1>4. \A n \in 0 .. Len(s) : n \in T
    BY <1>1, <1>2, <1>3, UpwardInduction
<1>5. Len(s) \in T
    BY <1>3, <1>4
<1> QED BY <1>5 DEF T

(* FlattenSeq is the last value of one.                                    *)
LEMMA FlattenSeqFlattens ==
    ASSUME NEW S, NEW s \in Seq(Seq(S)), s # <<>>
    PROVE  \E f : Flattens(f, s) /\ FlattenSeq(s) = f[Len(s)]
<1> DEFINE f == CHOOSE f : f = [i \in 1 .. Len(s) |-> IF i = 1 THEN s[i] ELSE f[i - 1] \o s[i]]
<1>1. Len(s) # 0
    OBVIOUS
<1>2. FlattenSeq(s) = f[Len(s)]
    BY <1>1 DEF FlattenSeq
<1>3. f = [i \in 1 .. Len(s) |-> IF i = 1 THEN s[i] ELSE f[i - 1] \o s[i]]
    BY FlatteningExists
<1> HIDE DEF f
<1>4. Flattens(f, s)
    <2>1. \A i \in 1 .. Len(s) : f[i] = IF i = 1 THEN s[i] ELSE f[i - 1] \o s[i]
        BY <1>3
    <2>2. f[1] = s[1]
        BY <1>1, <2>1
    <2>3. ASSUME NEW i \in 1 .. Len(s) - 1 PROVE f[i + 1] = f[i] \o s[i + 1]
        <3>1. i + 1 \in 1 .. Len(s) /\ i + 1 # 1 /\ (i + 1) - 1 = i
            OBVIOUS
        <3>2. f[i + 1] = f[(i + 1) - 1] \o s[i + 1]
            BY <2>1, <3>1
        <3> QED BY <3>1, <3>2
    <2> QED BY <2>2, <2>3 DEF Flattens
<1> QED BY <1>2, <1>4

(* What is known of one element after the other is known of a sequence.    *)
LEMMA AppendInduction ==
    ASSUME NEW S, NEW T, <<>> \in T, \A s \in Seq(S), e \in S : s \in T => Append(s, e) \in T
    PROVE  Seq(S) \subseteq T
<1> DEFINE N == {n \in Nat : \A s \in Seq(S) : Len(s) = n => s \in T}
<1>1. 0 \in N
    OBVIOUS
<1>2. ASSUME NEW n \in Nat, n \in N PROVE n + 1 \in N
    <2> SUFFICES ASSUME NEW s \in Seq(S), Len(s) = n + 1 PROVE s \in T
        OBVIOUS
    <2> DEFINE front == SubSeq(s, 1, n)
    <2>1. \A i \in 1 .. n : s[i] \in S
        OBVIOUS
    <2>2. front \in Seq(S) /\ Len(front) = n /\ \A i \in 1 .. n : front[i] = s[i]
        BY <2>1
    <2>3. s[n + 1] \in S
        OBVIOUS
    <2> HIDE DEF front
    <2>4. s = Append(front, s[n + 1])
        <3>1. Append(front, s[n + 1]) \in Seq(S)
            BY <2>2, <2>3
        <3>2. Len(Append(front, s[n + 1])) = n + 1
            BY <2>2
        <3>3. \A i \in 1 .. n + 1 : Append(front, s[n + 1])[i] = s[i]
            BY <2>2
        <3> QED BY <3>1, <3>2, <3>3, SeqEqual
    <2>5. front \in T
        BY <1>2, <2>2
    <2> QED BY <2>2, <2>3, <2>4, <2>5
<1> HIDE DEF N
<1>3. ASSUME NEW s \in Seq(S) PROVE Len(s) \in N
    <2>1. 0 \in Nat /\ Len(s) \in Nat
        OBVIOUS
    <2>2. \A i \in 0 .. Len(s) - 1 : i \in N => i + 1 \in N
        BY <1>2
    <2>3. \A i \in 0 .. Len(s) : i \in N
        BY <1>1, <2>1, <2>2, UpwardInduction
    <2> QED BY <2>1, <2>3
<1> QED BY <1>3 DEF N

(* How FlattenSeq grows.                                                   *)
LEMMA FlattenEmpty == FlattenSeq(<<>>) = <<>>
BY DEF FlattenSeq

(* What is appended comes last.                                            *)
LEMMA FlattenAppend ==
    ASSUME NEW S, NEW s \in Seq(Seq(S)), NEW e \in Seq(S)
    PROVE  FlattenSeq(Append(s, e)) = FlattenSeq(s) \o e
<1> DEFINE t == Append(s, e)
<1>1. /\ t \in Seq(Seq(S)) /\ t # <<>> /\ Len(t) = Len(s) + 1
      /\ t[Len(s) + 1] = e /\ \A i \in 1 .. Len(s) : t[i] = s[i]
    <2>1. s \in Seq(Seq(S)) /\ Len(s) \in Nat
        OBVIOUS
    <2>2. t \in Seq(Seq(S)) /\ Len(t) = Len(s) + 1
        OBVIOUS
    <2>3. t[Len(s) + 1] = e /\ \A i \in 1 .. Len(s) : t[i] = s[i]
        OBVIOUS
    <2>4. t # <<>>
        BY <2>1, <2>2
    <2> QED BY <2>2, <2>3, <2>4
<1> HIDE DEF t
<1>2. PICK g : Flattens(g, t) /\ FlattenSeq(t) = g[Len(t)]
    BY <1>1, FlattenSeqFlattens
<1>3. CASE s = <<>>
    <2>1. FlattenSeq(t) = e
        BY <1>1, <1>2, <1>3 DEF Flattens
    <2> QED BY <1>3, <2>1, FlattenEmpty DEF t
<1>4. CASE s # <<>>
    <2>1. PICK f : Flattens(f, s) /\ FlattenSeq(s) = f[Len(s)]
        BY <1>4, FlattenSeqFlattens
    <2> DEFINE T == {i \in 1 .. Len(s) : f[i] = g[i]}
    <2>2. 1 \in T /\ 1 \in Nat /\ Len(s) \in Nat
        BY <1>1, <1>2, <1>4, <2>1 DEF Flattens
    <2>3. ASSUME NEW i \in 1 .. Len(s) - 1, i \in T PROVE i + 1 \in T
        <3>1. i + 1 \in 1 .. Len(s) /\ i \in 1 .. Len(t) - 1
            BY <1>1
        <3>2. f[i + 1] = f[i] \o s[i + 1] /\ g[i + 1] = g[i] \o t[i + 1]
            BY <1>2, <2>1, <3>1 DEF Flattens
        <3> QED BY <1>1, <2>3, <3>1, <3>2
    <2> HIDE DEF T
    <2>4. \A i \in 1 .. Len(s) : i \in T
        BY <2>2, <2>3, UpwardInduction
    <2>5. f[Len(s)] = g[Len(s)]
        BY <1>4, <2>4 DEF T
    <2>6. Len(s) \in 1 .. Len(t) - 1
        BY <1>1, <1>4
    <2>7. g[Len(s) + 1] = g[Len(s)] \o t[Len(s) + 1]
        BY <1>2, <2>6 DEF Flattens
    <2> QED BY <1>1, <1>2, <2>1, <2>5, <2>7 DEF t
<1> QED BY <1>3, <1>4

(* FlattenSeq returns a sequence of the same elements.                     *)
LEMMA FlattenType ==
    ASSUME NEW S, NEW s \in Seq(Seq(S))
    PROVE  FlattenSeq(s) \in Seq(S)
<1> DEFINE T == {t \in Seq(Seq(S)) : FlattenSeq(t) \in Seq(S)}
<1>1. <<>> \in T
    <2>1. <<>> \in Seq(Seq(S)) /\ <<>> \in Seq(S)
        OBVIOUS
    <2> QED BY ONLY <2>1, FlattenEmpty
<1>2. ASSUME NEW t \in Seq(Seq(S)), NEW e \in Seq(S), t \in T PROVE Append(t, e) \in T
    <2>1. FlattenSeq(t) \o e \in Seq(S) /\ Append(t, e) \in Seq(Seq(S))
        BY <1>2
    <2>2. FlattenSeq(Append(t, e)) \in Seq(S)
        BY <2>1, FlattenAppend
    <2> QED BY <2>1, <2>2
<1> HIDE DEF T
<1>3. Seq(Seq(S)) \subseteq T
    BY <1>1, <1>2, AppendInduction
<1> QED BY <1>3 DEF T

(* What is concatenated may be flattened part by part.                     *)
LEMMA FlattenConcat ==
    ASSUME NEW S, NEW s \in Seq(Seq(S)), NEW t \in Seq(Seq(S))
    PROVE  FlattenSeq(s \o t) = FlattenSeq(s) \o FlattenSeq(t)
<1> DEFINE T == {u \in Seq(Seq(S)) : FlattenSeq(s \o u) = FlattenSeq(s) \o FlattenSeq(u)}
<1>1. <<>> \in T
    <2>1. s \o <<>> = s /\ FlattenSeq(s) \o <<>> = FlattenSeq(s)
        BY FlattenType
    <2>2. FlattenSeq(s \o <<>>) = FlattenSeq(s) \o FlattenSeq(<<>>)
        BY ONLY <2>1, FlattenEmpty
    <2>3. <<>> \in Seq(Seq(S))
        OBVIOUS
    <2> QED BY <2>2, <2>3
<1>2. ASSUME NEW u \in Seq(Seq(S)), NEW e \in Seq(S), u \in T PROVE Append(u, e) \in T
    <2>1. s \o Append(u, e) = Append(s \o u, e) /\ s \o u \in Seq(Seq(S))
        OBVIOUS
    <2>2. FlattenSeq(s \o Append(u, e)) = FlattenSeq(s \o u) \o e
        BY <2>1, FlattenAppend
    <2>3. FlattenSeq(Append(u, e)) = FlattenSeq(u) \o e
        BY FlattenAppend
    <2>4. (FlattenSeq(s) \o FlattenSeq(u)) \o e = FlattenSeq(s) \o (FlattenSeq(u) \o e)
        BY FlattenType, ConcatAssociative
    <2>5. Append(u, e) \in Seq(Seq(S))
        OBVIOUS
    <2> QED BY <1>2, <2>2, <2>3, <2>4, <2>5
<1> HIDE DEF T
<1>3. Seq(Seq(S)) \subseteq T
    BY <1>1, <1>2, AppendInduction
<1> QED BY <1>3 DEF T

(* Nothing changes where every sequence has one element.                   *)
LEMMA FlattenSingletons ==
    ASSUME NEW S, NEW s \in Seq(S)
    PROVE  FlattenSeq([i \in DOMAIN s |-> <<s[i]>>]) = s
<1> DEFINE Single(u) == [i \in DOMAIN u |-> <<u[i]>>]
           T == {u \in Seq(S) : FlattenSeq(Single(u)) = u}
<1>1. ASSUME NEW u \in Seq(S) PROVE Single(u) \in Seq(Seq(S))
    <2>1. Len(u) \in Nat /\ DOMAIN u = 1 .. Len(u)
        OBVIOUS
    <2>2. \A i \in 1 .. Len(u) : <<u[i]>> \in Seq(S)
        OBVIOUS
    <2> QED BY <2>1, <2>2, IsASeq
<1>2. <<>> \in T
    <2>1. Single(<<>>) = <<>>
        OBVIOUS
    <2> QED BY <2>1, FlattenEmpty
<1>3. ASSUME NEW u \in Seq(S), NEW e \in S, u \in T PROVE Append(u, e) \in T
    <2>1. Single(Append(u, e)) = Append(Single(u), <<e>>)
        OBVIOUS
    <2>2. Single(u) \in Seq(Seq(S)) /\ <<e>> \in Seq(S)
        BY <1>1
    <2> HIDE DEF Single
    <2>3. FlattenSeq(Append(Single(u), <<e>>)) = FlattenSeq(Single(u)) \o <<e>>
        BY <2>2, FlattenAppend
    <2>4. u \o <<e>> = Append(u, e) /\ Append(u, e) \in Seq(S)
        OBVIOUS
    <2> QED BY <1>3, <2>1, <2>3, <2>4
<1> HIDE DEF T
<1>4. Seq(S) \subseteq T
    BY <1>2, <1>3, AppendInduction
<1> QED BY <1>4 DEF T

-------------------------------------------------------------------------------
(* Around an index *)

(* The element d in a sequence, with what is before and after it.          *)
Around(s, a, d, c) == s = (a \o <<d>>) \o c

(* A sequence is what comes before an index, the element there, and what   *)
(* comes after it.                                                         *)
LEMMA SplitAround ==
    ASSUME NEW S, NEW s \in Seq(S), NEW i \in 1 .. Len(s)
    PROVE  \E a \in Seq(S), c \in Seq(S) :
            /\ Around(s, a, s[i], c) /\ Len(a) = i - 1
            /\ \A k \in 1 .. i - 1 : a[k] = s[k]
<1>1. Len(s) \in Nat /\ i \in Nat /\ i - 1 \in Int /\ i + 1 \in Int
    OBVIOUS
<1>2. PICK a : a = SubSeq(s, 1, i - 1)
    OBVIOUS
<1>3. PICK c : c = SubSeq(s, i + 1, Len(s))
    OBVIOUS
<1>4. a \in Seq(S) /\ Len(a) = i - 1 /\ \A k \in 1 .. i - 1 : a[k] = s[k]
    BY <1>1, <1>2
<1>5. c \in Seq(S)
    <2>1. \A k \in i + 1 .. Len(s) : s[k] \in S
        OBVIOUS
    <2> QED BY <1>1, <1>3, <2>1, SubSeqProperties
<1>6. a \o <<s[i]>> = SubSeq(s, 1, i)
    <2>1. 1 \in 1 .. Len(s) /\ i \in 1 .. Len(s)
        BY <1>1
    <2> QED BY <1>1, <1>2, <2>1, SubSeqRecursiveSecond
<1>7. SubSeq(s, 1, i) \o c = SubSeq(s, 1, Len(s))
    <2>1. 1 \in 1 .. Len(s) + 1 /\ i \in 1 - 1 .. Len(s) /\ Len(s) \in i .. Len(s)
        BY <1>1
    <2> QED BY <1>3, <2>1, ConcatAdjacentSubSeq
<1>8. s = (a \o <<s[i]>>) \o c
    BY <1>6, <1>7, SubSeqFull
<1> QED BY <1>4, <1>5, <1>8 DEF Around

(* What precedes it precedes the first of these.                           *)
LEMMA BeforeAround ==
    ASSUME NEW S, NEW a \in Seq(S), NEW d \in S, NEW c \in Seq(S), NEW s, Around(s, a, d, c),
           NEW b \in Seq(S)
    PROVE  Around(b \o s, b \o a, d, c)
<1>1. ASSUME NEW e \in Seq(S) PROVE (b \o e) \o c = b \o (e \o c)
    BY ONLY ConcatAssociative, b \in Seq(S), c \in Seq(S), e \in Seq(S)
<1>2. ASSUME NEW e \in Seq(S) PROVE (b \o a) \o e = b \o (a \o e)
    BY ONLY ConcatAssociative, a \in Seq(S), b \in Seq(S), e \in Seq(S)
<1>3. <<d>> \in Seq(S) /\ a \o <<d>> \in Seq(S)
    OBVIOUS
<1>4. (b \o (a \o <<d>>)) \o c = b \o ((a \o <<d>>) \o c)
    BY ONLY <1>1, <1>3
<1>5. (b \o a) \o <<d>> = b \o (a \o <<d>>)
    BY ONLY <1>2, <1>3
<1>6. s = (a \o <<d>>) \o c
    BY DEF Around
<1> QED BY ONLY <1>4, <1>5, <1>6 DEF Around

(* And in a sequence that is put together like that, these are the parts.  *)
LEMMA PartsAround ==
    ASSUME NEW S, NEW a \in Seq(S), NEW d \in S, NEW c \in Seq(S),
           NEW s, Around(s, a, d, c)
    PROVE  /\ s \in Seq(S) /\ Len(s) = Len(a) + 1 + Len(c) /\ s[Len(a) + 1] = d
           /\ \A k \in 1 .. Len(a) : s[k] = a[k]
           /\ SubSeq(s, 1, Len(a)) = a /\ SubSeq(s, Len(a) + 2, Len(s)) = c
<1>1. PICK b : b = a \o <<d>>
    OBVIOUS
<1>2. Len(a) \in Nat /\ Len(c) \in Nat /\ <<d>> \in Seq(S) /\ Len(<<d>>) = 1 /\ <<d>>[1] = d
    OBVIOUS
<1>3. /\ b \in Seq(S) /\ Len(b) = Len(a) + 1 /\ b[Len(a) + 1] = d
      /\ \A k \in 1 .. Len(a) : b[k] = a[k]
    <2>1. /\ b \in Seq(S) /\ Len(b) = Len(a) + Len(<<d>>)
          /\ \A k \in 1 .. Len(a) + Len(<<d>>) : b[k] = IF k <= Len(a) THEN a[k] ELSE <<d>>[k - Len(a)]
        BY ONLY <1>1, <1>2, ConcatProperties, a \in Seq(S)
    <2> QED BY <1>2, <2>1
<1>4. /\ s \in Seq(S) /\ Len(s) = Len(b) + Len(c)
      /\ \A k \in 1 .. Len(b) + Len(c) : s[k] = IF k <= Len(b) THEN b[k] ELSE c[k - Len(b)]
    <2>1. /\ b \o c \in Seq(S) /\ Len(b \o c) = Len(b) + Len(c)
          /\ \A k \in 1 .. Len(b) + Len(c) : (b \o c)[k] = IF k <= Len(b) THEN b[k] ELSE c[k - Len(b)]
        BY ONLY <1>3, ConcatProperties, c \in Seq(S)
    <2>2. s = b \o c
        BY <1>1 DEF Around
    <2> QED BY <2>1, <2>2
<1>5. s[Len(a) + 1] = d /\ \A k \in 1 .. Len(a) : s[k] = a[k]
    BY <1>2, <1>3, <1>4
<1>6. Len(s) = Len(a) + 1 + Len(c)
    BY <1>2, <1>3, <1>4
<1>7. SubSeq(s, 1, Len(a)) = a
    <2>1. PICK p : p = SubSeq(s, 1, Len(a))
        OBVIOUS
    <2>2. p \in Seq(S) /\ Len(p) = Len(a) /\ \A k \in 1 .. Len(a) : p[k] = s[k]
        <3>1. \A k \in 1 .. Len(a) : s[k] \in S
            BY <1>5
        <3>2. 1 \in Int /\ Len(a) \in Int /\ Len(a) - 1 + 1 = Len(a) /\ \A k \in 1 .. Len(a) : 1 + k - 1 = k
            BY <1>2
        <3>3. /\ p \in Seq(S) /\ Len(p) = IF 1 <= Len(a) THEN Len(a) - 1 + 1 ELSE 0
              /\ \A k \in 1 .. Len(a) - 1 + 1 : p[k] = s[1 + k - 1]
            BY ONLY <2>1, <3>1, <3>2, SubSeqProperties
        <3> QED BY <1>2, <3>2, <3>3
    <2> QED BY <1>5, <2>1, <2>2, SeqEqual
<1>8. SubSeq(s, Len(a) + 2, Len(s)) = c
    <2>1. PICK p : p = SubSeq(s, Len(a) + 2, Len(s))
        OBVIOUS
    <2>2. p \in Seq(S) /\ Len(p) = Len(c) /\ \A k \in 1 .. Len(c) : p[k] = s[Len(a) + 1 + k]
        <3>1. \A k \in Len(a) + 2 .. Len(s) : s[k] \in S
            BY <1>2, <1>4
        <3>2. /\ Len(a) + 2 \in Int /\ Len(s) \in Int /\ Len(s) - (Len(a) + 2) + 1 = Len(c)
              /\ \A k \in 1 .. Len(c) : (Len(a) + 2) + k - 1 = Len(a) + 1 + k
            BY <1>2, <1>6
        <3>3. /\ p \in Seq(S) /\ Len(p) = IF Len(a) + 2 <= Len(s) THEN Len(s) - (Len(a) + 2) + 1 ELSE 0
              /\ \A k \in 1 .. Len(s) - (Len(a) + 2) + 1 : p[k] = s[(Len(a) + 2) + k - 1]
            BY ONLY <2>1, <3>1, <3>2, SubSeqProperties
        <3>4. Len(p) = Len(c)
            BY <1>2, <1>6, <3>3
        <3>5. \A k \in 1 .. Len(c) : p[k] = s[Len(a) + 1 + k]
            BY ONLY <3>2, <3>3
        <3> QED BY <3>3, <3>4, <3>5
    <2>3. ASSUME NEW k \in 1 .. Len(c) PROVE s[Len(a) + 1 + k] = c[k]
        <3>1. /\ Len(a) + 1 + k \in 1 .. Len(b) + Len(c) /\ ~(Len(a) + 1 + k <= Len(b))
              /\ (Len(a) + 1 + k) - Len(b) = k
            BY <1>2, <1>3
        <3> QED BY <1>4, <3>1
    <2> QED BY <2>1, <2>2, <2>3, SeqEqual
<1> QED BY <1>4, <1>5, <1>6, <1>7, <1>8
===============================================================================
