--------------------------- MODULE SequenceProofs ---------------------------
EXTENDS Filter, SequencesExt, SequenceTheorems, WellFoundedInduction,
        NaturalsInduction, TLAPS

(***************************************************************************)
(* Induction over the naturals, for a set instead of a predicate.          *)
(***************************************************************************)
LEMMA SetInduction ==
  ASSUME NEW P \in SUBSET Nat, 0 \in P, \A n \in P : n + 1 \in P
  PROVE  P = Nat
PROOF
  <1> DEFINE T == Nat \ P
  <1>1. SUFFICES ASSUME T # {} PROVE FALSE
    OBVIOUS
  <1>2. T \subseteq Nat
    OBVIOUS
  <1>3. PICK x \in T : \A y \in T : ~ (<<y, x>> \in OpToRel(<, Nat))
    BY <1>1, <1>2, NatLessThanWellFounded, WFMin
  <1>4. x \in Nat /\ x # 0
    OBVIOUS
  <1>5. x - 1 \in Nat /\ (x - 1) + 1 = x
    BY <1>4
  <1>6. x - 1 \notin P
    BY <1>5
  <1>7. x - 1 \in T
    BY <1>5, <1>6
  <1>8. <<x - 1, x>> \in OpToRel(<, Nat)
    BY <1>4, <1>5 DEF OpToRel
  <1> QED
    BY <1>3, <1>7, <1>8

(***************************************************************************)
(* A function on 0 .. N can be defined by its value at 0 and a step.       *)
(***************************************************************************)
Recurses(f, N, f0, step) ==
  f = [n \in 0 .. N |-> IF n = 0 THEN f0 ELSE step[<<f[n - 1], n>>]]

LEMMA RecursionUpTo ==
  ASSUME NEW N \in Nat, NEW S, NEW f0 \in S,
         NEW step \in [S \X (1 .. N) -> S]
  PROVE  \E f \in [0 .. N -> S] : Recurses(f, N, f0, step)
PROOF
  <1> DEFINE Up(f, k) ==
        f = [n \in 0 .. k |-> IF n = 0 THEN f0 ELSE step[<<f[n - 1], n>>]]
             P == {k \in Nat : k <= N => \E f \in [0 .. k -> S] : Up(f, k)}
  <1>1. 0 \in P
    <2> DEFINE g == [n \in 0 .. 0 |-> f0]
    <2>1. g \in [0 .. 0 -> S]
      OBVIOUS
    <2>2. g = [n \in 0 .. 0 |-> IF n = 0 THEN f0 ELSE step[<<g[n - 1], n>>]]
      OBVIOUS
    <2> QED
      BY <2>1, <2>2
  <1>2. ASSUME NEW k \in P  PROVE k + 1 \in P
    <2>1. SUFFICES ASSUME k + 1 <= N
                   PROVE \E f \in [0 .. k + 1 -> S] : Up(f, k + 1)
      OBVIOUS
    <2>2. PICK f \in [0 .. k -> S] : Up(f, k)
      BY <2>1
    <2> DEFINE g == [n \in 0 .. k + 1 |->
                       IF n = k + 1 THEN step[<<f[k], k + 1>>] ELSE f[n]]
    <2>3. k \in 0 .. k /\ k + 1 \in 1 .. N /\ f[k] \in S
      BY <2>1
    <2>4. step[<<f[k], k + 1>>] \in S
      BY <2>3
    <2>5. g \in [0 .. k + 1 -> S]
      BY <2>4
    <2>6. ASSUME NEW n \in 0 .. k + 1
          PROVE  g[n] = IF n = 0 THEN f0 ELSE step[<<g[n - 1], n>>]
      <3>1. CASE n = k + 1
        <4>1. g[n - 1] = f[k]
          BY <3>1, <2>3
        <4>2. n # 0
          BY <3>1
        <4>3. g[n] = step[<<f[k], k + 1>>]
          BY <3>1
        <4> HIDE DEF g
        <4> QED
          BY <4>1, <4>2, <4>3, <3>1
      <3>2. CASE n # k + 1
        <4>1. n \in 0 .. k
          BY <3>2
        <4>2. f[n] = IF n = 0 THEN f0 ELSE step[<<f[n - 1], n>>]
          BY <2>2, <4>1
        <4>3. n # 0 => g[n - 1] = f[n - 1]
          BY <4>1
        <4>4. g[n] = f[n]
          BY <3>2
        <4> HIDE DEF g
        <4> QED
          BY <4>2, <4>3, <4>4
      <3> QED
        BY <3>1, <3>2
    <2> HIDE DEF g
    <2>7. Up(g, k + 1)
      <3> DEFINE h == [n \in 0 .. k + 1 |->
                         IF n = 0 THEN f0 ELSE step[<<g[n - 1], n>>]]
      <3>1. DOMAIN g = DOMAIN h /\ \A n \in DOMAIN h : g[n] = h[n]
        BY <2>5, <2>6
      <3>2. g = h
        BY <2>5, <3>1
      <3> QED
        BY <3>2
    <2> QED
      BY <2>5, <2>7
  <1>3. P = Nat
    <2> HIDE DEF P
    <2>1. P \in SUBSET Nat
      BY DEF P
    <2> QED
      BY <2>1, <1>1, <1>2, SetInduction
  <1> QED
    BY <1>3 DEF Recurses

-----------------------------------------------------------------------------
(***************************************************************************)
(* f[n] is what the first n elements of s have in S.                       *)
(***************************************************************************)
FiltersBy(f, s, S) ==
  /\ f[0] = <<>>
  /\ \A n \in 1 .. Len(s) :
       f[n] = IF s[n] \in S THEN Append(f[n - 1], s[n]) ELSE f[n - 1]

(***************************************************************************)
(* Those is well defined: there is the function it is defined by.          *)
(***************************************************************************)
LEMMA ThoseFunction ==
  ASSUME NEW T, NEW S, NEW s \in Seq(T)
  PROVE  /\ \E f : FiltersBy(f, s, S) /\ Those(s, S) = f[Len(s)]
         /\ Those(s, S) \in Seq(T \cap S)
PROOF
  <1> DEFINE N == Len(s)
             R == Seq(T \cap S)
             Is(f) == f = [n \in 0 .. N |->
                             IF n = 0 THEN <<>>
                             ELSE IF s[n] \in S THEN Append(f[n - 1], s[n])
                                                ELSE f[n - 1]]
             those == CHOOSE f : Is(f)
             step == [p \in R \X (1 .. N) |->
                        IF s[p[2]] \in S THEN Append(p[1], s[p[2]]) ELSE p[1]]
  <1>1. N \in Nat /\ <<>> \in R /\ \A n \in 1 .. N : s[n] \in T
    BY LenProperties, ElementOfSeq, EmptySeq
  <1>2. \A r \in R, n \in 1 .. N :
          /\ step[<<r, n>>] = IF s[n] \in S THEN Append(r, s[n]) ELSE r
          /\ step[<<r, n>>] \in R
    <2> SUFFICES ASSUME NEW r \in R, NEW n \in 1 .. N
                 PROVE  /\ step[<<r, n>>] =
                             IF s[n] \in S THEN Append(r, s[n]) ELSE r
                        /\ step[<<r, n>>] \in R
      OBVIOUS
    <2>1. step[<<r, n>>] = IF s[n] \in S THEN Append(r, s[n]) ELSE r
      OBVIOUS
    <2>2. s[n] \in S => Append(r, s[n]) \in R
      BY <1>1, AppendProperties
    <2> QED
      BY <2>1, <2>2
  <1>3. step \in [R \X (1 .. N) -> R]
    <2>1. \A p \in R \X (1 .. N) : p = <<p[1], p[2]>>
      OBVIOUS
    <2>2. \A p \in R \X (1 .. N) : step[p] \in R
      BY <1>2, <2>1
    <2> HIDE DEF R
    <2> QED
      BY <2>2
  <1> DEFINE none == <<>>
  <1>0. none \in R /\ N \in Nat
    BY <1>1
  <1> HIDE DEF step, R, N, none
  <1>4. PICK f \in [0 .. N -> R] : Recurses(f, N, none, step)
    <2> HIDE DEF Is, those
    <2> QED
      BY <1>0, <1>3, RecursionUpTo, Zenon
  <1>5. Is(f)
    <2>1. \A n \in 0 .. N :
            f[n] = IF n = 0 THEN <<>>
                   ELSE IF s[n] \in S THEN Append(f[n - 1], s[n]) ELSE f[n - 1]
      <3> SUFFICES ASSUME NEW n \in 0 .. N
                   PROVE  f[n] = IF n = 0 THEN <<>>
                                 ELSE IF s[n] \in S THEN Append(f[n - 1], s[n])
                                                    ELSE f[n - 1]
        OBVIOUS
      <3>1. CASE n = 0
        BY <1>4, <3>1 DEF none, Recurses
      <3>2. CASE n # 0
        <4>1. n \in 1 .. N /\ n - 1 \in 0 .. N
          BY <1>1, <3>2
        <4>2. f[n] = step[<<f[n - 1], n>>] /\ f[n - 1] \in R
          BY <1>4, <3>2, <4>1 DEF Recurses
        <4> QED
          BY <1>2, <3>2, <4>1, <4>2
      <3> QED
        BY <3>1, <3>2
    <2> DEFINE h == [n \in 0 .. N |->
                       IF n = 0 THEN <<>>
                       ELSE IF s[n] \in S THEN Append(f[n - 1], s[n])
                                          ELSE f[n - 1]]
    <2>2. f = h
      BY <1>4, <2>1 DEF Recurses
    <2> QED
      BY <2>2
  <1>6. Is(those)
    <2> HIDE DEF Is
    <2> QED
      BY <1>5
  <1>7. /\ DOMAIN those = 0 .. N
        /\ \A n \in 0 .. N :
             those[n] = IF n = 0 THEN <<>>
                        ELSE IF s[n] \in S THEN Append(those[n - 1], s[n])
                                           ELSE those[n - 1]
    <2> HIDE DEF those
    <2> QED
      BY <1>6
  <1>8. Those(s, S) = those[N]
    BY DEF Those, N
  <1> HIDE DEF those, Is
  <1> DEFINE P == {n \in Nat : n <= N => those[n] \in R}
  <1>9. P = Nat
    <2>1. 0 \in P
      BY <1>1, <1>7
    <2>2. ASSUME NEW n \in P  PROVE n + 1 \in P
      <3>1. SUFFICES ASSUME n + 1 <= N  PROVE those[n + 1] \in R
        OBVIOUS
      <3>2. /\ n \in 0 .. N /\ n + 1 \in 1 .. N /\ n + 1 \in 0 .. N
            /\ n + 1 # 0 /\ (n + 1) - 1 = n /\ those[n] \in R
        BY <1>1, <3>1
      <3>3. those[n + 1] = IF s[n + 1] \in S THEN Append(those[n], s[n + 1])
                                             ELSE those[n]
        BY <1>7, <3>2
      <3>4. s[n + 1] \in S => Append(those[n], s[n + 1]) \in R
        BY <1>1, <3>2, AppendProperties DEF R
      <3> QED
        BY <3>2, <3>3, <3>4
    <2> HIDE DEF P
    <2>3. P \in SUBSET Nat
      BY DEF P
    <2> QED
      BY <2>1, <2>2, <2>3, SetInduction
  <1>10. those[N] \in R
    BY <1>1, <1>9
  <1>11. FiltersBy(those, s, S)
    <2>1. those[0] = <<>>
      BY <1>1, <1>7
    <2>2. ASSUME NEW n \in 1 .. N
          PROVE  those[n] = IF s[n] \in S THEN Append(those[n - 1], s[n])
                                          ELSE those[n - 1]
      <3>1. n \in 0 .. N /\ n # 0
        BY <1>1
      <3> QED
        BY <1>7, <3>1
    <2> QED
      BY <2>1, <2>2 DEF FiltersBy, N
  <1> QED
    BY <1>8, <1>10, <1>11 DEF N, R

\* Whatever function has its equations gives the same.
LEMMA ThoseUnique ==
  ASSUME NEW T, NEW S, NEW s \in Seq(T), NEW g, FiltersBy(g, s, S)
  PROVE  Those(s, S) = g[Len(s)]
PROOF
  <1>1. Len(s) \in Nat
    BY LenProperties
  <1>2. PICK f : FiltersBy(f, s, S) /\ Those(s, S) = f[Len(s)]
    BY ThoseFunction, Zenon
  <1> DEFINE P == {n \in Nat : n <= Len(s) => f[n] = g[n]}
  <1>3. 0 \in P
    BY <1>2 DEF FiltersBy
  <1>4. ASSUME NEW n \in P  PROVE n + 1 \in P
    <2>1. SUFFICES ASSUME n + 1 <= Len(s)  PROVE f[n + 1] = g[n + 1]
      OBVIOUS
    <2>2. n + 1 \in 1 .. Len(s) /\ (n + 1) - 1 = n /\ f[n] = g[n]
      BY <1>1, <2>1
    <2> QED
      BY <1>2, <2>2 DEF FiltersBy
  <1>5. P = Nat
    <2> HIDE DEF P
    <2>1. P \in SUBSET Nat
      BY DEF P
    <2> QED
      BY <2>1, <1>3, <1>4, SetInduction
  <1> QED
    BY <1>1, <1>2, <1>5

LEMMA ThoseType ==
  ASSUME NEW T, NEW S, NEW s \in Seq(T)
  PROVE  Those(s, S) \in Seq(T \cap S)
BY ThoseFunction

LEMMA ThoseEmpty ==
  ASSUME NEW S
  PROVE  Those(<<>>, S) = <<>>
PROOF
  <1> DEFINE none == <<>>
  <1>1. none \in Seq(S) /\ Len(none) = 0
    BY EmptySeq
  <1> HIDE DEF none
  <1>2. PICK f : FiltersBy(f, none, S) /\ Those(none, S) = f[Len(none)]
    BY <1>1, ThoseFunction, Zenon
  <1>3. Those(none, S) = <<>>
    BY <1>1, <1>2 DEF FiltersBy
  <1> QED
    BY <1>3 DEF none

LEMMA ThoseAppend ==
  ASSUME NEW T, NEW S, NEW s \in Seq(T), NEW e \in T
  PROVE  Those(Append(s, e), S) =
           IF e \in S THEN Append(Those(s, S), e) ELSE Those(s, S)
PROOF
  <1> DEFINE t == Append(s, e)
  <1>1. /\ t \in Seq(T) /\ Len(s) \in Nat /\ Len(t) = Len(s) + 1
        /\ \A n \in 1 .. Len(s) : t[n] = s[n]
        /\ t[Len(s) + 1] = e
    BY AppendProperties, LenProperties
  <1> HIDE DEF t
  <1>2. PICK f : FiltersBy(f, t, S) /\ Those(t, S) = f[Len(t)]
    <2>1. t \in Seq(T)
      BY <1>1
    <2> QED
      BY <2>1, ThoseFunction, Zenon
  <1>3. FiltersBy(f, s, S)
    BY <1>1, <1>2 DEF FiltersBy
  <1>4. Those(s, S) = f[Len(s)]
    BY <1>3, ThoseUnique
  <1>5. f[Len(s) + 1] = IF e \in S THEN Append(f[Len(s)], e) ELSE f[Len(s)]
    <2>1. Len(s) + 1 \in 1 .. Len(t) /\ (Len(s) + 1) - 1 = Len(s)
      BY <1>1
    <2> QED
      BY <1>1, <1>2, <2>1 DEF FiltersBy
  <1>6. Those(t, S) = IF e \in S THEN Append(Those(s, S), e) ELSE Those(s, S)
    BY <1>1, <1>2, <1>4, <1>5
  <1> QED
    BY <1>6 DEF t

LEMMA AppendToConcat ==
  ASSUME NEW T, NEW s \in Seq(T), NEW t \in Seq(T), NEW e \in T
  PROVE  s \o Append(t, e) = Append(s \o t, e)
PROOF
  <1>1. <<e>> \in Seq(T) /\ s \o t \in Seq(T)
    BY ConcatProperties
  <1>2. Append(t, e) = t \o <<e>> /\ Append(s \o t, e) = (s \o t) \o <<e>>
    BY <1>1, AppendIsConcat
  <1> QED
    BY <1>1, <1>2, ConcatAssociative

\* The prefixes of a sequence grow by an element at a time.
LEMMA PrefixStep ==
  ASSUME NEW T, NEW s \in Seq(T), NEW n \in Nat, n + 1 <= Len(s)
  PROVE  /\ SubSeq(s, 1, n) \in Seq(T)
         /\ SubSeq(s, 1, n + 1) = Append(SubSeq(s, 1, n), s[n + 1])
         /\ s[n + 1] \in T
PROOF
  <1>1. Len(s) \in Nat /\ \A i \in 1 .. n : s[i] \in T
    BY LenProperties, ElementOfSeq
  <1>2. s[n + 1] \in T
    BY <1>1, ElementOfSeq
  <1>3. SubSeq(s, 1, n) \in Seq(T)
    BY <1>1, SubSeqProperties
  <1>4. 1 \in 1 .. Len(s) /\ n + 1 \in 1 .. Len(s) /\ (n + 1) - 1 = n
    BY <1>1
  <1>5. SubSeq(s, 1, n + 1) = SubSeq(s, 1, n) \o <<s[n + 1]>>
    BY <1>4, SubSeqRecursiveSecond
  <1> QED
    BY <1>2, <1>3, <1>5, AppendIsConcat

LEMMA ThoseConcat ==
  ASSUME NEW T, NEW S, NEW s \in Seq(T), NEW t \in Seq(T)
  PROVE  Those(s \o t, S) = Those(s, S) \o Those(t, S)
PROOF
  <1> DEFINE Part(n) == SubSeq(t, 1, n)
             P == {n \in Nat : n <= Len(t) =>
                     Those(s \o Part(n), S) = Those(s, S) \o Those(Part(n), S)}
  <1>1. /\ Those(s, S) \in Seq(T \cap S)
        /\ Part(0) = <<>> /\ Part(Len(t)) = t /\ Len(t) \in Nat
    BY ThoseType, SubSeqEmpty, SubSeqFull, LenProperties
  <1>2. 0 \in P
    <2>1. s \o <<>> = s /\ Those(s, S) \o <<>> = Those(s, S)
      BY <1>1, ConcatEmptySeq
    <2>2. Those(<<>>, S) = <<>>
      BY ThoseEmpty
    <2> QED
      BY <1>1, <2>1, <2>2
  <1>3. ASSUME NEW n \in P  PROVE n + 1 \in P
    <2>1. SUFFICES ASSUME n + 1 <= Len(t)
                   PROVE Those(s \o Part(n + 1), S)
                           = Those(s, S) \o Those(Part(n + 1), S)
      OBVIOUS
    <2> DEFINE u == Part(n)
               e == t[n + 1]
    <2>2. /\ u \in Seq(T) /\ e \in T /\ Part(n + 1) = Append(u, e)
          /\ Those(s \o u, S) = Those(s, S) \o Those(u, S)
      BY <1>1, <2>1, PrefixStep
    <2> HIDE DEF u, e
    <2>3. s \o Append(u, e) = Append(s \o u, e) /\ s \o u \in Seq(T)
      BY <2>2, AppendToConcat, ConcatProperties
    <2> DEFINE v == s \o u
    <2>4. Those(Append(v, e), S)
            = IF e \in S THEN Append(Those(v, S), e) ELSE Those(v, S)
      <3> HIDE DEF v, P, Part
      <3>1. v \in Seq(T)
        BY <2>3 DEF v
      <3> QED
        BY <2>2, <3>1, ThoseAppend
    <2>7. Those(Append(u, e), S)
            = IF e \in S THEN Append(Those(u, S), e) ELSE Those(u, S)
      BY <2>2, ThoseAppend
    <2>5. Those(u, S) \in Seq(T \cap S)
      BY <2>2, ThoseType
    <2>6. e \in S => Those(s, S) \o Append(Those(u, S), e)
                       = Append(Those(s, S) \o Those(u, S), e)
      BY <1>1, <2>2, <2>5, AppendToConcat
    <2> QED
      BY <2>2, <2>3, <2>4, <2>6, <2>7
  <1>4. P = Nat
    <2> HIDE DEF P
    <2>1. P \in SUBSET Nat
      BY DEF P
    <2> QED
      BY <2>1, <1>2, <1>3, SetInduction
  <1>5. Those(s \o Part(Len(t)), S) = Those(s, S) \o Those(Part(Len(t)), S)
    <2> DEFINE N == Len(t)
    <2>1. N \in P /\ N <= Len(t)
      BY <1>1, <1>4
    <2> HIDE DEF Part, N
    <2>2. Those(s \o Part(N), S) = Those(s, S) \o Those(Part(N), S)
      BY <2>1
    <2> QED
      BY <2>2 DEF N
  <1> HIDE DEF Part
  <1> QED
    BY <1>1, <1>5

\* What has one element has that or nothing of a set.
LEMMA ThoseOne ==
  ASSUME NEW S, NEW e
  PROVE  Those(<<e>>, S) = IF e \in S THEN <<e>> ELSE <<>>
PROOF
  <1>1. <<>> \in Seq({e}) /\ Append(<<>>, e) = <<e>>
    BY EmptySeq
  <1>2. Those(Append(<<>>, e), S)
          = IF e \in S THEN Append(Those(<<>>, S), e) ELSE Those(<<>>, S)
    BY <1>1, ThoseAppend
  <1> QED
    BY <1>1, <1>2, ThoseEmpty

(***************************************************************************)
(* t is made of elements among the first n of s, in their order.           *)
(***************************************************************************)
Picks(g, t, s, n) ==
  /\ g \in [1 .. Len(t) -> 1 .. n]
  /\ \A i \in 1 .. Len(t) : t[i] = s[g[i]]
  /\ \A i, j \in 1 .. Len(t) : i < j => g[i] < g[j]

LEMMA ThosePicked ==
  ASSUME NEW T, NEW S, NEW s \in Seq(T)
  PROVE  \E g : Picks(g, Those(s, S), s, Len(s))
PROOF
  <1> DEFINE Part(n) == Those(SubSeq(s, 1, n), S)
             P == {n \in Nat : n <= Len(s) => \E g : Picks(g, Part(n), s, n)}
  <1>1. /\ Len(s) \in Nat /\ SubSeq(s, 1, Len(s)) = s
        /\ SubSeq(s, 1, 0) = <<>>
    BY LenProperties, SubSeqFull, SubSeqEmpty
  <1>2. 0 \in P
    <2> DEFINE g == [i \in 1 .. 0 |-> i]
    <2>1. Part(0) = <<>> /\ Len(<<>>) = 0
      BY <1>1, ThoseEmpty, EmptySeq
    <2>2. Picks(g, <<>>, s, 0)
      BY <2>1 DEF Picks
    <2> QED
      BY <2>1, <2>2
  <1>3. ASSUME NEW n \in P  PROVE n + 1 \in P
    <2>1. SUFFICES ASSUME n + 1 <= Len(s)
                   PROVE \E g : Picks(g, Part(n + 1), s, n + 1)
      OBVIOUS
    <2> DEFINE u == SubSeq(s, 1, n)
               e == s[n + 1]
               t == Those(u, S)
    <2>2. PICK g : Picks(g, t, s, n)
      BY <1>1, <2>1
    <2>3. /\ u \in Seq(T) /\ e \in T /\ SubSeq(s, 1, n + 1) = Append(u, e)
          /\ n \in Nat
      BY <1>1, <2>1, PrefixStep
    <2> HIDE DEF u, e
    <2>4. t \in Seq(T \cap S)
      BY <2>3, ThoseType
    <2>5. Part(n + 1) = IF e \in S THEN Append(t, e) ELSE t
      <3>1. Those(Append(u, e), S) = IF e \in S THEN Append(t, e) ELSE t
        <4> HIDE DEF P
        <4> QED
          BY <2>3, ThoseAppend
      <3> QED
        BY <2>3, <3>1
    <2> HIDE DEF t
    <2>6. /\ g \in [1 .. Len(t) -> 1 .. n] /\ Len(t) \in Nat
          /\ \A i \in 1 .. Len(t) : t[i] = s[g[i]] /\ g[i] \in 1 .. n
          /\ \A i, j \in 1 .. Len(t) : i < j => g[i] < g[j]
      BY <2>2, <2>4, LenProperties DEF Picks
    <2>7. CASE e \notin S
      <3>1. g \in [1 .. Len(t) -> 1 .. n + 1]
        <4>1. \A i \in 1 .. Len(t) : g[i] \in 1 .. n + 1
          BY <2>3, <2>6
        <4> QED
          BY <2>6, <4>1
      <3>2. Picks(g, t, s, n + 1)
        BY <2>6, <3>1 DEF Picks
      <3> QED
        BY <2>5, <2>7, <3>2
    <2>8. CASE e \in S
      <3> DEFINE m == Len(t) + 1
                 h == [i \in 1 .. m |-> IF i = m THEN n + 1 ELSE g[i]]
                 v == Append(t, e)
      <3>1. /\ Len(v) = m /\ v[m] = e /\ \A i \in 1 .. Len(t) : v[i] = t[i]
            /\ m \in Nat
        BY <2>3, <2>4, <2>6, <2>8, AppendProperties
      <3> HIDE DEF v
      <3>2. \A i \in 1 .. m : i = m \/ i \in 1 .. Len(t)
        BY <2>6
      <3>3. \A i \in 1 .. m : h[i] \in 1 .. n + 1
        BY <2>3, <2>6, <3>2
      <3>4. \A i \in 1 .. m : v[i] = s[h[i]]
        BY <2>6, <3>1, <3>2 DEF e
      <3>5. \A i, j \in 1 .. m : i < j => h[i] < h[j]
        <4> SUFFICES ASSUME NEW i \in 1 .. m, NEW j \in 1 .. m, i < j
                     PROVE  h[i] < h[j]
          OBVIOUS
        <4>1. i \in 1 .. Len(t) /\ i # m
          BY <2>6
        <4>2. h[i] = g[i] /\ g[i] \in 1 .. n
          BY <2>6, <4>1
        <4>3. CASE j = m
          BY <2>3, <4>2, <4>3
        <4>4. CASE j # m
          BY <2>6, <3>2, <4>1, <4>2, <4>4
        <4> QED
          BY <4>3, <4>4
      <3>6. Picks(h, v, s, n + 1)
        <4>1. h \in [1 .. m -> 1 .. n + 1]
          BY <3>3
        <4> HIDE DEF h, m
        <4> QED
          BY <3>1, <3>4, <3>5, <4>1 DEF Picks
      <3> QED
        BY <2>5, <2>8, <3>6 DEF v
    <2> QED
      BY <2>7, <2>8
  <1>4. P = Nat
    <2> HIDE DEF P
    <2>1. P \in SUBSET Nat
      BY DEF P
    <2> QED
      BY <2>1, <1>2, <1>3, SetInduction
  <1>5. \E g : Picks(g, Part(Len(s)), s, Len(s))
    <2>1. Len(s) \in P
      BY <1>1, <1>4
    <2> QED
      BY <1>1, <2>1
  <1> QED
    BY <1>1, <1>5

\* ... and all of them that are in S.
LEMMA ThoseKept ==
  ASSUME NEW T, NEW S, NEW s \in Seq(T), NEW k \in 1 .. Len(s), s[k] \in S
  PROVE  \E i \in 1 .. Len(Those(s, S)) : Those(s, S)[i] = s[k]
PROOF
  <1> DEFINE e == s[k]
             Part(n) == Those(SubSeq(s, 1, n), S)
             Has(n) == \E i \in 1 .. Len(Part(n)) : Part(n)[i] = e
             P == {n \in Nat : k <= n /\ n <= Len(s) => Has(n)}
  <1>1. Len(s) \in Nat /\ SubSeq(s, 1, Len(s)) = s /\ k \in Nat \ {0}
    BY LenProperties, SubSeqFull
  <1>2. 0 \in P
    BY <1>1
  <1>3. ASSUME NEW n \in P  PROVE n + 1 \in P
    <2>1. SUFFICES ASSUME k <= n + 1, n + 1 <= Len(s)  PROVE Has(n + 1)
      OBVIOUS
    <2> DEFINE u == SubSeq(s, 1, n)
               x == s[n + 1]
               t == Those(u, S)
    <2>2. /\ u \in Seq(T) /\ x \in T /\ SubSeq(s, 1, n + 1) = Append(u, x)
          /\ n \in Nat
      BY <1>1, <2>1, PrefixStep
    <2>3. k <= n => Has(n)
      BY <1>1, <2>1, <2>2
    <2> HIDE DEF u, x, P
    <2>4. t \in Seq(T \cap S)
      BY <2>2, ThoseType
    <2>5. Part(n + 1) = IF x \in S THEN Append(t, x) ELSE t
      <3>1. Those(Append(u, x), S) = IF x \in S THEN Append(t, x) ELSE t
        BY <2>2, ThoseAppend
      <3> QED
        BY <2>2, <3>1
    <2>6. k <= n => \E i \in 1 .. Len(t) : t[i] = e
      BY <2>3 DEF u
    <2> HIDE DEF t, e, Part
    <2>7. Len(t) \in Nat
      BY <2>4, LenProperties
    <2>8. CASE x \notin S
      <3>1. k <= n
        BY <1>1, <2>1, <2>2, <2>8 DEF x
      <3> QED
        BY <2>5, <2>6, <2>8, <3>1
    <2>9. CASE x \in S
      <3>1. /\ Len(Append(t, x)) = Len(t) + 1
            /\ \A i \in 1 .. Len(t) : Append(t, x)[i] = t[i]
            /\ Append(t, x)[Len(t) + 1] = x
        BY <2>2, <2>4, <2>9, AppendProperties
      <3>2. Part(n + 1) = Append(t, x)
        BY <2>5, <2>9
      <3>3. CASE k <= n
        <4>1. PICK i \in 1 .. Len(t) : t[i] = e
          BY <2>6, <3>3
        <4>2. i \in 1 .. Len(t) + 1
          BY <2>7
        <4> QED
          BY <3>1, <3>2, <4>1, <4>2
      <3>4. CASE ~ (k <= n)
        <4>1. k = n + 1
          BY <1>1, <2>1, <2>2, <3>4
        <4>2. x = e /\ Len(t) + 1 \in 1 .. Len(t) + 1
          BY <2>7, <4>1 DEF x, e
        <4> QED
          BY <3>1, <3>2, <4>2
      <3> QED
        BY <3>3, <3>4
    <2> QED
      BY <2>8, <2>9
  <1>4. P = Nat
    <2> HIDE DEF P
    <2>1. P \in SUBSET Nat
      BY DEF P
    <2> QED
      BY <2>1, <1>2, <1>3, SetInduction
  <1>5. Has(Len(s))
    <2>1. Len(s) \in P
      BY <1>1, <1>4
    <2> QED
      BY <1>1, <2>1
  <1> QED
    BY <1>1, <1>5

LEMMA ThoseSet ==
  ASSUME NEW T, NEW S, NEW s \in Seq(T)
  PROVE  ToSet(Those(s, S)) = ToSet(s) \cap S
PROOF
  <1> DEFINE t == Those(s, S)
  <1>1. t \in Seq(T \cap S)
    BY ThoseType
  <1>2. PICK g : Picks(g, t, s, Len(s))
    BY ThosePicked
  <1>3. \A k \in 1 .. Len(s) : s[k] \in S => \E i \in 1 .. Len(t) : t[i] = s[k]
    BY ThoseKept
  <1> HIDE DEF t
  <1>4. /\ DOMAIN s = 1 .. Len(s) /\ DOMAIN t = 1 .. Len(t)
        /\ \A i \in 1 .. Len(t) : t[i] \in S
    BY <1>1, LenProperties, ElementOfSeq
  <1>5. \A i \in 1 .. Len(t) : g[i] \in 1 .. Len(s) /\ t[i] = s[g[i]]
    BY <1>2 DEF Picks
  <1>6. ToSet(t) \subseteq ToSet(s) \cap S
    BY <1>4, <1>5 DEF ToSet
  <1>7. ToSet(s) \cap S \subseteq ToSet(t)
    BY <1>3, <1>4 DEF ToSet
  <1> QED
    BY <1>6, <1>7 DEF t

-----------------------------------------------------------------------------
(***************************************************************************)
(* f[n] is the first n sequences of seqs, one after the other.             *)
(***************************************************************************)
Joins(f, seqs, T) ==
  /\ \A n \in 0 .. Len(seqs) : f[n] \in Seq(T)
  /\ f[0] = <<>>
  /\ \A n \in 1 .. Len(seqs) : f[n] = f[n - 1] \o seqs[n]

\* Whatever has these equations has these types.
LEMMA JoinsType ==
  ASSUME NEW T, NEW seqs \in Seq(Seq(T)), NEW f, f[0] = <<>>,
         \A n \in 1 .. Len(seqs) : f[n] = f[n - 1] \o seqs[n]
  PROVE  Joins(f, seqs, T)
PROOF
  <1> DEFINE R == Seq(T)
             P == {n \in Nat : n <= Len(seqs) => f[n] \in R}
  <1>1. Len(seqs) \in Nat /\ \A n \in 1 .. Len(seqs) : seqs[n] \in R
    BY LenProperties, ElementOfSeq
  <1>2. 0 \in P
    BY EmptySeq
  <1>3. ASSUME NEW n \in P  PROVE n + 1 \in P
    <2>1. SUFFICES ASSUME n + 1 <= Len(seqs)  PROVE f[n + 1] \in R
      OBVIOUS
    <2>2. /\ n + 1 \in 1 .. Len(seqs) /\ (n + 1) - 1 = n
          /\ f[n] \in R /\ seqs[n + 1] \in R
      BY <1>1, <2>1
    <2>3. f[n + 1] = f[n] \o seqs[n + 1]
      BY <2>2
    <2> QED
      BY <2>2, <2>3, ConcatProperties
  <1>4. P = Nat
    <2> HIDE DEF P
    <2>1. P \in SUBSET Nat
      BY DEF P
    <2> QED
      BY <2>1, <1>2, <1>3, SetInduction
  <1>5. \A n \in 0 .. Len(seqs) : f[n] \in R
    BY <1>1, <1>4
  <1> QED
    BY <1>5 DEF Joins

\* FlattenSeq is well defined.
LEMMA FlattenFunction ==
  ASSUME NEW T, NEW seqs \in Seq(Seq(T))
  PROVE  \E f : Joins(f, seqs, T) /\ FlattenSeq(seqs) = f[Len(seqs)]
PROOF
  <1> DEFINE N == Len(seqs)
             R == Seq(T)
             none == <<>>
             Is(f) == f = [i \in 1 .. N |-> IF i = 1 THEN seqs[i]
                                            ELSE f[i - 1] \o seqs[i]]
             flatten == CHOOSE f : Is(f)
             step == [p \in R \X (1 .. N) |-> p[1] \o seqs[p[2]]]
  <1>1. N \in Nat /\ none \in R /\ \A n \in 1 .. N : seqs[n] \in R
    BY LenProperties, ElementOfSeq, EmptySeq
  <1>2. \A r \in R, n \in 1 .. N :
          step[<<r, n>>] = r \o seqs[n] /\ r \o seqs[n] \in R
    BY <1>1, ConcatProperties
  <1>3. step \in [R \X (1 .. N) -> R]
    <2>1. \A p \in R \X (1 .. N) : p = <<p[1], p[2]>>
      OBVIOUS
    <2>2. \A p \in R \X (1 .. N) : step[p] \in R
      BY <1>2, <2>1
    <2> HIDE DEF R
    <2> QED
      BY <2>2
  <1>4. N \in Nat /\ none \in R
    BY <1>1
  <1>5. N = 0 => seqs = <<>>
    BY EmptySeq
  <1>6. FlattenSeq(seqs) = IF N = 0 THEN seqs ELSE flatten[N]
    BY DEF FlattenSeq
  <1> HIDE DEF step, R, N, none, flatten, Is
  <1>7. PICK g \in [0 .. N -> R] : Recurses(g, N, none, step)
    BY <1>3, <1>4, RecursionUpTo, Zenon
  <1>8. /\ g[0] = <<>>
        /\ \A n \in 1 .. N : g[n] = g[n - 1] \o seqs[n] /\ g[n - 1] \in R
    <2>1. g[0] = <<>>
      BY <1>1, <1>7 DEF Recurses, none
    <2>2. ASSUME NEW n \in 1 .. N
          PROVE  g[n] = g[n - 1] \o seqs[n] /\ g[n - 1] \in R
      <3>1. n \in 0 .. N /\ n - 1 \in 0 .. N /\ n # 0
        BY <1>1
      <3>2. g[n] = step[<<g[n - 1], n>>] /\ g[n - 1] \in R
        BY <1>7, <3>1 DEF Recurses
      <3> QED
        BY <1>2, <3>2
    <2> QED
      BY <2>1, <2>2
  <1>9. Is(flatten)
    <2> DEFINE f == [i \in 1 .. N |-> g[i]]
               h == [i \in 1 .. N |-> IF i = 1 THEN seqs[i]
                                      ELSE f[i - 1] \o seqs[i]]
    <2>1. ASSUME NEW i \in 1 .. N  PROVE f[i] = h[i]
      <3>1. CASE i = 1
        <4>0. 1 \in 1 .. N /\ 1 - 1 = 0
          BY <3>1
        <4>1. g[1] = <<>> \o seqs[1] /\ seqs[1] \in R
          <5> HIDE DEF f, h
          <5>1. g[1] = g[1 - 1] \o seqs[1] /\ seqs[1] \in R
            BY <1>1, <1>8, <4>0
          <5> QED
            BY <1>8, <4>0, <5>1
        <4>2. g[1] = seqs[1]
          BY <4>1, ConcatEmptySeq DEF R
        <4> QED
          BY <3>1, <4>2
      <3>2. CASE i # 1
        <4>1. i - 1 \in 1 .. N
          BY <1>1, <3>2
        <4> QED
          BY <1>8, <3>2, <4>1
      <3> QED
        BY <3>1, <3>2
    <2>2. f = h
      BY <2>1
    <2>3. Is(f)
      BY <2>2 DEF Is
    <2> HIDE DEF f
    <2> QED
      BY <2>3 DEF flatten
  <1>10. \A n \in 1 .. N : flatten[n] = IF n = 1 THEN seqs[n]
                                        ELSE flatten[n - 1] \o seqs[n]
    BY <1>9 DEF Is
  <1> DEFINE f == [n \in 0 .. N |-> IF n = 0 THEN <<>> ELSE flatten[n]]
  <1>11. f[0] = <<>> /\ \A n \in 1 .. N : f[n] = f[n - 1] \o seqs[n]
    <2>1. f[0] = <<>>
      BY <1>1
    <2>2. ASSUME NEW n \in 1 .. N  PROVE f[n] = f[n - 1] \o seqs[n]
      <3>1. /\ n \in 0 .. N /\ n - 1 \in 0 .. N /\ n # 0
            /\ n = 1 <=> n - 1 = 0
        BY <1>1
      <3>2. seqs[n] = <<>> \o seqs[n]
        BY <1>1, ConcatEmptySeq DEF R
      <3>3. f[n] = flatten[n] /\ (n # 1 => f[n - 1] = flatten[n - 1])
            /\ (n = 1 => f[n - 1] = <<>>)
        BY <3>1
      <3> HIDE DEF f
      <3> QED
        BY <1>10, <3>2, <3>3
    <2> QED
      BY <2>1, <2>2
  <1>12. FlattenSeq(seqs) = f[N]
    BY <1>1, <1>5, <1>6
  <1> HIDE DEF f
  <1>13. Joins(f, seqs, T)
    BY <1>11, JoinsType DEF N
  <1> QED
    BY <1>12, <1>13 DEF N

LEMMA FlattenUnique ==
  ASSUME NEW T, NEW seqs \in Seq(Seq(T)), NEW g, Joins(g, seqs, T)
  PROVE  FlattenSeq(seqs) = g[Len(seqs)]
PROOF
  <1>1. Len(seqs) \in Nat
    BY LenProperties
  <1>2. PICK f : Joins(f, seqs, T) /\ FlattenSeq(seqs) = f[Len(seqs)]
    BY FlattenFunction, Zenon
  <1> DEFINE P == {n \in Nat : n <= Len(seqs) => f[n] = g[n]}
  <1>3. 0 \in P
    BY <1>2 DEF Joins
  <1>4. ASSUME NEW n \in P  PROVE n + 1 \in P
    <2>1. SUFFICES ASSUME n + 1 <= Len(seqs)  PROVE f[n + 1] = g[n + 1]
      OBVIOUS
    <2>2. n + 1 \in 1 .. Len(seqs) /\ (n + 1) - 1 = n /\ f[n] = g[n]
      BY <1>1, <2>1
    <2> QED
      BY <1>2, <2>2 DEF Joins
  <1>5. P = Nat
    <2> HIDE DEF P
    <2>1. P \in SUBSET Nat
      BY DEF P
    <2> QED
      BY <2>1, <1>3, <1>4, SetInduction
  <1> QED
    BY <1>1, <1>2, <1>5

LEMMA FlattenType ==
  ASSUME NEW T, NEW seqs \in Seq(Seq(T))
  PROVE  FlattenSeq(seqs) \in Seq(T)
PROOF
  <1>1. Len(seqs) \in 0 .. Len(seqs)
    BY LenProperties
  <1>2. PICK f : Joins(f, seqs, T) /\ FlattenSeq(seqs) = f[Len(seqs)]
    BY FlattenFunction, Zenon
  <1> QED
    BY <1>1, <1>2 DEF Joins

LEMMA FlattenEmpty == FlattenSeq(<<>>) = <<>>
PROOF
  <1>1. Len(<<>>) = 0
    BY EmptySeq
  <1> QED
    BY <1>1 DEF FlattenSeq

\* The first sequence comes first.
LEMMA FlattenHead ==
  ASSUME NEW T, NEW seqs \in Seq(Seq(T)), seqs # <<>>
  PROVE  FlattenSeq(seqs) = Head(seqs) \o FlattenSeq(Tail(seqs))
PROOF
  <1> DEFINE R == Seq(T)
             h == Head(seqs)
             rest == Tail(seqs)
             N == Len(seqs)
  <1>1. /\ h \in R /\ rest \in Seq(R) /\ N \in Nat /\ N # 0
        /\ Len(rest) = N - 1 /\ h = seqs[1]
        /\ \A i \in 1 .. N - 1 : rest[i] = seqs[i + 1]
        /\ \A i \in 1 .. N : seqs[i] \in R
    BY HeadTailProperties, LenProperties, EmptySeq, ElementOfSeq
  <1> HIDE DEF h, rest, N, R
  <1>2. PICK f : Joins(f, rest, T) /\ FlattenSeq(rest) = f[Len(rest)]
    <2>1. rest \in Seq(Seq(T))
      BY <1>1 DEF R
    <2> QED
      BY <2>1, FlattenFunction, Zenon
  <1>3. /\ \A n \in 0 .. N - 1 : f[n] \in R
        /\ f[0] = <<>>
        /\ \A n \in 1 .. N - 1 : f[n] = f[n - 1] \o rest[n]
    BY <1>1, <1>2 DEF Joins, R
  <1> DEFINE g == [n \in 0 .. N |-> IF n = 0 THEN <<>> ELSE h \o f[n - 1]]
  <1>4. g[0] = <<>> /\ \A n \in 1 .. N : g[n] = h \o f[n - 1]
    <2>1. 0 \in 0 .. N /\ \A n \in 1 .. N : n \in 0 .. N /\ n # 0
      BY <1>1
    <2> QED
      BY <2>1
  <1> HIDE DEF g
  <1>5. ASSUME NEW n \in 1 .. N  PROVE g[n] = g[n - 1] \o seqs[n]
    <2>1. CASE n = 1
      <3>1. n - 1 = 0 /\ seqs[n] = h
        BY <1>1, <2>1
      <3>2. g[n] = h \o <<>> /\ g[n - 1] = <<>>
        BY <1>3, <1>4, <3>1
      <3>3. h \o <<>> = h /\ <<>> \o h = h
        BY <1>1, ConcatEmptySeq DEF R
      <3> QED
        BY <3>1, <3>2, <3>3
    <2>2. CASE n # 1
      <3>1. /\ n - 1 \in 1 .. N /\ n - 1 \in 1 .. N - 1
            /\ (n - 1) - 1 \in 0 .. N - 1 /\ (n - 1) + 1 = n
        BY <1>1, <2>2
      <3>2. /\ f[n - 1] = f[(n - 1) - 1] \o seqs[n]
            /\ f[(n - 1) - 1] \in R /\ seqs[n] \in R
        BY <1>1, <1>3, <3>1
      <3>3. g[n] = h \o (f[(n - 1) - 1] \o seqs[n])
        BY <1>4, <3>2
      <3>4. g[n - 1] = h \o f[(n - 1) - 1]
        BY <1>4, <3>1
      <3> DEFINE u == f[(n - 1) - 1]
      <3>5. h \in R /\ u \in R /\ seqs[n] \in R
        BY <1>1, <3>2
      <3> DEFINE e == seqs[n]
      <3> HIDE DEF u, e
      <3>6. h \in Seq(T) /\ u \in Seq(T) /\ e \in Seq(T)
        BY <3>5 DEF R, e
      <3>7. (h \o u) \o e = h \o (u \o e)
        BY <3>6, ConcatAssociative
      <3> QED
        BY <3>3, <3>4, <3>7 DEF u, e
    <2> QED
      BY <2>1, <2>2
  <1>6. Joins(g, seqs, T)
    BY <1>4, <1>5, JoinsType DEF N
  <1>7. FlattenSeq(seqs) = g[N]
    BY <1>6, FlattenUnique DEF N
  <1>8. FlattenSeq(seqs) = h \o FlattenSeq(rest)
    <2>1. N \in 1 .. N
      BY <1>1
    <2> QED
      BY <1>1, <1>2, <1>4, <1>7, <2>1
  <1> QED
    BY <1>8 DEF h, rest

-----------------------------------------------------------------------------
(***************************************************************************)
(* What is in sequences that are put together.                             *)
(***************************************************************************)
LEMMA ElementsOf ==
  ASSUME NEW T, NEW s \in Seq(T)
  PROVE  /\ ToSet(s) = {s[i] : i \in 1 .. Len(s)}
         /\ ToSet(s) \subseteq T
BY LenProperties, ElementOfSeq DEF ToSet

LEMMA EmptyElements == ToSet(<<>>) = {}
PROOF
  <1> DEFINE none == <<>>
  <1>1. none \in Seq({}) /\ Len(none) = 0
    BY EmptySeq
  <1> HIDE DEF none
  <1>2. ToSet(none) = {none[i] : i \in 1 .. Len(none)}
    BY <1>1, ElementsOf
  <1>3. 1 .. Len(none) = {}
    BY <1>1
  <1> QED
    BY <1>2, <1>3 DEF none

LEMMA ConcatElements ==
  ASSUME NEW T, NEW s \in Seq(T), NEW t \in Seq(T)
  PROVE  ToSet(s \o t) = ToSet(s) \cup ToSet(t)
PROOF
  <1> DEFINE u == s \o t
  <1>1. /\ u \in Seq(T) /\ Len(u) = Len(s) + Len(t)
        /\ Len(s) \in Nat /\ Len(t) \in Nat
        /\ \A i \in 1 .. Len(s) + Len(t) :
             u[i] = IF i <= Len(s) THEN s[i] ELSE t[i - Len(s)]
    BY ConcatProperties, LenProperties
  <1> HIDE DEF u
  <1>2. /\ ToSet(s) = {s[i] : i \in 1 .. Len(s)}
        /\ ToSet(t) = {t[i] : i \in 1 .. Len(t)}
        /\ ToSet(u) = {u[i] : i \in 1 .. Len(u)}
    BY <1>1, ElementsOf
  <1>3. ASSUME NEW i \in 1 .. Len(u)  PROVE u[i] \in ToSet(s) \cup ToSet(t)
    <2>1. CASE i <= Len(s)
      <3>1. i \in 1 .. Len(s) /\ u[i] = s[i]
        BY <1>1, <2>1
      <3> QED
        BY <1>2, <3>1
    <2>2. CASE ~ (i <= Len(s))
      <3>1. i - Len(s) \in 1 .. Len(t) /\ u[i] = t[i - Len(s)]
        BY <1>1, <2>2
      <3> QED
        BY <1>2, <3>1
    <2> QED
      BY <2>1, <2>2
  <1>4. ASSUME NEW i \in 1 .. Len(s)  PROVE s[i] \in ToSet(u)
    <2>1. i \in 1 .. Len(u) /\ u[i] = s[i]
      BY <1>1
    <2> QED
      BY <1>2, <2>1
  <1>5. ASSUME NEW i \in 1 .. Len(t)  PROVE t[i] \in ToSet(u)
    <2>1. /\ i + Len(s) \in 1 .. Len(u) /\ ~ (i + Len(s) <= Len(s))
          /\ (i + Len(s)) - Len(s) = i
      BY <1>1
    <2>2. u[i + Len(s)] = t[i]
      BY <1>1, <2>1
    <2> QED
      BY <1>2, <2>1, <2>2
  <1>6. ToSet(u) \subseteq ToSet(s) \cup ToSet(t)
    BY <1>2, <1>3
  <1>7. ToSet(s) \subseteq ToSet(u) /\ ToSet(t) \subseteq ToSet(u)
    BY <1>2, <1>4, <1>5
  <1> QED
    BY <1>6, <1>7 DEF u

LEMMA FlattenElements ==
  ASSUME NEW T, NEW seqs \in Seq(Seq(T))
  PROVE  ToSet(FlattenSeq(seqs)) = UNION {ToSet(seqs[i]) : i \in 1 .. Len(seqs)}
PROOF
  <1> DEFINE N == Len(seqs)
             R == Seq(T)
             Upto(n) == UNION {ToSet(seqs[i]) : i \in 1 .. n}
  <1>1. N \in Nat /\ \A n \in 1 .. N : seqs[n] \in R
    BY LenProperties, ElementOfSeq
  <1>2. PICK f : Joins(f, seqs, T) /\ FlattenSeq(seqs) = f[Len(seqs)]
    BY FlattenFunction, Zenon
  <1>3. /\ \A n \in 0 .. N : f[n] \in R
        /\ f[0] = <<>>
        /\ \A n \in 1 .. N : f[n] = f[n - 1] \o seqs[n]
    BY <1>2 DEF Joins
  <1> DEFINE P == {n \in Nat : n <= N => ToSet(f[n]) = Upto(n)}
  <1>4. 0 \in P
    <2>1. Upto(0) = {}
      OBVIOUS
    <2> QED
      BY <1>3, <2>1, EmptyElements
  <1>5. ASSUME NEW n \in P  PROVE n + 1 \in P
    <2>1. SUFFICES ASSUME n + 1 <= N  PROVE ToSet(f[n + 1]) = Upto(n + 1)
      OBVIOUS
    <2>0. n \in Nat
      OBVIOUS
    <2>2. /\ n \in Nat /\ n + 1 \in 1 .. N /\ n \in 0 .. N /\ (n + 1) - 1 = n
          /\ n <= N
      <3> HIDE DEF P, N
      <3> QED
        BY <1>1, <2>0, <2>1
    <2>3. ToSet(f[n]) = Upto(n)
      BY <2>2
    <2>4. f[n] \in R /\ seqs[n + 1] \in R /\ f[n + 1] = f[n] \o seqs[n + 1]
      BY <1>1, <1>3, <2>2
    <2> DEFINE u == f[n]
               v == seqs[n + 1]
    <2>5. u \in Seq(T) /\ v \in Seq(T)
      BY <2>4
    <2> HIDE DEF u, v
    <2>6. ToSet(u \o v) = ToSet(u) \cup ToSet(v)
      BY <2>5, ConcatElements
    <2>7. Upto(n + 1) = Upto(n) \cup ToSet(seqs[n + 1])
      <3>1. \A i \in 1 .. n + 1 : i = n + 1 \/ i \in 1 .. n
        BY <2>2
      <3>2. \A i \in 1 .. n : i \in 1 .. n + 1
        BY <2>2
      <3>3. n + 1 \in 1 .. n + 1
        BY <2>2
      <3> QED
        BY <3>1, <3>2, <3>3
    <2> QED
      BY <2>3, <2>4, <2>6, <2>7 DEF u, v
  <1>6. P = Nat
    <2> HIDE DEF P
    <2>1. P \in SUBSET Nat
      BY DEF P
    <2> QED
      BY <2>1, <1>4, <1>5, SetInduction
  <1>7. N \in P
    BY <1>1, <1>6
  <1> QED
    BY <1>1, <1>2, <1>7
=============================================================================
