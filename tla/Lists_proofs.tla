------------------------------ MODULE Lists_proofs ------------------------------
(***************************************************************************)
(* Facts about lists, and about what Keep keeps of one, for any lists.     *)
(*                                                                         *)
(* Induction is over sets: to show that all lists have a property, the set *)
(* of those that have it is shown to hold the empty list and to be closed  *)
(* under appending.  That the set then holds every list rests on the       *)
(* library's well-founded order of finite sets (SmallestOf).               *)
(***************************************************************************)
EXTENDS Lists, Integers, Functions, FiniteSetTheorems, TLAPS

\* A set of naturals has a smallest element: the initial segments below its
\* elements are finite sets, of which one has no other inside.
LEMMA SmallestOf ==
  ASSUME NEW S \in SUBSET Nat, S # {}
  PROVE  \E n \in S : \A m \in S : n <= m
<1> DEFINE R == StrictSubsetOrdering(Nat)
           T == {0..n : n \in S}
<1>1. IsWellFoundedOn(R, FiniteSubsetsOf(Nat))
  BY FS_StrictSubsetOrderingWellFounded
<1>2. T \subseteq FiniteSubsetsOf(Nat)
  <2>1. \A n \in S : 0..n \subseteq Nat /\ IsFiniteSet(0..n)
    BY FS_Interval
  <2>2. QED
    BY <2>1 DEF FiniteSubsetsOf
<1>3. T # {}
  OBVIOUS
<1>4. PICK X \in T : \A Y \in T : <<Y, X>> \notin R
  <2> HIDE DEF R, T
  <2>1. QED
    BY <1>1, <1>2, <1>3, WFMin
<1>5. PICK n \in S : X = 0..n
  OBVIOUS
<1>6. ASSUME NEW m \in S, m < n PROVE FALSE
  <2>1. <<0..m, X>> \in R
    BY <1>5, <1>6 DEF StrictSubsetOrdering
  <2>2. QED
    BY <1>4, <2>1
<1>7. QED
  BY <1>6

\* Induction over the numbers up to N, and over the lists of elements of T.
LEMMA UpTo ==
  ASSUME NEW N \in Nat, NEW P, 0 \in P, \A n \in 1..N : n - 1 \in P => n \in P
  PROVE  \A n \in 0..N : n \in P
<1> SUFFICES ASSUME (0..N) \ P # {} PROVE FALSE
  OBVIOUS
<1> DEFINE R == (0..N) \ P
<1>0. R \in SUBSET Nat /\ R # {}
  OBVIOUS
<1>1. PICK n \in R : \A m \in R : n <= m
  <2> HIDE DEF R
  <2>1. QED
    BY <1>0, SmallestOf
<1>2. n # 0 /\ n - 1 \in 0..N
  BY <1>1
<1>3. n - 1 \in P
  BY <1>1, <1>2
<1>4. QED
  BY <1>1, <1>2, <1>3

\* A set of lists that has the empty one, and with a list every one that is one
\* element longer, has them all.
LEMMA Appending ==
  ASSUME NEW T, NEW P, <<>> \in P, \A s \in Seq(T) \cap P : \A e \in T : Append(s, e) \in P
  PROVE  Seq(T) \subseteq P
<1> SUFFICES ASSUME NEW s \in Seq(T) PROVE s \in P
  OBVIOUS
<1> DEFINE Q == {n \in 0..Len(s) : SubSeq(s, 1, n) \in P}
<1>1. 0 \in Q
  <2>1. SubSeq(s, 1, 0) = <<>> /\ 0 \in 0..Len(s)
    OBVIOUS
  <2>2. QED
    BY <2>1
<1>2. ASSUME NEW n \in 1..Len(s), n - 1 \in Q PROVE n \in Q
  <2>1. SubSeq(s, 1, n - 1) \in Seq(T) /\ s[n] \in T
    OBVIOUS
  <2>2. SubSeq(s, 1, n) = Append(SubSeq(s, 1, n - 1), s[n])
    OBVIOUS
  <2>3. SubSeq(s, 1, n - 1) \in P
    BY <1>2
  <2>4. SubSeq(s, 1, n) \in P
    BY <2>1, <2>2, <2>3
  <2>5. QED
    BY <2>4
<1>3. Len(s) \in Nat
  OBVIOUS
<1>4. \A n \in 0..Len(s) : n \in Q
  <2> HIDE DEF Q
  <2>1. \A n \in 1..Len(s) : n - 1 \in Q => n \in Q
    BY <1>2
  <2>2. QED
    BY <1>1, <1>3, <2>1, UpTo
<1>5. SubSeq(s, 1, Len(s)) = s
  OBVIOUS
<1>6. Len(s) \in Q
  <2> HIDE DEF Q
  <2>1. QED
    BY <1>3, <1>4
<1>7. QED
  BY <1>5, <1>6

\* A function is defined by its value at 0 and by a step: g[<<x, n>>] follows x at n.
Steps(g, S, N) == g \in [S \X (1..N) -> S]
Follows(f, base, g, N) == f[0] = base /\ \A n \in 1..N : f[n] = g[<<f[n - 1], n>>]

\* A function that computes a value from the one before it can be followed for as
\* long as one likes.
LEMMA Recursion ==
  ASSUME NEW S, NEW base, NEW N, NEW g, base \in S, N \in Nat, Steps(g, S, N)
  PROVE  \E f \in [0..N -> S] : Follows(f, base, g, N)
<1> USE DEF Steps
<1> DEFINE P == {m \in 0..N : \E f \in [0..m -> S] :
                   f[0] = base /\ \A n \in 1..m : f[n] = g[<<f[n - 1], n>>]}
<1>1. 0 \in P
  <2> DEFINE h == [n \in 0..0 |-> base]
  <2>1. h \in [0..0 -> S] /\ h[0] = base /\ 1..0 = {}
    OBVIOUS
  <2> HIDE DEF h
  <2>2. QED
    BY <2>1
<1>2. ASSUME NEW m \in 1..N, m - 1 \in P PROVE m \in P
  <2>1. PICK f \in [0..m - 1 -> S] :
          f[0] = base /\ \A n \in 1..m - 1 : f[n] = g[<<f[n - 1], n>>]
    BY <1>2
  <2> DEFINE h == [n \in 0..m |-> IF n = m THEN g[<<f[m - 1], m>>] ELSE f[n]]
  <2>2. g[<<f[m - 1], m>>] \in S
    OBVIOUS
  <2>3. h \in [0..m -> S]
    BY <2>2
  <2>4. h[0] = base
    BY <2>1
  <2>5. ASSUME NEW n \in 1..m PROVE h[n] = g[<<h[n - 1], n>>]
    <3>1. h[n - 1] = f[n - 1]
      OBVIOUS
    <3>2. CASE n = m
      BY <3>1, <3>2
    <3>3. CASE n # m
      BY <2>1, <3>1, <3>3
    <3>4. QED
      BY <3>2, <3>3
  <2> HIDE DEF h
  <2>6. \E k \in [0..m -> S] : k[0] = base /\ \A n \in 1..m : k[n] = g[<<k[n - 1], n>>]
    BY <2>3, <2>4, <2>5
  <2>7. QED
    BY <2>6
<1>3. N \in P
  <2> HIDE DEF P
  <2>1. QED
    BY <1>1, <1>2, UpTo
<1>4. QED
  BY <1>3 DEF Follows

-----------------------------------------------------------------------------
(* What Keep keeps.                                                          *)

\* One element at a time: k[n] is what is kept of the first n.
Keeping(k, list, S) ==
  k = [n \in 0..Len(list) |->
         IF n = 0 THEN <<>>
         ELSE IF list[n] \in S THEN Append(k[n - 1], list[n]) ELSE k[n - 1]]

\* There is a function that gathers, element by element, what is kept.
LEMMA KeptExists ==
  ASSUME NEW T, NEW l \in Seq(T), NEW S
  PROVE  \E k \in [0..Len(l) -> Seq(T)] : Keeping(k, l, S)
<1> DEFINE N == Len(l)
           g == [x \in Seq(T) \X (1..N) |->
                   IF l[x[2]] \in S THEN Append(x[1], l[x[2]]) ELSE x[1]]
<1>1. N \in Nat /\ <<>> \in Seq(T)
  OBVIOUS
<1>2. \A n \in 1..N : l[n] \in T
  OBVIOUS
<1>3. g \in [Seq(T) \X (1..N) -> Seq(T)]
  <2>1. \A x \in Seq(T) \X (1..N) : x[1] \in Seq(T) /\ l[x[2]] \in T
    BY <1>2
  <2>2. \A x \in Seq(T) \X (1..N) :
          (IF l[x[2]] \in S THEN Append(x[1], l[x[2]]) ELSE x[1]) \in Seq(T)
    BY <2>1
  <2>3. QED
    BY <2>2
<1>4. \A s \in Seq(T) : \A n \in 1..N :
        g[<<s, n>>] = IF l[n] \in S THEN Append(s, l[n]) ELSE s
  OBVIOUS
<1> HIDE DEF g, N
<1>5. PICK f \in [0..N -> Seq(T)] : Follows(f, <<>>, g, N)
  <2> DEFINE L == Seq(T)
             base == <<>>
  <2>1. N \in Nat /\ base \in L /\ Steps(g, L, N)
    BY <1>1, <1>3 DEF Steps
  <2> HIDE DEF L, base
  <2>2. \E f \in [0..N -> L] : Follows(f, base, g, N)
    BY <2>1, Recursion
  <2>3. QED
    BY <2>2 DEF L, base
<1>6. ASSUME NEW n \in 0..N
      PROVE  f[n] = IF n = 0 THEN <<>>
                    ELSE IF l[n] \in S THEN Append(f[n - 1], l[n]) ELSE f[n - 1]
  <2>1. CASE n = 0
    BY <1>5, <2>1 DEF Follows
  <2>2. CASE n # 0
    <3>1. n \in 1..N /\ n - 1 \in 0..N
      BY <1>1, <2>2
    <3>2. f[n - 1] \in Seq(T)
      BY <3>1
    <3>3. QED
      BY <1>4, <1>5, <2>2, <3>1, <3>2 DEF Follows
  <2>3. QED
    BY <2>1, <2>2
<1>7. f = [n \in 0..N |->
             IF n = 0 THEN <<>>
             ELSE IF l[n] \in S THEN Append(f[n - 1], l[n]) ELSE f[n - 1]]
  BY <1>6
<1>8. QED
  BY <1>5, <1>7 DEF Keeping, N

\* Beginnings of two lists that agree are kept alike.
LEMMA KeptUnique ==
  ASSUME NEW l, NEW m, NEW S, NEW N \in Nat, NEW j, NEW k,
         Len(l) \in Nat, Len(m) \in Nat, N <= Len(l), N <= Len(m),
         \A n \in 1..N : l[n] = m[n], Keeping(j, l, S), Keeping(k, m, S)
  PROVE  j[N] = k[N]
<1> DEFINE P == {n \in 0..N : j[n] = k[n]}
<1>1. 0 \in P
  BY DEF Keeping
<1>2. ASSUME NEW n \in 1..N, n - 1 \in P PROVE n \in P
  <2>1. j[n - 1] = k[n - 1] /\ n \in 0..Len(l) /\ n \in 0..Len(m) /\ n # 0
    BY <1>2
  <2>2. j[n] = IF l[n] \in S THEN Append(j[n - 1], l[n]) ELSE j[n - 1]
    BY <2>1 DEF Keeping
  <2>3. k[n] = IF m[n] \in S THEN Append(k[n - 1], m[n]) ELSE k[n - 1]
    BY <2>1 DEF Keeping
  <2>4. QED
    BY <2>1, <2>2, <2>3
<1>3. \A n \in 0..N : n \in P
  <2> HIDE DEF P
  <2>1. QED
    BY <1>1, <1>2, UpTo
<1>4. QED
  BY <1>3

\* Keep is the end of such a gathering.
LEMMA KeepIsKept ==
  ASSUME NEW T, NEW l \in Seq(T), NEW S
  PROVE  \E k \in [0..Len(l) -> Seq(T)] : Keeping(k, l, S) /\ Keep(l, S) = k[Len(l)]
<1>1. PICK k \in [0..Len(l) -> Seq(T)] : Keeping(k, l, S)
  BY KeptExists
<1> DEFINE c == CHOOSE j : Keeping(j, l, S)
<1>2. Keeping(c, l, S)
  BY <1>1
<1>3. Keep(l, S) = c[Len(l)]
  BY DEF Keep, Keeping
<1> HIDE DEF c
<1>4. Len(l) \in Nat
  OBVIOUS
<1>5. c[Len(l)] = k[Len(l)]
  BY <1>1, <1>2, <1>4, KeptUnique
<1>6. QED
  BY <1>1, <1>3, <1>5

\* Keep's values, and its recursion: on the empty list and on a longer one.
LEMMA KeepType ==
  ASSUME NEW T, NEW l \in Seq(T), NEW S
  PROVE  Keep(l, S) \in Seq(T)
<1>1. PICK k \in [0..Len(l) -> Seq(T)] : Keep(l, S) = k[Len(l)]
  BY KeepIsKept
<1>2. Len(l) \in 0..Len(l)
  OBVIOUS
<1>3. QED
  BY <1>1, <1>2

\* Of nothing, nothing is kept.
LEMMA KeepEmpty ==
  ASSUME NEW S
  PROVE  Keep(<<>>, S) = <<>>
<1>1. <<>> \in Seq({}) /\ Len(<<>>) = 0
  OBVIOUS
<1> DEFINE l == <<>>
<1>2. PICK k : Keeping(k, l, S) /\ Keep(l, S) = k[Len(l)]
  <2>1. l \in Seq({})
    BY <1>1
  <2> HIDE DEF l
  <2>2. QED
    BY <2>1, KeepIsKept
<1>3. QED
  BY <1>1, <1>2 DEF Keeping

\* Keeping goes element by element.
LEMMA KeepAppend ==
  ASSUME NEW T, NEW l \in Seq(T), NEW e \in T, NEW S
  PROVE  Keep(Append(l, e), S) = IF e \in S THEN Append(Keep(l, S), e) ELSE Keep(l, S)
<1> DEFINE m == Append(l, e)
           N == Len(l)
<1>1. /\ m \in Seq(T) /\ Len(m) = N + 1 /\ N \in Nat /\ m[N + 1] = e
      /\ \A n \in 1..N : l[n] = m[n]
  OBVIOUS
<1> HIDE DEF m
<1>2. PICK j : Keeping(j, l, S) /\ Keep(l, S) = j[N]
  BY KeepIsKept
<1>3. PICK k : Keeping(k, m, S) /\ Keep(m, S) = k[N + 1]
  BY <1>1, KeepIsKept
<1>4. j[N] = k[N]
  <2>1. N <= Len(l) /\ N <= Len(m) /\ Len(m) \in Nat
    BY <1>1
  <2> HIDE DEF N
  <2>2. QED
    BY <1>1, <1>2, <1>3, <2>1, KeptUnique DEF N
<1>5. k[N + 1] = IF e \in S THEN Append(k[N], e) ELSE k[N]
  <2>1. N + 1 \in 0..Len(m) /\ N + 1 # 0 /\ (N + 1) - 1 = N
    BY <1>1
  <2> HIDE DEF N
  <2>2. k[N + 1] = IF m[N + 1] \in S THEN Append(k[(N + 1) - 1], m[N + 1]) ELSE k[(N + 1) - 1]
    BY <1>3, <2>1 DEF Keeping
  <2>3. QED
    BY <1>1, <2>1, <2>2
<1>6. QED
  BY <1>2, <1>3, <1>4, <1>5 DEF m

\* What is appended is one more element of the list.
LEMMA RangeAppend ==
  ASSUME NEW T, NEW l \in Seq(T), NEW e \in T
  PROVE  Range(Append(l, e)) = Range(l) \cup {e}
<1>1. Len(l) \in Nat /\ DOMAIN Append(l, e) = 1..Len(l) + 1 /\ DOMAIN l = 1..Len(l)
  OBVIOUS
<1>2. Append(l, e)[Len(l) + 1] = e /\ \A n \in 1..Len(l) : Append(l, e)[n] = l[n]
  OBVIOUS
<1>3. \A n \in 1..Len(l) + 1 : n \in 1..Len(l) \/ n = Len(l) + 1
  BY <1>1
<1>4. Len(l) + 1 \in 1..Len(l) + 1 /\ \A n \in 1..Len(l) : n \in 1..Len(l) + 1
  BY <1>1
<1> HIDE DEF Range
<1>5. QED
  BY <1>1, <1>2, <1>3, <1>4 DEF Range

\* A list with one more element is not empty.
LEMMA AppendedSome ==
  ASSUME NEW T, NEW l \in Seq(T), NEW e \in T
  PROVE  Append(l, e) # <<>>
<1>1. Len(Append(l, e)) = Len(l) + 1 /\ Len(l) \in Nat /\ Len(<<>>) = 0
  OBVIOUS
<1>2. QED
  BY <1>1

\* The last element of a list, and those before it, are determined by the list.
LEMMA AppendedSame ==
  ASSUME NEW T, NEW l \in Seq(T), NEW m \in Seq(T), NEW d \in T, NEW e \in T,
         Append(l, d) = Append(m, e)
  PROVE  l = m /\ d = e
<1>1. Len(Append(l, d)) = Len(l) + 1 /\ Len(Append(m, e)) = Len(m) + 1
  OBVIOUS
<1>2. Len(l) \in Nat /\ Len(m) \in Nat
  OBVIOUS
<1>3. Len(l) = Len(m)
  BY <1>1, <1>2
<1>4. Append(l, d)[Len(l) + 1] = d /\ Append(m, e)[Len(m) + 1] = e
  OBVIOUS
<1>5. \A n \in 1..Len(l) : Append(l, d)[n] = l[n]
  OBVIOUS
<1>6. \A n \in 1..Len(m) : Append(m, e)[n] = m[n]
  OBVIOUS
<1>7. \A n \in 1..Len(l) : l[n] = m[n]
  BY <1>3, <1>5, <1>6
<1>8. l = [n \in 1..Len(l) |-> l[n]] /\ m = [n \in 1..Len(m) |-> m[n]]
  OBVIOUS
<1>9. l = m
  BY <1>3, <1>7, <1>8
<1>10. QED
  BY <1>3, <1>4, <1>9

\* Appending keeps a list without duplicates when the element is new, and only then.
LEMMA AppendOnce ==
  ASSUME NEW T, NEW l \in Seq(T), NEW e \in T
  PROVE  /\ IsInjective(Append(l, e)) => IsInjective(l) /\ e \notin Range(l)
         /\ IsInjective(l) /\ e \notin Range(l) => IsInjective(Append(l, e))
<1> DEFINE m == Append(l, e)
           N == Len(l) + 1
<1>1. Len(l) \in Nat /\ DOMAIN m = 1..N /\ DOMAIN l = 1..Len(l)
  OBVIOUS
<1>2. m[N] = e /\ \A n \in 1..Len(l) : m[n] = l[n]
  OBVIOUS
<1>3. \A n : n \in 1..N <=> n \in 1..Len(l) \/ n = N
  BY <1>1
<1>4. N \notin 1..Len(l)
  BY <1>1
<1> HIDE DEF m, N
<1>5. ASSUME IsInjective(m) PROVE IsInjective(l) /\ e \notin Range(l)
  <2>1. ASSUME NEW a \in DOMAIN l, NEW b \in DOMAIN l, l[a] = l[b] PROVE a = b
    BY <1>1, <1>2, <1>3, <1>5, <2>1 DEF IsInjective
  <2>2. ASSUME NEW a \in DOMAIN l, l[a] = e PROVE FALSE
    BY <1>1, <1>2, <1>3, <1>4, <1>5, <2>2 DEF IsInjective
  <2>3. QED
    BY <2>1, <2>2 DEF IsInjective, Range
<1>6. ASSUME IsInjective(l), e \notin Range(l) PROVE IsInjective(m)
  <2>1. \A n \in 1..Len(l) : l[n] # e
    BY <1>1, <1>6 DEF Range
  <2>2. ASSUME NEW a \in DOMAIN m, NEW b \in DOMAIN m, m[a] = m[b] PROVE a = b
    BY <1>1, <1>2, <1>3, <1>6, <2>1, <2>2 DEF IsInjective
  <2>3. QED
    BY <2>2 DEF IsInjective
<1>7. QED
  BY <1>5, <1>6 DEF m

\* An order is a set of pairs.
Ordered(l, R) == \A m, n \in DOMAIN l : m < n => <<l[m], l[n]>> \in R

\* Appending keeps a list in order when every element may come before the new one,
\* and only then.
LEMMA AppendOrdered ==
  ASSUME NEW T, NEW l \in Seq(T), NEW e \in T, NEW R
  PROVE  /\ Ordered(Append(l, e), R) => Ordered(l, R) /\ \A d \in Range(l) : <<d, e>> \in R
         /\ Ordered(l, R) /\ (\A d \in Range(l) : <<d, e>> \in R) => Ordered(Append(l, e), R)
<1>1. Len(l) \in Nat /\ DOMAIN Append(l, e) = 1..Len(l) + 1 /\ DOMAIN l = 1..Len(l)
  OBVIOUS
<1>2. Append(l, e)[Len(l) + 1] = e /\ \A n \in 1..Len(l) : Append(l, e)[n] = l[n]
  OBVIOUS
<1>3. \A n : n \in 1..Len(l) + 1 <=> n \in 1..Len(l) \/ n = Len(l) + 1
  BY <1>1
<1>4. \A n \in 1..Len(l) : n < Len(l) + 1 /\ ~(Len(l) + 1 < n)
  BY <1>1
<1>5. QED
  BY <1>1, <1>2, <1>3, <1>4 DEF Range, Ordered

\* Two lists in order are so one after the other when every element of the one may
\* come before every element of the other.
LEMMA ConcatOrdered ==
  ASSUME NEW T, NEW l \in Seq(T), NEW m \in Seq(T), NEW R, Ordered(l, R), Ordered(m, R),
         \A d \in Range(l) : \A e \in Range(m) : <<d, e>> \in R
  PROVE  Ordered(l \o m, R)
<1> DEFINE c == l \o m
           N == Len(l)
<1>1. /\ N \in Nat /\ Len(m) \in Nat
      /\ DOMAIN l = 1..N /\ DOMAIN m = 1..Len(m) /\ DOMAIN c = 1..N + Len(m)
      /\ \A n \in DOMAIN c : c[n] = IF n <= N THEN l[n] ELSE m[n - N]
  OBVIOUS
<1> HIDE DEF c, N
<1>2. ASSUME NEW i \in DOMAIN c, NEW j \in DOMAIN c, i < j PROVE <<c[i], c[j]>> \in R
  <2>1. CASE j <= N
    <3>1. i \in DOMAIN l /\ j \in DOMAIN l /\ c[i] = l[i] /\ c[j] = l[j]
      BY <1>1, <1>2, <2>1
    <3>2. QED
      BY <1>2, <3>1 DEF Ordered
  <2>2. CASE N < i
    <3>1. /\ i - N \in DOMAIN m /\ j - N \in DOMAIN m /\ i - N < j - N
          /\ c[i] = m[i - N] /\ c[j] = m[j - N]
      BY <1>1, <1>2, <2>2
    <3>2. QED
      BY <3>1 DEF Ordered
  <2>3. CASE i <= N /\ N < j
    <3>1. i \in DOMAIN l /\ j - N \in DOMAIN m /\ c[i] = l[i] /\ c[j] = m[j - N]
      BY <1>1, <1>2, <2>3
    <3>2. c[i] \in Range(l) /\ c[j] \in Range(m)
      BY <3>1 DEF Range
    <3>3. QED
      BY <3>2
  <2>4. QED
    BY <1>1, <2>1, <2>2, <2>3
<1>3. QED
  BY <1>2 DEF Ordered, c

\* What is kept are the elements that are in S.
LEMMA KeepRange ==
  ASSUME NEW T, NEW l \in Seq(T), NEW S
  PROVE  Range(Keep(l, S)) = Range(l) \cap S
<1> DEFINE P == {s \in Seq(T) : Range(Keep(s, S)) = Range(s) \cap S}
<1>1. <<>> \in P
  BY KeepEmpty DEF Range
<1>2. ASSUME NEW s \in Seq(T) \cap P, NEW e \in T PROVE Append(s, e) \in P
  <2>0. s \in Seq(T) /\ (Range(Keep(s, S)) = Range(s) \cap S)
    OBVIOUS
  <2>1. Range(Append(s, e)) = Range(s) \cup {e}
    BY <2>0, RangeAppend
  <2>2. Range(Append(Keep(s, S), e)) = Range(Keep(s, S)) \cup {e}
    BY <2>0, KeepType, RangeAppend
  <2>3. Range(Keep(Append(s, e), S)) = Range(Append(s, e)) \cap S
    <3>1. CASE e \in S
      <4>1. Keep(Append(s, e), S) = Append(Keep(s, S), e)
        BY <2>0, <3>1, KeepAppend
      <4>2. (Range(s) \cap S) \cup {e} = (Range(s) \cup {e}) \cap S
        BY <3>1
      <4>3. QED
        BY <2>0, <2>1, <2>2, <4>1, <4>2
    <3>2. CASE e \notin S
      BY <2>0, <2>1, <3>2, KeepAppend
    <3>3. QED
      BY <3>1, <3>2
  <2>4. QED
    BY <2>3
<1>3. Seq(T) \subseteq P
  <2> HIDE DEF P
  <2>1. QED
    BY <1>1, <1>2, Appending
<1>4. QED
  BY <1>3

\* once where they were there once,
LEMMA KeepInjective ==
  ASSUME NEW T, NEW l \in Seq(T), NEW S, IsInjective(l)
  PROVE  IsInjective(Keep(l, S))
<1> DEFINE P == {s \in Seq(T) : IsInjective(s) => IsInjective(Keep(s, S))}
<1>1. <<>> \in P
  BY KeepEmpty DEF IsInjective
<1>2. ASSUME NEW s \in Seq(T) \cap P, NEW e \in T PROVE Append(s, e) \in P
  <2>0. s \in Seq(T) /\ (IsInjective(s) => IsInjective(Keep(s, S)))
    OBVIOUS
  <2> SUFFICES ASSUME IsInjective(Append(s, e)) PROVE IsInjective(Keep(Append(s, e), S))
    OBVIOUS
  <2>1. IsInjective(s) /\ e \notin Range(s)
    BY <2>0, AppendOnce
  <2>2. IsInjective(Keep(s, S)) /\ e \notin Range(Keep(s, S)) /\ Keep(s, S) \in Seq(T)
    BY <2>0, <2>1, KeepRange, KeepType
  <2>3. IsInjective(Append(Keep(s, S), e))
    BY <2>2, AppendOnce
  <2>4. QED
    BY <2>0, <2>2, <2>3, KeepAppend
<1>3. Seq(T) \subseteq P
  <2> HIDE DEF P
  <2>1. QED
    BY <1>1, <1>2, Appending
<1>4. QED
  BY <1>3

\* and in the order they were in, whichever order it is.
LEMMA KeepOrdered ==
  ASSUME NEW T, NEW l \in Seq(T), NEW S, NEW R, Ordered(l, R)
  PROVE  Ordered(Keep(l, S), R)
<1> DEFINE P == {s \in Seq(T) : Ordered(s, R) => Ordered(Keep(s, S), R)}
<1>1. <<>> \in P
  <2>1. Ordered(<<>>, R) /\ <<>> \in Seq(T)
    BY DEF Ordered
  <2>2. QED
    BY <2>1, KeepEmpty
<1>2. ASSUME NEW s \in Seq(T) \cap P, NEW e \in T PROVE Append(s, e) \in P
  <2>0. s \in Seq(T) /\ (Ordered(s, R) => Ordered(Keep(s, S), R))
    OBVIOUS
  <2> SUFFICES ASSUME Ordered(Append(s, e), R) PROVE Ordered(Keep(Append(s, e), S), R)
    OBVIOUS
  <2>1. Ordered(s, R) /\ \A d \in Range(s) : <<d, e>> \in R
    BY <2>0, AppendOrdered
  <2>2. Ordered(Keep(s, S), R) /\ Keep(s, S) \in Seq(T) /\ \A d \in Range(Keep(s, S)) : <<d, e>> \in R
    BY <2>0, <2>1, KeepRange, KeepType
  <2>3. Ordered(Append(Keep(s, S), e), R)
    BY <2>2, AppendOrdered
  <2>4. QED
    BY <2>0, <2>2, <2>3, KeepAppend
<1>3. Seq(T) \subseteq P
  <2> HIDE DEF P
  <2>1. QED
    BY <1>1, <1>2, Appending
<1>4. QED
  BY <1>3

\* Keeping twice, and keeping of two lists.
LEMMA KeepKeep ==
  ASSUME NEW T, NEW l \in Seq(T), NEW S, NEW U
  PROVE  Keep(Keep(l, S), U) = Keep(l, S \cap U)
<1> DEFINE P == {s \in Seq(T) : Keep(Keep(s, S), U) = Keep(s, S \cap U)}
<1>1. <<>> \in P
  BY KeepEmpty
<1>2. ASSUME NEW s \in Seq(T) \cap P, NEW e \in T PROVE Append(s, e) \in P
  <2>0. s \in Seq(T) /\ (Keep(Keep(s, S), U) = Keep(s, S \cap U))
    OBVIOUS
  <2>1. Keep(s, S) \in Seq(T) /\ Append(s, e) \in Seq(T)
    BY KeepType
  <2>2. Keep(Append(s, e), S) = IF e \in S THEN Append(Keep(s, S), e) ELSE Keep(s, S)
    BY KeepAppend
  <2>3. Keep(Append(s, e), S \cap U) =
          IF e \in S \cap U THEN Append(Keep(s, S \cap U), e) ELSE Keep(s, S \cap U)
    BY KeepAppend
  <2>4. Keep(Append(Keep(s, S), e), U) =
          IF e \in U THEN Append(Keep(Keep(s, S), U), e) ELSE Keep(Keep(s, S), U)
    BY <2>1, KeepAppend, ZenonT(30)
  <2>5. Keep(Keep(Append(s, e), S), U) = Keep(Append(s, e), S \cap U)
    <3>1. CASE e \in S
      <4>1. Keep(Keep(Append(s, e), S), U) = Keep(Append(Keep(s, S), e), U)
        BY <2>2, <3>1
      <4>2. e \in S \cap U <=> e \in U
        BY <3>1
      <4>3. QED
        BY <2>0, <2>3, <2>4, <4>1, <4>2
    <3>2. CASE e \notin S
      BY <2>0, <2>2, <2>3, <3>2
    <3>3. QED
      BY <3>1, <3>2
  <2>6. QED
    BY <2>1, <2>5
<1>3. Seq(T) \subseteq P
  <2> HIDE DEF P
  <2>1. QED
    BY <1>1, <1>2, Appending
<1>4. QED
  BY <1>3

\* What is kept of two lists is what is kept of the one, and then of the other.
LEMMA KeepConcat ==
  ASSUME NEW T, NEW l \in Seq(T), NEW m \in Seq(T), NEW S
  PROVE  Keep(l \o m, S) = Keep(l, S) \o Keep(m, S)
<1> DEFINE P == {s \in Seq(T) : Keep(l \o s, S) = Keep(l, S) \o Keep(s, S)}
<1>0. Keep(l, S) \in Seq(T)
  BY KeepType
<1>1. <<>> \in P
  <2>1. l \o <<>> = l /\ Keep(l, S) \o <<>> = Keep(l, S)
    BY <1>0
  <2>2. Keep(<<>>, S) = <<>> /\ <<>> \in Seq(T)
    BY KeepEmpty
  <2>3. Keep(l \o <<>>, S) = Keep(l, S) \o Keep(<<>>, S)
    BY <2>1, <2>2
  <2>4. QED
    BY <2>2, <2>3
<1>2. ASSUME NEW s \in Seq(T) \cap P, NEW e \in T PROVE Append(s, e) \in P
  <2>0. s \in Seq(T) /\ (Keep(l \o s, S) = Keep(l, S) \o Keep(s, S))
    OBVIOUS
  <2>1. Keep(s, S) \in Seq(T) /\ Append(s, e) \in Seq(T) /\ l \o s \in Seq(T)
    BY KeepType
  <2>2. l \o Append(s, e) = Append(l \o s, e)
    OBVIOUS
  <2>3. Keep(l, S) \o Append(Keep(s, S), e) = Append(Keep(l, S) \o Keep(s, S), e)
    BY <1>0, <2>1
  <2>4. Keep(Append(s, e), S) = IF e \in S THEN Append(Keep(s, S), e) ELSE Keep(s, S)
    BY KeepAppend
  <2>5. Keep(Append(l \o s, e), S) =
          IF e \in S THEN Append(Keep(l \o s, S), e) ELSE Keep(l \o s, S)
    <3> DEFINE c == l \o s
    <3>1. c \in Seq(T)
      BY <2>1
    <3> HIDE DEF c
    <3>2. Keep(Append(c, e), S) = IF e \in S THEN Append(Keep(c, S), e) ELSE Keep(c, S)
      BY <3>1, KeepAppend
    <3>3. QED
      BY <3>2 DEF c
  <2>6. Keep(l \o s, S) = Keep(l, S) \o Keep(s, S)
    OBVIOUS
  <2>7. Keep(l \o Append(s, e), S) = Keep(l, S) \o Keep(Append(s, e), S)
    BY <2>2, <2>3, <2>4, <2>5, <2>6
  <2>8. QED
    BY <2>1, <2>7
<1>3. Seq(T) \subseteq P
  <2> HIDE DEF P
  <2>1. QED
    BY <1>1, <1>2, Appending
<1>4. QED
  BY <1>3

\* Tests that agree on a list keep the same of it: all of it, or none.
LEMMA KeepSame ==
  ASSUME NEW T, NEW l \in Seq(T), NEW S, NEW U, Range(l) \cap S = Range(l) \cap U
  PROVE  Keep(l, S) = Keep(l, U)
<1> DEFINE P == {s \in Seq(T) : Range(s) \cap S = Range(s) \cap U => Keep(s, S) = Keep(s, U)}
<1>1. <<>> \in P
  BY KeepEmpty
<1>2. ASSUME NEW s \in Seq(T) \cap P, NEW e \in T PROVE Append(s, e) \in P
  <2>0. s \in Seq(T) /\ (Range(s) \cap S = Range(s) \cap U => Keep(s, S) = Keep(s, U))
    OBVIOUS
  <2> SUFFICES ASSUME Range(Append(s, e)) \cap S = Range(Append(s, e)) \cap U
               PROVE  Keep(Append(s, e), S) = Keep(Append(s, e), U)
    OBVIOUS
  <2>1. Range(Append(s, e)) = Range(s) \cup {e}
    BY <2>0, RangeAppend
  <2>2. Range(s) \cap S = Range(s) \cap U /\ (e \in S <=> e \in U)
    BY <2>1
  <2>3. Keep(s, S) = Keep(s, U)
    BY <2>0, <2>2
  <2>4. Keep(Append(s, e), S) = IF e \in S THEN Append(Keep(s, S), e) ELSE Keep(s, S)
    BY <2>0, KeepAppend
  <2>5. Keep(Append(s, e), U) = IF e \in U THEN Append(Keep(s, U), e) ELSE Keep(s, U)
    BY <2>0, KeepAppend
  <2>6. QED
    BY <2>2, <2>3, <2>4, <2>5
<1>3. Seq(T) \subseteq P
  <2> HIDE DEF P
  <2>1. QED
    BY <1>1, <1>2, Appending
<1>4. QED
  BY <1>3

\* Of a list of elements of S all is kept.
LEMMA KeepAll ==
  ASSUME NEW T, NEW l \in Seq(T), NEW S, Range(l) \subseteq S
  PROVE  Keep(l, S) = l
<1> DEFINE P == {s \in Seq(T) : Keep(s, T) = s}
<1>1. <<>> \in P
  BY KeepEmpty
<1>2. ASSUME NEW s \in Seq(T) \cap P, NEW e \in T PROVE Append(s, e) \in P
  <2>0. s \in Seq(T) /\ Keep(s, T) = s
    OBVIOUS
  <2>1. Keep(Append(s, e), T) = Append(s, e)
    BY <2>0, KeepAppend
  <2>2. QED
    BY <2>1
<1>3. Seq(T) \subseteq P
  <2> HIDE DEF P
  <2>1. QED
    BY <1>1, <1>2, Appending
<1>4. Range(l) \subseteq T
  BY DEF Range
<1>5. Keep(l, S) = Keep(l, T)
  BY <1>4, KeepSame
<1>6. QED
  BY <1>3, <1>5

\* Nothing is kept just of lists without elements of S.
LEMMA KeepNone ==
  ASSUME NEW T, NEW l \in Seq(T), NEW S
  PROVE  Keep(l, S) = <<>> <=> Range(l) \cap S = {}
<1>1. Range(Keep(l, S)) = Range(l) \cap S
  BY KeepRange
<1>2. Keep(l, S) \in Seq(T)
  BY KeepType
<1>3. \A s \in Seq(T) : s = <<>> <=> Range(s) = {}
  BY DEF Range
<1>4. QED
  BY <1>1, <1>2, <1>3

\* The first one kept is the first one that is in S.
LEMMA KeepHead ==
  ASSUME NEW T, NEW l \in Seq(T), NEW S, Keep(l, S) # <<>>
  PROVE  \E n \in DOMAIN l : /\ l[n] \in S /\ Head(Keep(l, S)) = l[n]
                             /\ \A m \in 1..n - 1 : l[m] \notin S
<1> DEFINE First(s) == \E n \in DOMAIN s : /\ s[n] \in S /\ Head(Keep(s, S)) = s[n]
                                           /\ \A m \in 1..n - 1 : s[m] \notin S
           P == {s \in Seq(T) : Keep(s, S) # <<>> => First(s)}
<1>1. <<>> \in P
  BY KeepEmpty
<1>2. ASSUME NEW s \in Seq(T), Keep(s, S) # <<>> => First(s), NEW e \in T
      PROVE  Keep(Append(s, e), S) # <<>> => First(Append(s, e))
  <2> SUFFICES ASSUME Keep(Append(s, e), S) # <<>> PROVE First(Append(s, e))
    OBVIOUS
  <2> DEFINE N == Len(s) + 1
             t == Append(s, e)
  <2>1. /\ Len(s) \in Nat /\ DOMAIN s = 1..Len(s) /\ DOMAIN t = 1..N
        /\ t[N] = e /\ \A n \in 1..Len(s) : t[n] = s[n]
    OBVIOUS
  <2>2. Keep(s, S) \in Seq(T)
    BY KeepType
  <2>3. Keep(t, S) = IF e \in S THEN Append(Keep(s, S), e) ELSE Keep(s, S)
    BY KeepAppend
  <2>4. CASE Keep(s, S) # <<>>
    <3>1. PICK n \in DOMAIN s : /\ s[n] \in S /\ Head(Keep(s, S)) = s[n]
                                /\ \A m \in 1..n - 1 : s[m] \notin S
      BY <1>2, <2>4
    <3>2. Head(Append(Keep(s, S), e)) = Head(Keep(s, S))
      BY <2>2, <2>4
    <3> HIDE DEF t
    <3>3. n \in DOMAIN t /\ t[n] = s[n] /\ \A m \in 1..n - 1 : m \in 1..Len(s)
      BY <2>1
    <3>4. QED
      BY <2>1, <2>3, <3>1, <3>2, <3>3 DEF t
  <2>5. CASE Keep(s, S) = <<>>
    <3>1. e \in S /\ Head(Append(Keep(s, S), e)) = e
      BY <2>3, <2>5
    <3>2. \A m \in 1..Len(s) : s[m] \notin S
      BY <2>1, <2>5, KeepNone DEF Range
    <3> HIDE DEF t
    <3>3. N \in DOMAIN t /\ t[N] \in S /\ Head(Keep(t, S)) = t[N]
      BY <2>1, <2>3, <3>1
    <3>4. \A m \in 1..N - 1 : t[m] \notin S
      BY <2>1, <3>2
    <3>5. QED
      BY <3>3, <3>4 DEF t
  <2>6. QED
    BY <2>4, <2>5
<1>3. \A s \in Seq(T) \cap P : \A e \in T : Append(s, e) \in P
  <2> HIDE DEF First
  <2>1. QED
    BY <1>2
<1>4. Seq(T) \subseteq P
  <2> HIDE DEF P
  <2>1. QED
    BY <1>1, <1>3, Appending
<1>5. QED
  BY <1>4

\* A first element that is in S stays the first one.
LEMMA KeepFirst ==
  ASSUME NEW T, NEW l \in Seq(T), NEW S, l # <<>>, Head(l) \in S
  PROVE  Keep(l, S) # <<>> /\ Head(Keep(l, S)) = Head(l)
<1>1. 1 \in DOMAIN l /\ l[1] = Head(l)
  OBVIOUS
<1>2. Keep(l, S) # <<>>
  BY <1>1, KeepNone DEF Range
<1>3. PICK n \in DOMAIN l : /\ l[n] \in S /\ Head(Keep(l, S)) = l[n]
                            /\ \A m \in 1..n - 1 : l[m] \notin S
  BY <1>2, KeepHead
<1>4. n \in Nat \ {0}
  OBVIOUS
<1>5. n = 1
  <2>1. 1 \notin 1..n - 1
    BY <1>1, <1>3
  <2>2. QED
    BY <1>4, <2>1
<1>6. QED
  BY <1>1, <1>2, <1>3, <1>5

=============================================================================
