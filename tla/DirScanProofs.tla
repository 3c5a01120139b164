--------------------------- MODULE DirScanProofs ---------------------------
(***************************************************************************)
(* Proofs about directory listings and the cache below them.               *)
(***************************************************************************)
EXTENDS DirScan, SequenceTheorems, TLAPS

-----------------------------------------------------------------------------
(* Sequences.                                                              *)

\* A sequence and what is left without its last element.
LEMMA FrontIs ==
  ASSUME NEW S, NEW s \in Seq(S), s # <<>>
  PROVE  /\ Len(s) \in Nat \ {0} /\ Last(s) = s[Len(s)] /\ Last(s) \in S
         /\ Front(s) \in Seq(S) /\ Len(Front(s)) = Len(s) - 1
         /\ \A k \in 1..(Len(s) - 1) : Front(s)[k] = s[k]
         /\ s = Front(s) \o <<Last(s)>>
<1> DEFINE n == Len(s)
<1>1. n \in Nat \ {0} /\ \A k \in 1..n : s[k] \in S
  BY EmptySeq, ElementOfSeq
<1>2. n - 1 \in Int /\ 1 \in Int /\ \A k \in 1..(n - 1) : s[k] \in S
  BY <1>1
<1>3. /\ SubSeq(s, 1, n - 1) \in Seq(S)
      /\ Len(SubSeq(s, 1, n - 1)) = (IF 1 <= n - 1 THEN (n - 1) - 1 + 1 ELSE 0)
      /\ \A k \in 1..((n - 1) - 1 + 1) : SubSeq(s, 1, n - 1)[k] = s[1 + k - 1]
  BY <1>2, SubSeqProperties
<1>4. Front(s) = SubSeq(s, 1, n - 1) /\ Last(s) = s[n]
  BY DEF Front, Last
<1>5. 1 \in 1..n /\ n \in 1..n
  BY <1>1
<1>6. SubSeq(s, 1, n) = SubSeq(s, 1, n - 1) \o <<s[n]>>
  BY <1>1, <1>5, SubSeqRecursiveSecond
<1>7. SubSeq(s, 1, n) = s
  BY SubSeqFull
<1> HIDE DEF n
<1>8. (IF 1 <= n - 1 THEN (n - 1) - 1 + 1 ELSE 0) = n - 1 /\ (n - 1) - 1 + 1 = n - 1
  BY <1>1
<1>9. \A k \in 1..(n - 1) : SubSeq(s, 1, n - 1)[k] = s[k]
  BY <1>3, <1>8
<1> QED BY <1>1, <1>3, <1>4, <1>5, <1>6, <1>7, <1>8, <1>9 DEF n

\* A sequence with one more element before its first.
LEMMA ConsIs ==
  ASSUME NEW S, NEW s \in Seq(S), NEW d \in S
  PROVE  /\ <<d>> \o s \in Seq(S) /\ Len(<<d>> \o s) = Len(s) + 1 /\ Len(s) \in Nat
         /\ (<<d>> \o s)[1] = d
         /\ \A k \in 1..Len(s) : (<<d>> \o s)[k + 1] = s[k]
<1>1. <<d>> \in Seq(S) /\ Len(<<d>>) = 1 /\ <<d>>[1] = d /\ Len(s) \in Nat
  OBVIOUS
<1>2. /\ <<d>> \o s \in Seq(S) /\ Len(<<d>> \o s) = 1 + Len(s)
      /\ \A i \in 1..(1 + Len(s)) : (<<d>> \o s)[i] = IF i <= 1 THEN <<d>>[i] ELSE s[i - 1]
  BY <1>1, ConcatProperties, ZenonT(40)
<1> QED BY <1>1, <1>2

\* A sequence without its k-th element.
LEMMA RemoveIs ==
  ASSUME NEW S, NEW s \in Seq(S), NEW k \in 1..Len(s)
  PROVE  /\ RemoveAt(s, k) \in Seq(S) /\ Len(RemoveAt(s, k)) = Len(s) - 1
         /\ \A i \in 1..(Len(s) - 1) : RemoveAt(s, k)[i] = IF i < k THEN s[i] ELSE s[i + 1]
         /\ SubSeq(s, 1, k - 1) \in Seq(S) /\ SubSeq(s, k + 1, Len(s)) \in Seq(S)
         /\ RemoveAt(s, k) = SubSeq(s, 1, k - 1) \o SubSeq(s, k + 1, Len(s))
         /\ s = (SubSeq(s, 1, k - 1) \o <<s[k]>>) \o SubSeq(s, k + 1, Len(s))
<1> DEFINE n == Len(s)
           a == SubSeq(s, 1, k - 1)
           b == SubSeq(s, k + 1, n)
<1>1. n \in Nat /\ \A i \in 1..n : s[i] \in S
  BY LenProperties, ElementOfSeq
<1>2. /\ k - 1 \in Int /\ k + 1 \in Int /\ n \in Int /\ 1 \in Int
      /\ (\A i \in 1..(k - 1) : s[i] \in S) /\ (\A i \in (k + 1)..n : s[i] \in S)
  BY <1>1
<1>3. /\ a \in Seq(S) /\ Len(a) = (IF 1 <= k - 1 THEN (k - 1) - 1 + 1 ELSE 0)
      /\ \A i \in 1..((k - 1) - 1 + 1) : a[i] = s[1 + i - 1]
  BY <1>2, SubSeqProperties
<1>4. /\ b \in Seq(S) /\ Len(b) = (IF k + 1 <= n THEN n - (k + 1) + 1 ELSE 0)
      /\ \A i \in 1..(n - (k + 1) + 1) : b[i] = s[(k + 1) + i - 1]
  BY <1>2, SubSeqProperties
<1>5. SubSeq(s, 1, k) = SubSeq(s, 1, k - 1) \o <<s[k]>>
  BY <1>1, SubSeqRecursiveSecond
<1>6. SubSeq(s, 1, k) \o SubSeq(s, k + 1, n) = SubSeq(s, 1, n)
  BY <1>1, ConcatAdjacentSubSeq
<1>7. SubSeq(s, 1, n) = s
  BY SubSeqFull, SMTT(40)
<1>8. s = (a \o <<s[k]>>) \o b
  BY <1>5, <1>6, <1>7
<1>9. RemoveAt(s, k) = a \o b
  BY DEF RemoveAt
<1> HIDE DEF n, a, b
<1>10. Len(a) = k - 1 /\ Len(b) = n - k /\ (\A i \in 1..(k - 1) : a[i] = s[i])
       /\ (\A i \in 1..(n - k) : b[i] = s[k + i])
  BY <1>1, <1>3, <1>4 DEF n
<1>11. /\ a \o b \in Seq(S) /\ Len(a \o b) = Len(a) + Len(b)
       /\ \A i \in 1..(Len(a) + Len(b)) : (a \o b)[i] = IF i <= Len(a) THEN a[i] ELSE b[i - Len(a)]
  BY <1>3, <1>4, ConcatProperties, ZenonT(40)
<1>12. Len(a) + Len(b) = n - 1
  BY <1>1, <1>10 DEF n
<1>13. ASSUME NEW i \in 1..(n - 1)
       PROVE  (a \o b)[i] = IF i < k THEN s[i] ELSE s[i + 1]
  <2>1. CASE i < k
    <3>1. i <= k - 1 /\ i \in 1..(k - 1)
      BY <2>1, <1>1 DEF n
    <3> QED BY <2>1, <3>1, <1>10, <1>11, <1>12
  <2>2. CASE ~(i < k)
    <3>1. ~(i <= k - 1) /\ i - (k - 1) \in 1..(n - k) /\ k + (i - (k - 1)) = i + 1
      BY <2>2, <1>1 DEF n
    <3>2. (a \o b)[i] = b[i - (k - 1)]
      BY <3>1, <1>10, <1>11, <1>12
    <3> QED BY <2>2, <3>1, <3>2, <1>10
  <2> QED BY <2>1, <2>2
<1> QED BY <1>3, <1>4, <1>8, <1>9, <1>11, <1>12, <1>13 DEF n, a, b

-----------------------------------------------------------------------------
(* The account.                                                            *)

\* The bytes of a sequence of directories.
Sum(s) == FoldLeft(LAMBDA n, d : n + Bytes(d), 0, s)

SumStep(n, d, p) == n + Bytes(d)
SumGood(n, i, p) == n \in Nat
Summing == INSTANCE FoldInduction WITH Step <- SumStep, Good <- SumGood

\* The size of a directory.
LEMMA BytesIs == ASSUME NEW d \in Dirs PROVE Bytes(d) \in Nat \ {0}
BY MetaAssumption DEF Bytes

\* The sum grows by one directory at a time.
LEMMA SumStates ==
  ASSUME NEW s \in Seq(Dirs)
  PROVE  \E f : /\ f[0] = 0 /\ Sum(s) = f[Len(s)] /\ Len(s) \in Nat
                /\ \A i \in 0..Len(s) : f[i] \in Nat
                /\ \A i \in 1..Len(s) : f[i] = f[i - 1] + Bytes(s[i])
<1> DEFINE n == Len(s)
           p == 0
           b == 0
<1>1. n \in Nat /\ DOMAIN s = 1..n /\ \A i \in 1..n : s[i] \in Dirs
  BY LenProperties, ElementOfSeq
<1>2. Sum(s) = Summing!Fold(b, s, p) /\ b = 0
  BY DEF Sum, FoldLeft, MapThenFoldSet, Summing!Fold, Max, Summing!Max, SumStep
<1> HIDE DEF p, n, b
<1>3. PICK f : /\ f[0] = b /\ Summing!Fold(b, s, p) = f[n]
               /\ \A i \in 1..n : f[i] = SumStep(f[i - 1], s[i], p)
  BY <1>1, Summing!FoldStates, SMTT(40)
<1> DEFINE P == {i \in Nat : i <= n => f[i] \in Nat}
<1>4. 0 \in P
  BY <1>2, <1>3
<1>5. ASSUME NEW i \in P PROVE i + 1 \in P
  <2>1. SUFFICES ASSUME i + 1 <= n PROVE f[i + 1] \in Nat
    OBVIOUS
  <2>2. i + 1 \in 1..n /\ (i + 1) - 1 = i /\ f[i] \in Nat
    BY <1>1, <2>1
  <2>3. f[i + 1] = f[i] + Bytes(s[i + 1])
    BY <1>3, <2>2 DEF SumStep
  <2>4. Bytes(s[i + 1]) \in Nat
    BY <1>1, <2>2, BytesIs
  <2> QED BY <2>2, <2>3, <2>4
<1> HIDE DEF P
<1>6. P = Nat
  BY <1>4, <1>5, Summing!NatInd DEF P
<1>7. \A i \in 0..n : f[i] \in Nat
  BY <1>1, <1>6 DEF P
<1> QED BY <1>1, <1>2, <1>3, <1>7 DEF n, SumStep

\* The sum of no directory, and of one.
LEMMA SumSmall == Sum(<<>>) = 0 /\ \A d \in Dirs : Sum(<<d>>) = Bytes(d)
<1>1. Sum(<<>>) = 0
  <2>1. <<>> \in Seq(Dirs) /\ Len(<<>>) = 0
    OBVIOUS
  <2> QED BY <2>1, SumStates
<1>2. ASSUME NEW d \in Dirs PROVE Sum(<<d>>) = Bytes(d)
  <2> DEFINE s == <<d>>
  <2>1. s \in Seq(Dirs) /\ Len(s) = 1 /\ s[1] = d
    OBVIOUS
  <2> HIDE DEF s
  <2>2. PICK f : /\ f[0] = 0 /\ Sum(s) = f[Len(s)]
                 /\ \A i \in 1..Len(s) : f[i] = f[i - 1] + Bytes(s[i])
    BY <2>1, SumStates
  <2>3. f[1] = f[0] + Bytes(s[1]) /\ Bytes(d) \in Nat
    BY <2>1, <2>2, BytesIs
  <2>4. Sum(s) = Bytes(d)
    BY <2>1, <2>2, <2>3
  <2> QED BY <2>4 DEF s
<1> QED BY <1>1, <1>2

\* The sum of two sequences, one behind the other.
LEMMA SumJoin ==
  ASSUME NEW s \in Seq(Dirs), NEW t \in Seq(Dirs)
  PROVE  Sum(s \o t) = Sum(s) + Sum(t) /\ Sum(s) \in Nat /\ Sum(t) \in Nat
<1> DEFINE u == s \o t
           m == Len(s)
           n == Len(t)
<1>1. /\ u \in Seq(Dirs) /\ Len(u) = m + n /\ m \in Nat /\ n \in Nat
      /\ \A i \in 1..(m + n) : u[i] = IF i <= m THEN s[i] ELSE t[i - m]
  <2>1. /\ s \o t \in Seq(Dirs) /\ Len(s \o t) = Len(s) + Len(t)
        /\ \A i \in 1..(Len(s) + Len(t)) : (s \o t)[i] = IF i <= Len(s) THEN s[i] ELSE t[i - Len(s)]
    BY ConcatProperties, ZenonT(40)
  <2> QED BY <2>1, LenProperties
<1>2. PICK f : /\ f[0] = 0 /\ Sum(s) = f[m] /\ \A i \in 0..m : f[i] \in Nat
               /\ \A i \in 1..m : f[i] = f[i - 1] + Bytes(s[i])
  BY SumStates
<1>3. PICK g : /\ g[0] = 0 /\ Sum(t) = g[n] /\ \A i \in 0..n : g[i] \in Nat
               /\ \A i \in 1..n : g[i] = g[i - 1] + Bytes(t[i])
  BY SumStates
<1>4. PICK h : /\ h[0] = 0 /\ Sum(u) = h[m + n] /\ \A i \in 0..(m + n) : h[i] \in Nat
               /\ \A i \in 1..(m + n) : h[i] = h[i - 1] + Bytes(u[i])
  <2> HIDE DEF u
  <2>1. PICK h : /\ h[0] = 0 /\ Sum(u) = h[Len(u)] /\ \A i \in 0..Len(u) : h[i] \in Nat
                 /\ \A i \in 1..Len(u) : h[i] = h[i - 1] + Bytes(u[i])
    BY <1>1, SumStates
  <2> QED BY <1>1, <2>1
<1> HIDE DEF u, m, n
<1> DEFINE P == {i \in Nat : i <= m => h[i] = f[i]}
<1>5. 0 \in P
  BY <1>2, <1>4
<1>6. ASSUME NEW i \in P PROVE i + 1 \in P
  <2>1. SUFFICES ASSUME i + 1 <= m PROVE h[i + 1] = f[i + 1]
    OBVIOUS
  <2>2. m \in Nat /\ n \in Nat
    BY <1>1
  <2>4. i + 1 \in 1..m /\ i + 1 \in 1..(m + n) /\ (i + 1) - 1 = i /\ h[i] = f[i]
    BY <2>2, <2>1
  <2>3. u[i + 1] = s[i + 1]
    BY <1>1, <2>1, <2>4
  <2> QED BY <1>2, <1>4, <2>4, <2>3
<1> HIDE DEF P
<1>7. P = Nat
  BY <1>5, <1>6, Summing!NatInd DEF P
<1>13. m \in Nat /\ n \in Nat
  BY <1>1
<1>14. m \in P
  BY <1>7, <1>13
<1>8. h[m] = f[m] /\ f[m] \in Nat /\ g[n] \in Nat
  BY <1>13, <1>2, <1>3, <1>14 DEF P
<1> DEFINE Q == {i \in Nat : i <= n => h[m + i] = f[m] + g[i]}
<1>9. 0 \in Q
  BY <1>1, <1>3, <1>8
<1>10. ASSUME NEW i \in Q PROVE i + 1 \in Q
  <2>1. SUFFICES ASSUME i + 1 <= n PROVE h[m + (i + 1)] = f[m] + g[i + 1]
    OBVIOUS
  <2>2. /\ i + 1 \in 1..n /\ m + (i + 1) \in 1..(m + n) /\ (i + 1) - 1 = i
        /\ (m + (i + 1)) - 1 = m + i /\ (m + (i + 1)) - m = i + 1 /\ ~(m + (i + 1) <= m)
        /\ h[m + i] = f[m] + g[i] /\ g[i] \in Nat
    BY <1>1, <1>3, <2>1
  <2>3. u[m + (i + 1)] = t[i + 1]
    BY <1>1, <2>2
  <2>4. t[i + 1] \in Dirs
    BY <2>2, ElementOfSeq DEF n
  <2>5. Bytes(t[i + 1]) \in Nat
    BY <2>4, BytesIs
  <2>6. h[m + (i + 1)] = h[m + i] + Bytes(t[i + 1]) /\ g[i + 1] = g[i] + Bytes(t[i + 1])
    BY <1>3, <1>4, <2>2, <2>3
  <2> QED BY <1>8, <2>2, <2>5, <2>6
<1> HIDE DEF Q
<1>11. Q = Nat
  BY <1>9, <1>10, Summing!NatInd DEF Q
<1>15. n \in Q
  BY <1>11, <1>13
<1>12. h[m + n] = f[m] + g[n]
  BY <1>13, <1>15 DEF Q
<1> QED BY <1>2, <1>3, <1>4, <1>8, <1>12 DEF u

\* The account of a sequence without its last element, and with it at the head.
LEMMA SumFront ==
  ASSUME NEW s \in Seq(Dirs), s # <<>>
  PROVE  /\ Sum(s) = Sum(Front(s)) + Bytes(Last(s)) /\ Sum(Front(s)) \in Nat
         /\ Sum(<<Last(s)>> \o Front(s)) = Sum(s) /\ Bytes(Last(s)) \in Nat /\ Sum(s) \in Nat
<1>1. Front(s) \in Seq(Dirs) /\ Last(s) \in Dirs /\ s = Front(s) \o <<Last(s)>>
  BY FrontIs
<1>2. <<Last(s)>> \in Seq(Dirs) /\ Sum(<<Last(s)>>) = Bytes(Last(s)) /\ Bytes(Last(s)) \in Nat
  BY <1>1, SumSmall, BytesIs
<1>3. Sum(Front(s) \o <<Last(s)>>) = Sum(Front(s)) + Sum(<<Last(s)>>) /\ Sum(Front(s)) \in Nat
  BY <1>1, <1>2, SumJoin
<1>4. Sum(<<Last(s)>> \o Front(s)) = Sum(<<Last(s)>>) + Sum(Front(s))
  BY <1>1, <1>2, SumJoin
<1>5. Sum(s) = Sum(Front(s)) + Sum(<<Last(s)>>)
  BY <1>1, <1>3
<1> QED BY <1>2, <1>3, <1>4, <1>5

\* The account of a sequence with an element before its first, and with one of
\* its elements moved there.
LEMMA SumCons ==
  ASSUME NEW s \in Seq(Dirs), NEW d \in Dirs
  PROVE  Sum(<<d>> \o s) = Bytes(d) + Sum(s) /\ Sum(s) \in Nat /\ Bytes(d) \in Nat
<1>1. <<d>> \in Seq(Dirs) /\ Sum(<<d>>) = Bytes(d) /\ Bytes(d) \in Nat
  BY SumSmall, BytesIs
<1> QED BY <1>1, SumJoin

LEMMA SumMoved ==
  ASSUME NEW s \in Seq(Dirs), NEW k \in 1..Len(s)
  PROVE  Sum(<<s[k]>> \o RemoveAt(s, k)) = Sum(s)
<1> DEFINE a == SubSeq(s, 1, k - 1)
           b == SubSeq(s, k + 1, Len(s))
<1>1. /\ a \in Seq(Dirs) /\ b \in Seq(Dirs) /\ RemoveAt(s, k) = a \o b
      /\ s = (a \o <<s[k]>>) \o b
  BY RemoveIs
<1>2. s[k] \in Dirs
  BY ElementOfSeq
<1> HIDE DEF a, b
<1>3. <<s[k]>> \in Seq(Dirs) /\ a \o <<s[k]>> \in Seq(Dirs) /\ a \o b \in Seq(Dirs)
  BY <1>1, <1>2
<1>4. /\ Sum(a \o <<s[k]>>) = Sum(a) + Sum(<<s[k]>>)
      /\ Sum((a \o <<s[k]>>) \o b) = Sum(a \o <<s[k]>>) + Sum(b)
      /\ Sum(a \o b) = Sum(a) + Sum(b) /\ Sum(<<s[k]>> \o (a \o b)) = Sum(<<s[k]>>) + Sum(a \o b)
      /\ Sum(a) \in Nat /\ Sum(b) \in Nat /\ Sum(<<s[k]>>) \in Nat
  BY <1>1, <1>3, SumJoin
<1>5. Sum(s) = Sum(a \o <<s[k]>>) + Sum(b)
  BY <1>1, <1>4
<1>6. Sum(<<s[k]>> \o RemoveAt(s, k)) = Sum(<<s[k]>>) + Sum(a \o b)
  BY <1>1, <1>4
<1> QED BY <1>4, <1>5, <1>6

-----------------------------------------------------------------------------
(* Sequences without repetition.                                           *)

\* The elements of a sequence by their positions.
LEMMA Members ==
  ASSUME NEW S, NEW s \in Seq(S)
  PROVE  /\ DOMAIN s = 1..Len(s) /\ Len(s) \in Nat /\ ToSet(s) \subseteq S
         /\ \A x : x \in ToSet(s) <=> \E k \in 1..Len(s) : s[k] = x
         /\ IsInjective(s) <=> \A a, b \in 1..Len(s) : s[a] = s[b] => a = b
<1>1. DOMAIN s = 1..Len(s) /\ Len(s) \in Nat /\ \A k \in 1..Len(s) : s[k] \in S
  BY LenProperties, ElementOfSeq
<1> QED BY <1>1 DEF ToSet, IsInjective

\* Without the last element.
LEMMA FrontMembers ==
  ASSUME NEW S, NEW s \in Seq(S), s # <<>>, IsInjective(s)
  PROVE  IsInjective(Front(s)) /\ ToSet(Front(s)) = ToSet(s) \ {Last(s)}
<1> DEFINE n == Len(s)
<1>1. /\ n \in Nat \ {0} /\ Last(s) = s[n] /\ Front(s) \in Seq(S) /\ Len(Front(s)) = n - 1
      /\ \A k \in 1..(n - 1) : Front(s)[k] = s[k]
  BY FrontIs
<1>2. \A a, b \in 1..n : s[a] = s[b] => a = b
  BY Members
<1>3. IsInjective(Front(s))
  <2>1. \A a, b \in 1..(n - 1) : Front(s)[a] = Front(s)[b] => a = b
    BY <1>1, <1>2
  <2> QED BY <1>1, <2>1, Members
<1> HIDE DEF n
<1>4. ASSUME NEW x \in ToSet(Front(s)) PROVE x \in ToSet(s) \ {Last(s)}
  <2>1. PICK k \in 1..(n - 1) : Front(s)[k] = x
    BY <1>1, Members
  <2>2. s[k] = x /\ k \in 1..n /\ k # n /\ n \in 1..n
    BY <1>1, <2>1
  <2>3. x # s[n]
    BY <1>2, <2>2
  <2> QED BY <1>1, <2>2, <2>3, Members DEF n
<1>5. ASSUME NEW x \in ToSet(s) \ {Last(s)} PROVE x \in ToSet(Front(s))
  <2>1. PICK k \in 1..n : s[k] = x
    BY Members DEF n
  <2>2. k \in 1..(n - 1)
    BY <1>1, <2>1
  <2> QED BY <1>1, <2>1, <2>2, Members
<1> QED BY <1>3, <1>4, <1>5

\* With a new element before the first.
LEMMA ConsMembers ==
  ASSUME NEW S, NEW s \in Seq(S), NEW d \in S, d \notin ToSet(s), IsInjective(s)
  PROVE  IsInjective(<<d>> \o s) /\ ToSet(<<d>> \o s) = ToSet(s) \cup {d}
<1> DEFINE n == Len(s)
           t == <<d>> \o s
<1>1. /\ t \in Seq(S) /\ Len(t) = n + 1 /\ n \in Nat /\ t[1] = d
      /\ \A k \in 1..n : t[k + 1] = s[k]
  BY ConsIs
<1>2. /\ \A a, b \in 1..n : s[a] = s[b] => a = b
      /\ \A x : x \in ToSet(s) <=> \E k \in 1..n : s[k] = x
  BY Members
<1> HIDE DEF n, t
<1>3. \A k \in 2..(n + 1) : k - 1 \in 1..n /\ t[k] = s[k - 1] /\ t[k] # d
  <2> SUFFICES ASSUME NEW k \in 2..(n + 1) PROVE k - 1 \in 1..n /\ t[k] = s[k - 1] /\ t[k] # d
    OBVIOUS
  <2>1. k - 1 \in 1..n /\ (k - 1) + 1 = k
    BY <1>1
  <2>2. t[k] = s[k - 1]
    BY <1>1, <2>1
  <2> QED BY <2>1, <2>2, <1>2
<1>4. \A k \in 1..(n + 1) : k = 1 \/ k \in 2..(n + 1)
  BY <1>1
<1>5. ASSUME NEW a \in 1..(n + 1), NEW b \in 1..(n + 1), t[a] = t[b] PROVE a = b
  <2>1. CASE a = 1 \/ b = 1
    BY <2>1, <1>1, <1>3, <1>4, <1>5
  <2>2. CASE a # 1 /\ b # 1
    <3>1. a - 1 = b - 1
      BY <2>2, <1>2, <1>3, <1>4, <1>5
    <3> QED BY <3>1
  <2> QED BY <2>1, <2>2
<1>6. IsInjective(t)
  BY <1>1, <1>5, Members
<1>7. ASSUME NEW x \in ToSet(t) PROVE x \in ToSet(s) \cup {d}
  <2>1. PICK k \in 1..(n + 1) : t[k] = x
    BY <1>1, Members
  <2> QED BY <2>1, <1>1, <1>2, <1>3, <1>4, ZenonT(60)
<1>8. ASSUME NEW x \in ToSet(s) \cup {d} PROVE x \in ToSet(t)
  <2>1. CASE x = d
    <3>1. 1 \in 1..(n + 1)
      BY <1>1
    <3> QED BY <2>1, <3>1, <1>1, Members
  <2>2. CASE x \in ToSet(s)
    <3>1. PICK k \in 1..n : s[k] = x
      BY <2>2, <1>2
    <3>2. k + 1 \in 1..(n + 1) /\ t[k + 1] = x
      BY <3>1, <1>1
    <3> QED BY <3>2, <1>1, Members, SMTT(30)
  <2> QED BY <2>1, <2>2
<1> QED BY <1>6, <1>7, <1>8 DEF t

\* Without the k-th element.
LEMMA RemoveMembers ==
  ASSUME NEW S, NEW s \in Seq(S), NEW k \in 1..Len(s), IsInjective(s)
  PROVE  IsInjective(RemoveAt(s, k)) /\ ToSet(RemoveAt(s, k)) = ToSet(s) \ {s[k]}
<1> DEFINE n == Len(s)
           r == RemoveAt(s, k)
<1>1. /\ r \in Seq(S) /\ Len(r) = n - 1 /\ n \in Nat
      /\ \A i \in 1..(n - 1) : r[i] = IF i < k THEN s[i] ELSE s[i + 1]
  BY RemoveIs, LenProperties
<1>2. /\ \A a, b \in 1..n : s[a] = s[b] => a = b
      /\ \A x : x \in ToSet(s) <=> \E i \in 1..n : s[i] = x
  BY Members
<1>3. k \in 1..n
  OBVIOUS
<1> HIDE DEF n, r
<1> DEFINE At(i) == IF i < k THEN i ELSE i + 1
<1>4. \A i \in 1..(n - 1) : At(i) \in 1..n /\ At(i) # k /\ r[i] = s[At(i)]
  BY <1>1, <1>3
<1>5. \A i, j \in 1..(n - 1) : At(i) = At(j) => i = j
  BY <1>1, <1>3
<1>6. \A i \in 1..n : i # k => \E j \in 1..(n - 1) : At(j) = i
  <2> SUFFICES ASSUME NEW i \in 1..n, i # k PROVE \E j \in 1..(n - 1) : At(j) = i
    OBVIOUS
  <2>1. CASE i < k
    <3>1. i \in 1..(n - 1) /\ At(i) = i
      BY <2>1, <1>1, <1>3
    <3> QED BY <3>1
  <2>2. CASE ~(i < k)
    <3>1. i - 1 \in 1..(n - 1) /\ At(i - 1) = i
      BY <2>2, <1>1, <1>3
    <3> QED BY <3>1
  <2> QED BY <2>1, <2>2
<1> HIDE DEF At
<1>7. IsInjective(r)
  <2>1. ASSUME NEW a \in 1..(n - 1), NEW b \in 1..(n - 1), r[a] = r[b] PROVE a = b
    BY <2>1, <1>2, <1>4, <1>5
  <2> QED BY <1>1, <2>1, Members
<1>8. ASSUME NEW x \in ToSet(r) PROVE x \in ToSet(s) \ {s[k]}
  <2>1. PICK i \in 1..(n - 1) : r[i] = x
    BY <1>1, Members
  <2> QED BY <2>1, <1>2, <1>3, <1>4
<1>9. ASSUME NEW x \in ToSet(s) \ {s[k]} PROVE x \in ToSet(r)
  <2>1. PICK i \in 1..n : s[i] = x /\ i # k
    BY <1>2, <1>3
  <2>2. PICK j \in 1..(n - 1) : At(j) = i
    BY <2>1, <1>6
  <2> QED BY <2>1, <2>2, <1>1, <1>4, Members
<1> QED BY <1>7, <1>8, <1>9 DEF r

-----------------------------------------------------------------------------
(* meta_trim().                                                            *)

CacheRecord ==
  [lru : Seq(Dirs), ref : SUBSET Dirs, total : Nat,
   over : [0..(Slots - 1) -> Dirs \cup {Null}], next : 0..(Slots - 1)]

\* A cache in which every directory stands once and only cached ones are flagged.
Sound(m) == m \in CacheRecord /\ IsInjective(m.lru) /\ m.ref \subseteq ToSet(m.lru)

\* A cache x on the way from p.m: the last j directories are the first of p.m
\* and have not been looked at, those before them have been, were flagged and
\* are back at the head; the flags left are those of the directories not looked
\* at, and none that was flagged is gone while there are any.
TrimAt(x, i, p, j) ==
  /\ j <= Len(x.lru)
  /\ \A k \in 1..j : x.lru[(Len(x.lru) - j) + k] = p.m.lru[k]
  /\ \A k \in 1..(Len(x.lru) - j) : x.lru[k] \in p.m.ref
  /\ \A d : d \in x.ref <=> d \in p.m.ref /\ \E k \in 1..j : p.m.lru[k] = d
  /\ j > 0 => p.m.ref \subseteq ToSet(x.lru)
  /\ x.total <= Budget \/ x.lru = <<>> \/ j + Len(x.lru) <= 2 * Len(p.m.lru) - i

TrimElement(x, k, p) == TrimStep(x)
TrimGood(x, i, p) ==
  /\ x \in CacheRecord /\ x.over = p.m.over /\ x.next = p.m.next
  /\ IsInjective(x.lru) /\ x.total = Sum(x.lru) + p.e
  /\ \E j \in 0..Len(p.m.lru) : TrimAt(x, i, p, j)
Trimming == INSTANCE FoldInduction WITH Step <- TrimElement, Good <- TrimGood

\* Eviction of the directory at the tail.
LEMMA EvictKeeps ==
  ASSUME NEW p, Sound(p.m), p.e \in Nat, NEW i \in Nat \ {0}, NEW w, TrimGood(w, i - 1, p),
         w.lru # <<>>, ~(w.total <= Budget), Last(w.lru) \notin w.ref
  PROVE  TrimGood(Evict(w), i, p)
<1> DEFINE n == Len(p.m.lru)
           L == Len(w.lru)
           s == w.lru
           q == p.m.lru
           x == Evict(w)
<1>1. /\ w \in CacheRecord /\ w.over = p.m.over /\ w.next = p.m.next
      /\ IsInjective(s) /\ w.total = Sum(s) + p.e
  BY DEF TrimGood
<1>2. PICK j \in 0..n : TrimAt(w, i - 1, p, j)
  BY DEF TrimGood
<1>3. s \in Seq(Dirs) /\ q \in Seq(Dirs) /\ s # <<>>
  BY <1>1 DEF Sound, CacheRecord
<1>4. /\ L \in Nat \ {0} /\ Last(s) = s[L] /\ Last(s) \in Dirs
      /\ Front(s) \in Seq(Dirs) /\ Len(Front(s)) = L - 1
      /\ \A k \in 1..(L - 1) : Front(s)[k] = s[k]
  BY <1>3, FrontIs
<1>5. IsInjective(Front(s)) /\ ToSet(Front(s)) = ToSet(s) \ {Last(s)}
  BY <1>1, <1>3, FrontMembers
<1>6. /\ Sum(s) = Sum(Front(s)) + Bytes(Last(s)) /\ Sum(Front(s)) \in Nat
      /\ Bytes(Last(s)) \in Nat /\ Sum(s) \in Nat
  BY <1>3, SumFront
<1>7. w.total - Bytes(Last(s)) = Sum(Front(s)) + p.e /\ w.total - Bytes(Last(s)) \in Nat
  BY <1>1, <1>6, SMTT(30)
<1>8. /\ x.lru = Front(s) /\ x.ref = w.ref /\ x.total = w.total - Bytes(Last(s))
      /\ x.over = w.over /\ x.next = w.next /\ x \in CacheRecord
  BY <1>1, <1>4, <1>7 DEF Evict, CacheRecord
<1>9. n \in Nat /\ \A a, b \in 1..n : q[a] = q[b] => a = b
  BY <1>3, Members DEF Sound
<1>10. /\ j <= L
       /\ \A k \in 1..j : s[(L - j) + k] = q[k]
       /\ \A k \in 1..(L - j) : s[k] \in p.m.ref
       /\ \A d : d \in w.ref <=> d \in p.m.ref /\ \E k \in 1..j : q[k] = d
       /\ j > 0 => p.m.ref \subseteq ToSet(s)
       /\ j + L <= 2 * n - (i - 1)
  BY <1>2 DEF TrimAt
<1>11. Last(s) \notin w.ref
  OBVIOUS
<1> HIDE DEF n, L, s, q, x
<1>14. /\ x \in CacheRecord /\ x.over = p.m.over /\ x.next = p.m.next
       /\ IsInjective(x.lru) /\ x.total = Sum(x.lru) + p.e
  BY <1>1, <1>5, <1>7, <1>8
<1>12. CASE j > 0
  <2>1. j - 1 \in 0..n /\ j \in 1..j /\ (L - j) + j = L /\ (L - 1) - (j - 1) = L - j
    BY <1>4, <1>9, <1>12
  <2>2. s[L] = q[j]
    BY <1>10, <2>1
  <2>3. Last(s) \notin p.m.ref
    BY <1>4, <1>10, <1>11, <2>1, <2>2
  <2>4. ASSUME NEW k \in 1..(j - 1) PROVE Front(s)[((L - 1) - (j - 1)) + k] = q[k]
    <3>1. k \in 1..j /\ (L - j) + k \in 1..(L - 1)
      BY <1>4, <1>10, <2>1
    <3> QED BY <1>4, <1>10, <2>1, <3>1
  <2>5. ASSUME NEW k \in 1..((L - 1) - (j - 1)) PROVE Front(s)[k] \in p.m.ref
    <3>1. k \in 1..(L - j) /\ k \in 1..(L - 1)
      BY <1>4, <1>12, <2>1
    <3> QED BY <1>4, <1>10, <3>1
  <2>6. ASSUME NEW d
        PROVE  d \in w.ref <=> d \in p.m.ref /\ \E k \in 1..(j - 1) : q[k] = d
    <3>1. ASSUME d \in w.ref PROVE d \in p.m.ref /\ \E k \in 1..(j - 1) : q[k] = d
      <4>1. PICK k \in 1..j : q[k] = d
        BY <1>10, <3>1
      <4>2. k # j
        BY <1>4, <1>11, <2>2, <3>1, <4>1
      <4>3. k \in 1..(j - 1)
        BY <4>2, <2>1
      <4> QED BY <1>10, <3>1, <4>1, <4>3
    <3>2. ASSUME d \in p.m.ref, \E k \in 1..(j - 1) : q[k] = d PROVE d \in w.ref
      <4>1. PICK k \in 1..(j - 1) : q[k] = d
        BY <3>2
      <4>2. k \in 1..j
        BY <2>1
      <4> QED BY <1>10, <3>2, <4>1, <4>2
    <3> QED BY <3>1, <3>2
  <2>7. p.m.ref \subseteq ToSet(Front(s))
    BY <1>5, <1>10, <1>12, <2>3
  <2>8. j - 1 <= L - 1 /\ (j - 1) + (L - 1) <= 2 * n - i
    BY <1>4, <1>9, <1>10, <2>1
  <2>9. TrimAt(x, i, p, j - 1)
    BY <1>4, <1>8, <2>4, <2>5, <2>6, <2>7, <2>8, ZenonT(60) DEF TrimAt, n, q
  <2> QED BY <1>14, <2>1, <2>9, Zenon DEF TrimGood, n, x
<1>13. CASE ~(j > 0)
  <2>1. j = 0 /\ 0 \in 0..n /\ (L - 1) - 0 = L - 1 /\ L - 0 = L
    BY <1>4, <1>9, <1>13
  <2>2. \A k \in 1..0 : Front(s)[((L - 1) - 0) + k] = q[k]
    OBVIOUS
  <2>3. \A k \in 1..((L - 1) - 0) : Front(s)[k] \in p.m.ref
    BY <1>4, <1>10, <2>1
  <2>4. \A d : d \in w.ref <=> d \in p.m.ref /\ \E k \in 1..0 : q[k] = d
    BY <1>10, <2>1
  <2>5. 0 <= L - 1 /\ 0 + (L - 1) <= 2 * n - i
    BY <1>4, <1>9, <1>10, <2>1
  <2>6. TrimAt(x, i, p, 0)
    BY <1>4, <1>8, <2>2, <2>3, <2>4, <2>5, SMTT(30) DEF TrimAt, n, q
  <2> QED BY <1>14, <2>1, <2>6, Zenon DEF TrimGood, n, x
<1> QED BY <1>12, <1>13 DEF x

\* A flagged directory at the tail goes back to the head.
LEMMA RotateKeeps ==
  ASSUME NEW p, Sound(p.m), p.e \in Nat, NEW i \in Nat \ {0}, NEW w, TrimGood(w, i - 1, p),
         w.lru # <<>>, ~(w.total <= Budget), Last(w.lru) \in w.ref
  PROVE  TrimGood([w EXCEPT !.ref = @ \ {Last(w.lru)}, !.lru = <<Last(@)>> \o Front(@)], i, p)
<1> DEFINE n == Len(p.m.lru)
           L == Len(w.lru)
           s == w.lru
           q == p.m.lru
           t == <<Last(s)>> \o Front(s)
           x == [w EXCEPT !.ref = @ \ {Last(w.lru)}, !.lru = <<Last(@)>> \o Front(@)]
<1>1. /\ w \in CacheRecord /\ w.over = p.m.over /\ w.next = p.m.next
      /\ IsInjective(s) /\ w.total = Sum(s) + p.e
  BY DEF TrimGood
<1>2. PICK j \in 0..n : TrimAt(w, i - 1, p, j)
  BY DEF TrimGood
<1>3. s \in Seq(Dirs) /\ q \in Seq(Dirs) /\ s # <<>>
  BY <1>1 DEF Sound, CacheRecord
<1>4. /\ L \in Nat \ {0} /\ Last(s) = s[L] /\ Last(s) \in Dirs
      /\ Front(s) \in Seq(Dirs) /\ Len(Front(s)) = L - 1
      /\ \A k \in 1..(L - 1) : Front(s)[k] = s[k]
  BY <1>3, FrontIs
<1>5. IsInjective(Front(s)) /\ ToSet(Front(s)) = ToSet(s) \ {Last(s)} /\ Last(s) \in ToSet(s)
  <2>1. L \in 1..L
    BY <1>4
  <2>2. s[L] \in ToSet(s)
    BY <1>3, <2>1, Members
  <2> QED BY <1>1, <1>3, <1>4, <2>2, FrontMembers
<1>6. Last(s) \notin ToSet(Front(s))
  BY <1>5
<1>7. IsInjective(t) /\ ToSet(t) = ToSet(Front(s)) \cup {Last(s)}
  BY <1>4, <1>5, <1>6, ConsMembers
<1>8. /\ t \in Seq(Dirs) /\ Len(t) = (L - 1) + 1 /\ t[1] = Last(s)
      /\ \A k \in 1..(L - 1) : t[k + 1] = Front(s)[k]
  BY <1>4, ConsIs
<1>9. Sum(t) = Sum(s)
  BY <1>3, SumFront
<1>10. /\ x.lru = t /\ x.ref = w.ref \ {Last(s)} /\ x.total = w.total
       /\ x.over = w.over /\ x.next = w.next /\ x \in CacheRecord
  BY <1>1, <1>8 DEF CacheRecord
<1>11. n \in Nat /\ \A a, b \in 1..n : q[a] = q[b] => a = b
  BY <1>3, Members DEF Sound
<1>12. /\ j <= L
       /\ \A k \in 1..j : s[(L - j) + k] = q[k]
       /\ \A k \in 1..(L - j) : s[k] \in p.m.ref
       /\ \A d : d \in w.ref <=> d \in p.m.ref /\ \E k \in 1..j : q[k] = d
       /\ j > 0 => p.m.ref \subseteq ToSet(s)
       /\ j + L <= 2 * n - (i - 1)
  BY <1>2 DEF TrimAt
<1>13. Last(s) \in w.ref
  OBVIOUS
<1> HIDE DEF n, L, s, q, t, x
<1>14. j > 0 /\ Last(s) \in p.m.ref
  <2>1. PICK k \in 1..j : q[k] = Last(s)
    BY <1>12, <1>13
  <2> QED BY <1>12, <1>13, <2>1
<1>15. /\ j - 1 \in 0..n /\ j \in 1..j /\ (L - j) + j = L /\ L - (j - 1) = (L - j) + 1
       /\ Len(t) = L /\ j \in 1..n
  BY <1>4, <1>8, <1>11, <1>14
<1>16. s[L] = q[j]
  BY <1>12, <1>15
<1>17. ASSUME NEW k \in 1..(j - 1) PROVE t[(L - (j - 1)) + k] = q[k]
  <2>2. L \in Nat /\ j \in Nat /\ j <= L
    BY <1>4, <1>12, <1>15
  <2>1. /\ k \in 1..j /\ (L - j) + k \in 1..(L - 1)
        /\ (L - (j - 1)) + k = ((L - j) + k) + 1
    BY <2>2
  <2> QED BY <1>4, <1>8, <1>12, <2>1
<1>18. ASSUME NEW k \in 1..(L - (j - 1)) PROVE t[k] \in p.m.ref
  <2>1. CASE k = 1
    BY <1>8, <1>14, <2>1
  <2>2. CASE k # 1
    <3>1. k - 1 \in 1..(L - j) /\ k - 1 \in 1..(L - 1) /\ (k - 1) + 1 = k
      BY <1>4, <1>14, <1>15, <2>2
    <3> QED BY <1>4, <1>8, <1>12, <3>1, ZenonT(60)
  <2> QED BY <2>1, <2>2
<1>19. ASSUME NEW d
       PROVE  d \in w.ref \ {Last(s)} <=> d \in p.m.ref /\ \E k \in 1..(j - 1) : q[k] = d
  <2>1. ASSUME d \in w.ref \ {Last(s)} PROVE d \in p.m.ref /\ \E k \in 1..(j - 1) : q[k] = d
    <3>1. PICK k \in 1..j : q[k] = d
      BY <1>12, <2>1
    <3>2. k # j
      BY <1>4, <1>16, <2>1, <3>1
    <3>3. k \in 1..(j - 1)
      BY <3>2, <1>15
    <3> QED BY <1>12, <2>1, <3>1, <3>3
  <2>2. ASSUME d \in p.m.ref, \E k \in 1..(j - 1) : q[k] = d PROVE d \in w.ref \ {Last(s)}
    <3>1. PICK k \in 1..(j - 1) : q[k] = d
      BY <2>2
    <3>2. k \in 1..j /\ k \in 1..n /\ k # j
      BY <1>11
    <3>3. d # q[j]
      BY <1>11, <1>15, <3>1, <3>2
    <3> QED BY <1>4, <1>12, <1>16, <2>2, <3>1, <3>2, <3>3
  <2> QED BY <2>1, <2>2
<1>20. p.m.ref \subseteq ToSet(t)
  BY <1>5, <1>7, <1>12, <1>14
<1>21. j - 1 <= L /\ (j - 1) + L <= 2 * n - i
  BY <1>4, <1>11, <1>12, <1>15, SMTT(30)
<1>22. TrimAt(x, i, p, j - 1)
  BY <1>10, <1>15, <1>17, <1>18, <1>19, <1>20, <1>21 DEF TrimAt, n, q
<1>23. /\ x \in CacheRecord /\ x.over = p.m.over /\ x.next = p.m.next
       /\ IsInjective(x.lru) /\ x.total = Sum(x.lru) + p.e
  BY <1>1, <1>7, <1>9, <1>10
<1> QED BY <1>15, <1>22, <1>23, Zenon DEF TrimGood, n, x

\* One round of the loop.
LEMMA TrimKeeps ==
  ASSUME NEW p, Sound(p.m), p.e \in Nat, NEW i \in Nat \ {0}, NEW w, TrimGood(w, i - 1, p)
  PROVE  TrimGood(TrimStep(w), i, p)
<1>1. CASE w.total <= Budget \/ w.lru = <<>>
  <2>1. PICK j \in 0..Len(p.m.lru) : TrimAt(w, i - 1, p, j)
    BY DEF TrimGood
  <2>2. TrimAt(w, i, p, j)
    BY <1>1, <2>1 DEF TrimAt
  <2>3. TrimStep(w) = w
    BY <1>1 DEF TrimStep
  <2> QED BY <2>2, <2>3, Zenon DEF TrimGood
<1>2. CASE ~(w.total <= Budget \/ w.lru = <<>>) /\ Last(w.lru) \in w.ref
  <2>1. TrimStep(w) = [w EXCEPT !.ref = @ \ {Last(w.lru)}, !.lru = <<Last(@)>> \o Front(@)]
    BY <1>2 DEF TrimStep
  <2>2. w.lru # <<>> /\ ~(w.total <= Budget) /\ Last(w.lru) \in w.ref
    BY <1>2, Zenon
  <2>3. TrimGood([w EXCEPT !.ref = @ \ {Last(w.lru)}, !.lru = <<Last(@)>> \o Front(@)], i, p)
    BY <2>2, RotateKeeps, Zenon
  <2> QED BY <2>1, <2>3, Zenon
<1>3. CASE ~(w.total <= Budget \/ w.lru = <<>>) /\ Last(w.lru) \notin w.ref
  <2>1. TrimStep(w) = Evict(w)
    BY <1>3 DEF TrimStep
  <2>2. w.lru # <<>> /\ ~(w.total <= Budget) /\ Last(w.lru) \notin w.ref
    BY <1>3, Zenon
  <2>3. TrimGood(Evict(w), i, p)
    BY <2>2, EvictKeeps, Zenon
  <2> QED BY <2>1, <2>3, Zenon
<1> QED BY <1>1, <1>2, <1>3

\* The whole loop: a cache that fits beside e more bytes, made of directories of
\* the old one; it has all the flagged ones or nothing but flagged ones.
LEMMA TrimIs ==
  ASSUME NEW m, Sound(m), NEW e \in Nat, m.total = Sum(m.lru) + e, e <= Budget
  PROVE  /\ Sound(Trim(m)) /\ Trim(m).over = m.over /\ Trim(m).next = m.next
         /\ Trim(m).total = Sum(Trim(m).lru) + e /\ Trim(m).total <= Budget
         /\ ToSet(Trim(m).lru) \subseteq ToSet(m.lru)
         /\ m.ref \subseteq ToSet(Trim(m).lru) \/ ToSet(Trim(m).lru) \subseteq m.ref
<1> DEFINE p == [m |-> m, e |-> e]
           N == 2 * Len(m.lru)
           ks == [k \in 1..(2 * Len(m.lru)) |-> k]
           x == Trimming!Fold(m, ks, p)
           q == m.lru
           n == Len(m.lru)
<1>1. q \in Seq(Dirs) /\ n \in Nat /\ N \in Nat /\ N = 2 * n /\ DOMAIN ks = 1..N
  <2>1. m.lru \in Seq(Dirs)
    BY DEF Sound, CacheRecord
  <2>2. Len(m.lru) \in Nat
    BY <2>1
  <2> QED BY <2>1, <2>2
<1>2. p.m = m /\ p.e = e /\ Sound(p.m) /\ p.e \in Nat
  OBVIOUS
<1>3. Trim(m) = x
  BY DEF Trim, FoldLeft, MapThenFoldSet, Trimming!Fold, Max, Trimming!Max, TrimElement
<1> HIDE DEF p, N, ks, x, q, n
<1>4. /\ (\A k \in 1..n : q[k] \in ToSet(q)) /\ (\A y \in ToSet(q) : \E k \in 1..n : q[k] = y)
      /\ ToSet(q) \subseteq Dirs
  BY <1>1, Members DEF n, q
<1>5. TrimGood(m, 0, p)
  <2>1. TrimAt(m, 0, p, n)
    <3>1. n - n = 0 /\ \A k \in 1..n : 0 + k = k
      BY <1>1
    <3>2. \A d : d \in m.ref <=> d \in m.ref /\ \E k \in 1..n : q[k] = d
      BY <1>4 DEF Sound, q
    <3>3. m.ref \subseteq ToSet(m.lru)
      BY DEF Sound
    <3>4. n <= n /\ n + n <= 2 * n - 0
      BY <1>1
    <3> QED BY <1>2, <3>1, <3>2, <3>3, <3>4 DEF TrimAt, n, q
  <2>2. n \in 0..n
    BY <1>1
  <2>3. m \in CacheRecord /\ IsInjective(m.lru)
    BY DEF Sound
  <2> QED BY <1>2, <2>1, <2>2, <2>3 DEF TrimGood, n
<1>6. \A w : \A i \in 1..N : TrimGood(w, i - 1, p) => TrimGood(TrimElement(w, ks[i], p), i, p)
  <2> SUFFICES ASSUME NEW w, NEW i \in 1..N, TrimGood(w, i - 1, p)
               PROVE  TrimGood(TrimElement(w, ks[i], p), i, p)
    OBVIOUS
  <2>1. i \in Nat \ {0}
    BY <1>1
  <2> QED BY <1>2, <2>1, TrimKeeps DEF TrimElement
<1>7. TrimGood(x, N, p)
  BY <1>1, <1>5, <1>6, Trimming!FoldGood DEF x
<1>8. /\ x \in CacheRecord /\ x.over = m.over /\ x.next = m.next
      /\ IsInjective(x.lru) /\ x.total = Sum(x.lru) + e
  BY <1>2, <1>7 DEF TrimGood
<1>9. PICK j \in 0..n : TrimAt(x, N, p, j)
  BY <1>2, <1>7 DEF TrimGood, n
<1> DEFINE s == x.lru
           L == Len(x.lru)
<1>10. s \in Seq(Dirs) /\ L \in Nat /\ Sum(s) \in Nat
  <2>1. s \in Seq(Dirs)
    BY <1>8 DEF CacheRecord
  <2> QED BY <2>1, SumJoin
<1>11. /\ j <= L
       /\ \A k \in 1..j : s[(L - j) + k] = q[k]
       /\ \A k \in 1..(L - j) : s[k] \in m.ref
       /\ \A d : d \in x.ref <=> d \in m.ref /\ \E k \in 1..j : q[k] = d
       /\ j > 0 => m.ref \subseteq ToSet(s)
       /\ x.total <= Budget \/ s = <<>> \/ j + L <= 2 * n - N
  BY <1>2, <1>9 DEF TrimAt, n, q
<1>12. /\ (\A k \in 1..L : s[k] \in ToSet(s)) /\ (\A y \in ToSet(s) : \E k \in 1..L : s[k] = y)
  BY <1>10, Members
<1>13. x.total <= Budget
  <2>1. CASE s = <<>>
    BY <2>1, <1>8, SumSmall
  <2>2. CASE j + L <= 2 * n - N
    <3>1. L = 0
      BY <1>1, <1>10, <2>2
    <3>2. s = <<>>
      BY <1>10, <3>1, EmptySeq
    <3> QED BY <2>1, <3>2
  <2> QED BY <1>11, <2>1, <2>2
<1> HIDE DEF s, L
<1>14. ASSUME NEW y \in ToSet(s)
       PROVE  y \in m.ref \/ \E k \in 1..j : q[k] = y
  <2>1. PICK k \in 1..L : s[k] = y
    BY <1>12
  <2>2. CASE k <= L - j
    <3>1. k \in 1..(L - j)
      BY <1>10, <2>2
    <3> QED BY <1>11, <2>1, <3>1
  <2>3. CASE ~(k <= L - j)
    <3>1. k - (L - j) \in 1..j /\ (L - j) + (k - (L - j)) = k
      BY <1>1, <1>10, <1>11, <2>3
    <3> QED BY <1>11, <2>1, <3>1
  <2> QED BY <2>2, <2>3
<1>15. ToSet(s) \subseteq ToSet(q)
  <2>1. m.ref \subseteq ToSet(q)
    BY DEF Sound, q
  <2>2. \A k \in 1..j : k \in 1..n
    BY <1>1
  <2> QED BY <1>4, <1>14, <2>1, <2>2
<1>16. x.ref \subseteq ToSet(s)
  <2> SUFFICES ASSUME NEW d \in x.ref PROVE d \in ToSet(s)
    OBVIOUS
  <2>1. PICK k \in 1..j : q[k] = d
    BY <1>11
  <2>2. (L - j) + k \in 1..L
    BY <1>1, <1>10, <1>11
  <2> QED BY <1>11, <1>12, <2>1, <2>2
<1>17. m.ref \subseteq ToSet(s) \/ ToSet(s) \subseteq m.ref
  <2>1. CASE j > 0
    BY <2>1, <1>11
  <2>2. CASE ~(j > 0)
    <3>1. 1..j = {}
      BY <2>2
    <3> QED BY <3>1, <1>14
  <2> QED BY <2>1, <2>2
<1> QED BY <1>3, <1>8, <1>13, <1>15, <1>16, <1>17 DEF Sound, s, q

-----------------------------------------------------------------------------
(* meta_get().                                                             *)

\* What holds of the cache between two calls.
CacheOK(m) ==
  /\ Sound(m)
  /\ m.total = Sum(m.lru) /\ m.total <= Budget
  /\ \A i \in DOMAIN m.over : m.over[i] # Null => Bytes(m.over[i]) > Budget

\* What SecondChance says of a cache and the next one.
Spared(m, x) ==
  \A d \in m.ref : d \notin ToSet(x.lru) => ToSet(m.lru) \cap ToSet(x.lru) \subseteq m.ref

\* A directory that is found.
LEMMA FindIs ==
  ASSUME NEW m, CacheOK(m), NEW d \in Dirs, Cached(m, d)
  PROVE  CacheOK(MetaFind(m, d)) /\ Spared(m, MetaFind(m, d))
<1> DEFINE s == m.lru
           k == Position(m, d)
           x == MetaFind(m, d)
<1>1. m \in CacheRecord /\ s \in Seq(Dirs) /\ IsInjective(s) /\ m.ref \subseteq ToSet(s)
      /\ d \in ToSet(s)
  BY DEF CacheOK, Sound, CacheRecord, Cached
<1>2. k \in 1..Len(s) /\ s[k] = d
  <2>1. \E p \in 1..Len(s) : s[p] = d
    BY <1>1, Members
  <2> QED BY <2>1 DEF Position
<1>3. CASE k <= LruFront
  <2>1. x = [m EXCEPT !.ref = @ \cup {d}]
    BY <1>3 DEF MetaFind
  <2>2. /\ x.lru = s /\ x.ref = m.ref \cup {d} /\ x.total = m.total /\ x.over = m.over
        /\ x \in CacheRecord
    BY <1>1, <2>1 DEF CacheRecord
  <2> HIDE DEF x
  <2>3. CacheOK(x)
    BY <1>1, <2>2 DEF CacheOK, Sound
  <2>4. Spared(m, x)
    BY <1>1, <2>2 DEF Spared
  <2> QED BY <2>3, <2>4 DEF x
<1>4. CASE ~(k <= LruFront)
  <2> DEFINE r == RemoveAt(s, k)
             t == <<d>> \o r
  <2>1. x = [m EXCEPT !.lru = <<d>> \o RemoveAt(@, k)]
    BY <1>4 DEF MetaFind
  <2>2. r \in Seq(Dirs) /\ IsInjective(r) /\ ToSet(r) = ToSet(s) \ {s[k]}
    BY <1>1, <1>2, RemoveIs, RemoveMembers
  <2>3. t \in Seq(Dirs) /\ IsInjective(t) /\ ToSet(t) = ToSet(r) \cup {d}
    BY <1>2, <2>2, ConsIs, ConsMembers
  <2>4. ToSet(t) = ToSet(s)
    BY <1>1, <1>2, <2>2, <2>3
  <2>5. Sum(t) = Sum(s)
    BY <1>1, <1>2, SumMoved
  <2>6. /\ x.lru = t /\ x.ref = m.ref /\ x.total = m.total /\ x.over = m.over
        /\ x \in CacheRecord
    BY <1>1, <2>1, <2>3 DEF CacheRecord
  <2> HIDE DEF x, t, r
  <2>7. CacheOK(x)
    BY <1>1, <2>3, <2>4, <2>5, <2>6 DEF CacheOK, Sound
  <2>8. Spared(m, x)
    BY <1>1, <2>4, <2>6 DEF Spared
  <2> QED BY <2>7, <2>8 DEF x
<1> QED BY <1>3, <1>4

\* A directory that is built and kept.
LEMMA KeepIs ==
  ASSUME NEW m, CacheOK(m), NEW d \in Dirs, ~Cached(m, d), Bytes(d) <= Budget
  PROVE  LET x == [Trim([m EXCEPT !.total = @ + Bytes(d)]) EXCEPT !.lru = <<d>> \o @]
         IN  CacheOK(x) /\ Spared(m, x)
<1> DEFINE a == [m EXCEPT !.total = @ + Bytes(d)]
           b == Trim(a)
           x == [b EXCEPT !.lru = <<d>> \o @]
<1>1. /\ m \in CacheRecord /\ IsInjective(m.lru) /\ m.ref \subseteq ToSet(m.lru)
      /\ d \notin ToSet(m.lru) /\ m.total = Sum(m.lru) /\ m.total \in Nat
      /\ \A i \in DOMAIN m.over : m.over[i] # Null => Bytes(m.over[i]) > Budget
  BY DEF CacheOK, Sound, CacheRecord, Cached
<1>2. Bytes(d) \in Nat
  BY BytesIs
<1>3. /\ a \in CacheRecord /\ a.lru = m.lru /\ a.ref = m.ref /\ a.over = m.over
      /\ a.total = m.total + Bytes(d)
  BY <1>1, <1>2 DEF CacheRecord
<1> HIDE DEF a
<1>4. Sound(a) /\ a.total = Sum(a.lru) + Bytes(d)
  BY <1>1, <1>3 DEF Sound
<1>5. /\ Sound(b) /\ b.over = a.over /\ b.total = Sum(b.lru) + Bytes(d) /\ b.total <= Budget
      /\ ToSet(b.lru) \subseteq ToSet(a.lru)
      /\ a.ref \subseteq ToSet(b.lru) \/ ToSet(b.lru) \subseteq a.ref
  BY <1>2, <1>4, TrimIs
<1> HIDE DEF b
<1>6. /\ b \in CacheRecord /\ b.lru \in Seq(Dirs) /\ IsInjective(b.lru)
      /\ b.ref \subseteq ToSet(b.lru) /\ d \notin ToSet(b.lru) /\ b.total \in Nat
  BY <1>1, <1>3, <1>5 DEF Sound, CacheRecord
<1> DEFINE t == <<d>> \o b.lru
<1>7. t \in Seq(Dirs) /\ IsInjective(t) /\ ToSet(t) = ToSet(b.lru) \cup {d}
  BY <1>6, ConsIs, ConsMembers
<1>8. Sum(t) = Bytes(d) + Sum(b.lru) /\ Sum(b.lru) \in Nat
  BY <1>6, SumCons
<1>9. /\ x.lru = t /\ x.ref = b.ref /\ x.total = b.total /\ x.over = b.over
      /\ x \in CacheRecord
  BY <1>6, <1>7 DEF CacheRecord
<1> HIDE DEF x, t
<1>10. x.total = Sum(x.lru)
  BY <1>2, <1>5, <1>8, <1>9
<1>11. Sound(x)
  BY <1>6, <1>7, <1>9 DEF Sound
<1>12. x.total <= Budget /\ \A i \in DOMAIN x.over : x.over[i] # Null => Bytes(x.over[i]) > Budget
  BY <1>1, <1>3, <1>5, <1>9
<1>13. CacheOK(x)
  BY <1>10, <1>11, <1>12 DEF CacheOK
<1>14. Spared(m, x)
  BY <1>1, <1>3, <1>5, <1>7, <1>9 DEF Spared
<1> QED BY <1>13, <1>14 DEF x, b, a

\* A directory that is remembered as too big.
LEMMA RememberIs ==
  ASSUME NEW m, CacheOK(m), NEW d \in Dirs, Bytes(d) > Budget
  PROVE  LET x == [m EXCEPT !.over[m.next] = d, !.next = SlotAfter(@)]
         IN  CacheOK(x) /\ Spared(m, x)
<1> DEFINE x == [m EXCEPT !.over[m.next] = d, !.next = SlotAfter(@)]
<1>1. m \in CacheRecord /\ m.next \in 0..(Slots - 1) /\ DOMAIN m.over = 0..(Slots - 1)
  BY DEF CacheOK, Sound, CacheRecord
<1>2. SlotAfter(m.next) \in 0..(Slots - 1)
  BY <1>1, MetaAssumption DEF SlotAfter
<1>3. /\ x.lru = m.lru /\ x.ref = m.ref /\ x.total = m.total
      /\ x.over = [m.over EXCEPT ![m.next] = d] /\ x.next = SlotAfter(m.next)
      /\ DOMAIN x = DOMAIN m
  BY <1>1 DEF CacheRecord
<1>4. [m.over EXCEPT ![m.next] = d] \in [0..(Slots - 1) -> Dirs \cup {Null}]
  BY <1>1 DEF CacheRecord
<1>5. x \in CacheRecord
  BY <1>1, <1>2, <1>4 DEF CacheRecord
<1> HIDE DEF x
<1>6. \A i \in 0..(Slots - 1) : x.over[i] = IF i = m.next THEN d ELSE m.over[i]
  BY <1>1, <1>3
<1>7. DOMAIN x.over = 0..(Slots - 1)
  BY <1>3, <1>4
<1>8. ASSUME NEW i \in DOMAIN x.over, x.over[i] # Null PROVE Bytes(x.over[i]) > Budget
  BY <1>1, <1>6, <1>7, <1>8 DEF CacheOK
<1>9. CacheOK(x)
  BY <1>3, <1>5, <1>8 DEF CacheOK, Sound
<1>10. Spared(m, x)
  BY <1>3 DEF Spared, CacheOK, Sound
<1> QED BY <1>9, <1>10 DEF x

\* All that meta_get() may do to the cache.
LEMMA GetIs ==
  ASSUME NEW m, CacheOK(m), NEW d \in Dirs, NEW built \in BOOLEAN
  PROVE  /\ CacheOK(MetaGet(m, d, built).mc) /\ Spared(m, MetaGet(m, d, built).mc)
         /\ MetaGet(m, d, built).serves \in BOOLEAN
<1>1. Spared(m, m)
  BY DEF Spared, CacheOK, Sound
<1>2. Bytes(d) \in Nat /\ Budget \in Nat
  BY BytesIs, MetaAssumption
<1>3. CASE Cached(m, d)
  <2>1. MetaGet(m, d, built) = [mc |-> MetaFind(m, d), serves |-> TRUE]
    BY <1>3 DEF MetaGet
  <2> QED BY <1>3, <2>1, FindIs
<1>4. CASE ~Cached(m, d) /\ \E i \in DOMAIN m.over : m.over[i] = d
  <2>1. MetaGet(m, d, built) = [mc |-> m, serves |-> FALSE]
    BY <1>4 DEF MetaGet
  <2> QED BY <1>1, <2>1
<1>5. CASE ~Cached(m, d) /\ ~\E i \in DOMAIN m.over : m.over[i] = d
  <2> DEFINE y == [m EXCEPT !.over[m.next] = d, !.next = SlotAfter(@)]
             z == [Trim([m EXCEPT !.total = @ + Bytes(d)]) EXCEPT !.lru = <<d>> \o @]
  <2>1. MetaGet(m, d, built) =
          IF Remembered(d, built) THEN [mc |-> y, serves |-> FALSE]
          ELSE IF built /\ Bytes(d) > Budget THEN [mc |-> m, serves |-> TRUE]
          ELSE IF built THEN [mc |-> z, serves |-> TRUE] ELSE [mc |-> m, serves |-> FALSE]
    BY <1>5 DEF MetaGet
  <2>2. Bytes(d) > Budget => CacheOK(y) /\ Spared(m, y)
    BY RememberIs
  <2>3. ~(Bytes(d) > Budget) => CacheOK(z) /\ Spared(m, z)
    <3>1. ~(Bytes(d) > Budget) => Bytes(d) <= Budget
      BY <1>2
    <3>2. Bytes(d) <= Budget => CacheOK(z) /\ Spared(m, z)
      BY <1>5, KeepIs
    <3> QED BY <3>1, <3>2
  <2> HIDE DEF y, z
  <2>4. CASE Remembered(d, built)
    <3>1. Bytes(d) > Budget
      BY <2>4 DEF Remembered, TooBig
    <3> QED BY <2>1, <2>2, <2>4, <3>1
  <2>5. CASE ~Remembered(d, built)
    BY <1>1, <2>1, <2>3, <2>5
  <2> QED BY <2>4, <2>5
<1> QED BY <1>3, <1>4, <1>5

\* Every step leaves the cache alone or calls meta_get() once.
LEMMA CacheStep ==
  ASSUME Next
  PROVE  mc' = mc \/ \E d \in Dirs, built \in BOOLEAN : mc' = MetaGet(mc, d, built).mc
<1>1. ASSUME NEW d \in Dirs, NEW cookie, NEW n, NEW built \in BOOLEAN
      PROVE  \/ Readdir(d, cookie, n, built).mc = mc
             \/ \E b \in BOOLEAN : Readdir(d, cookie, n, built).mc = MetaGet(mc, d, b).mc
  <2>1. (built /\ n = Count[d]) \in BOOLEAN
    OBVIOUS
  <2> QED BY <2>1 DEF Readdir
<1>2. Builds \subseteq BOOLEAN /\ \A s \in Scans : Dir(s) \in Dirs
  BY ScanAssumption DEF Builds, Dir
<1>3. ASSUME NEW s \in NextScans, Examine(s) \/ ExamineNext(s)
      PROVE  mc' = mc \/ \E d \in Dirs, b \in BOOLEAN : mc' = MetaGet(mc, d, b).mc
  <2>1. CASE Examine(s)
    BY <2>1 DEF Examine
  <2>2. CASE ExamineNext(s)
    <3>1. mc' = mc \/ \E n \in Readable(Dir(s)), built \in Builds : \E c : mc' = Readdir(Dir(s), c, n, built).mc
      BY <2>2, Zenon DEF ExamineNext
    <3> QED BY <3>1, <1>1, <1>2 DEF Scans
  <2> QED BY <1>3, <2>1, <2>2
<1>4. ASSUME NEW s \in AllScans, (\E fit \in 0..MaxFit : ExamineAll(s, fit)) \/ ExamineAllEnd(s)
      PROVE  mc' = mc \/ \E d \in Dirs, b \in BOOLEAN : mc' = MetaGet(mc, d, b).mc
  <2>1. CASE ExamineAllEnd(s)
    BY <2>1 DEF ExamineAllEnd
  <2>2. CASE \E fit \in 0..MaxFit : ExamineAll(s, fit)
    <3>1. \E n \in Readable(Dir(s)), built \in Builds : \E c : mc' = Readdir(Dir(s), c, n, built).mc
      BY <2>2, Zenon DEF ExamineAll
    <3> QED BY <3>1, <1>1, <1>2 DEF Scans
  <2> QED BY <1>4, <2>1, <2>2
<1>5. ASSUME NEW d \in Dirs, Lookup(d)
      PROVE  \E b \in BOOLEAN : mc' = MetaGet(mc, d, b).mc
  <2>1. PICK n \in Readable(d), built \in Builds : mc' = MetaGet(mc, d, built /\ n = Count[d]).mc
    BY <1>5 DEF Lookup
  <2>2. (built /\ n = Count[d]) \in BOOLEAN
    OBVIOUS
  <2> QED BY <2>1, <2>2
<1> QED BY <1>3, <1>4, <1>5, Zenon DEF Next

\* The empty cache.
LEMMA NewCacheOK == CacheOK(NewCache)
<1>1. NewCache \in CacheRecord
  <2>1. <<>> \in Seq(Dirs) /\ {} \in SUBSET Dirs /\ 0 \in Nat /\ 0 \in 0..(Slots - 1)
        /\ [i \in 0..(Slots - 1) |-> Null] \in [0..(Slots - 1) -> Dirs \cup {Null}]
    BY MetaAssumption
  <2> QED BY <2>1 DEF NewCache, CacheRecord
<1>2. NewCache.lru = <<>> /\ NewCache.ref = {} /\ NewCache.total = 0
      /\ \A i \in DOMAIN NewCache.over : NewCache.over[i] = Null
  BY DEF NewCache
<1>3. IsInjective(<<>>)
  BY DEF IsInjective
<1>4. NewCache.total <= Budget
  BY <1>2, MetaAssumption
<1> QED BY <1>1, <1>2, <1>3, <1>4, SumSmall DEF CacheOK, Sound

\* The invariant of the cache in every behaviour.
LEMMA CacheInvariant == Spec => []CacheOK(mc)
<1>1. Init => CacheOK(mc)
  BY NewCacheOK DEF Init
<1>2. CacheOK(mc) /\ [Next]_vars => CacheOK(mc)'
  <2> SUFFICES ASSUME CacheOK(mc), [Next]_vars PROVE CacheOK(mc')
    OBVIOUS
  <2>1. CASE Next
    BY <2>1, CacheStep, GetIs
  <2>2. CASE UNCHANGED vars
    BY <2>2 DEF vars
  <2> QED BY <2>1, <2>2
<1> QED BY <1>1, <1>2, PTL DEF Spec

\* The parsed-directory cache stays within its byte budget, accounts for exactly
\* the directories it holds, holds none twice, and remembers as oversized only
\* what cannot fit (meta_get, meta_trim, meta_find_extent in core/cache_meta.c),
\* whatever is listed and looked up, whatever fails and whatever is flagged.
THEOREM CacheWithinBudget == Spec => []WithinBudget
<1>1. CacheOK(mc) => WithinBudget
  BY DEF CacheOK, Sound, WithinBudget, Sum
<1> QED BY <1>1, CacheInvariant, PTL

\* No step evicts a directory that was used since it was last moved to the head
\* while it keeps one that was not (the second chance of meta_trim).
THEOREM UsedDirectoriesStay == Spec => SecondChance
<1>1. CacheOK(mc) /\ [Next]_vars =>
        [\A d \in mc.ref : d \notin ToSet(mc'.lru) =>
           ToSet(mc.lru) \cap ToSet(mc'.lru) \subseteq mc.ref]_mc
  <2>1. SUFFICES ASSUME CacheOK(mc), Next \/ UNCHANGED vars
                 PROVE  mc' = mc \/ \A d \in mc.ref : d \notin ToSet(mc'.lru) =>
                          ToSet(mc.lru) \cap ToSet(mc'.lru) \subseteq mc.ref
    OBVIOUS
  <2>2. CASE Next
    <3>1. mc' = mc \/ Spared(mc, mc')
      BY <2>1, <2>2, CacheStep, GetIs
    <3> QED BY <3>1 DEF Spared
  <2>3. CASE UNCHANGED vars
    BY <2>3 DEF vars
  <2> QED BY <2>1, <2>2, <2>3
<1> QED BY <1>1, CacheInvariant, PTL DEF Spec, SecondChance

-----------------------------------------------------------------------------
(* Enumerations.                                                           *)

\* The constants of a scan.
LEMMA ScanFacts ==
  ASSUME NEW s \in Scans
  PROVE  /\ LockOf[s] \in Locks /\ Dir(s) \in Dirs /\ Count[Dir(s)] \in Nat
         /\ \A i \in 1..Count[Dir(s)] : Key[Dir(s)][i] \in Nat \ {0}
         /\ DirKey[Dir(s)] \in Nat \ {0} /\ CddaKey \in Nat \ {0}
BY ScanAssumption, MetaAssumption DEF Dir

\* The least of a set of naturals.
LEMMA MinIs ==
  ASSUME NEW T \in SUBSET Nat, T # {}
  PROVE  Min(T) \in T /\ \A y \in T : Min(T) <= y
<1>1. \E x \in T : \A y \in T : x <= y
  BY Summing!LeastElement
<1> QED BY <1>1 DEF Min

\* How far the callback gets, and what becomes of the cache.
LEMMA ReaddirIs ==
  ASSUME CacheOK(mc), NEW d \in Dirs, NEW cookie \in Cookie, NEW n \in Readable(d), NEW built \in Builds
  PROVE  LET r == Readdir(d, cookie, n, built)
         IN  /\ r.serves \in BOOLEAN /\ r.upto \in 0..Count[d]
             /\ "io" \notin Failures => r.upto = Count[d]
<1>1. Count[d] \in Nat /\ n \in 0..Count[d] /\ ("io" \notin Failures => n = Count[d])
  BY MetaAssumption DEF Readable
<1>2. (built /\ n = Count[d]) \in BOOLEAN
  OBVIOUS
<1>3. MetaGet(mc, d, built /\ n = Count[d]).serves \in BOOLEAN
  BY <1>2, GetIs
<1>4. Readdir(d, cookie, n, built).serves \in BOOLEAN
  BY <1>3 DEF Readdir
<1>5. Readdir(d, cookie, n, built).upto = IF Readdir(d, cookie, n, built).serves THEN Count[d] ELSE n
  BY DEF Readdir
<1> QED BY <1>1, <1>4, <1>5

\* The entry the callback stops at.
LEMMA HitIs ==
  ASSUME NEW d, NEW prev, NEW first \in BOOLEAN, NEW from \in Nat, NEW upto \in Nat
  PROVE  LET hit == ExnextHit(d, prev, first, from, upto)
         IN  /\ hit \in 0..upto
             /\ first => hit = IF from + 1 <= upto THEN from + 1 ELSE 0
             /\ \A k \in (from + 1)..upto :
                  ~first /\ Key[d][k] = prev
                         /\ (\A i \in (from + 1)..upto : Key[d][i] = prev => i = k)
                  => hit = IF k + 1 <= upto THEN k + 1 ELSE 0
<1> DEFINE known == {i \in (from + 1)..upto : Key[d][i] = prev}
           hit == ExnextHit(d, prev, first, from, upto)
<1>1. known \in SUBSET Nat /\ known \subseteq (from + 1)..upto
  OBVIOUS
<1>2. known # {} => Min(known) \in known /\ Min(known) \in Nat
  BY <1>1, MinIs
<1>3. hit = LET next == IF first THEN from + 1 ELSE Min(known) + 1
            IN  IF (first \/ known # {}) /\ next <= upto THEN next ELSE 0
  BY DEF ExnextHit
<1> HIDE DEF hit
<1>4. ASSUME NEW k \in (from + 1)..upto, Key[d][k] = prev,
             \A i \in (from + 1)..upto : Key[d][i] = prev => i = k
      PROVE  known # {} /\ Min(known) = k
  BY <1>1, <1>2, <1>4
<1> HIDE DEF known
<1>5. hit \in 0..upto
  BY <1>2, <1>3
<1>6. first => hit = IF from + 1 <= upto THEN from + 1 ELSE 0
  BY <1>3
<1>7. ASSUME NEW k \in (from + 1)..upto, ~first, Key[d][k] = prev,
             \A i \in (from + 1)..upto : Key[d][i] = prev => i = k
      PROVE  hit = IF k + 1 <= upto THEN k + 1 ELSE 0
  BY <1>3, <1>4, <1>7
<1> QED BY <1>5, <1>6, <1>7 DEF hit

\* The cookie that is left behind.
LEMMA CookieIs ==
  ASSUME NEW d \in Dirs, NEW cookie \in Cookie, NEW r, r.serves \in BOOLEAN,
         r.upto \in 0..Count[d], NEW hit \in 0..Count[d]
  PROVE  LET next == CookieAfter(d, cookie, r, hit)
         IN  /\ next \in Cookie /\ (hit # 0 => next.at = hit)
             /\ hit = 0 /\ r.upto = Count[d] => next.at = Count[d] \/ next.at = Count[d] + 1
<1>1. Count[d] \in Nat /\ cookie.tagged \in BOOLEAN
  BY MetaAssumption DEF Cookie
<1>2. CASE r.serves
  <2>1. CookieAfter(d, cookie, r, hit) = Replayed(d, hit)
    BY <1>2 DEF CookieAfter
  <2> QED BY <1>1, <2>1 DEF Replayed, Cookie
<1>3. CASE ~r.serves /\ cookie.tagged
  <2>1. CookieAfter(d, cookie, r, hit) = Skipped(r.upto, hit)
    BY <1>3 DEF CookieAfter
  <2> QED BY <1>1, <2>1 DEF Skipped, Cookie
<1>4. CASE ~r.serves /\ ~cookie.tagged
  <2>1. CookieAfter(d, cookie, r, hit) = BackendCookie(d, r.upto, cookie, hit)
    BY <1>4 DEF CookieAfter
  <2> QED BY <1>1, <2>1 DEF BackendCookie, Cookie
<1> QED BY <1>1, <1>2, <1>3, <1>4

-----------------------------------------------------------------------------
(* The steps.                                                              *)

CursorRecord == [valid : BOOLEAN, prev : Nat, resume : Cookie, cdda : BOOLEAN]

TypeInv ==
  /\ CacheOK(mc)
  /\ cursor \in [Locks -> CursorRecord] /\ place \in [Scans -> Nat] /\ ended \subseteq Scans
  /\ got \in [Scans -> Seq(Nat)] /\ \A s \in Scans : got[s] \in Seq(0..Count[Dir(s)])

\* Where ExNext looks, and whether from the start.
ResumeOf(s) == IF CursorMatches(s) THEN cursor[LockOf[s]].resume ELSE Start
FirstOf(s) == CursorMatches(s) \/ place[s] = DirKey[Dir(s)]

\* What ExNext answers when the callback stops at hit and leaves a cookie.
Answered(s, hit, next) ==
  IF hit # 0
  THEN /\ got' = [got EXCEPT ![s] = Append(@, hit)]
       /\ place' = [place EXCEPT ![s] = Key[Dir(s)][hit]]
       /\ CursorUpdate(s, Key[Dir(s)][hit], next, FALSE)
       /\ ended' = ended \ {s}
  ELSE IF Dir(s) \in CddaRoots /\ place[s] # CddaKey
  THEN /\ got' = [got EXCEPT ![s] = Append(@, 0)]
       /\ place' = [place EXCEPT ![s] = CddaKey]
       /\ CursorUpdate(s, CddaKey, next, TRUE)
       /\ ended' = ended \ {s}
  ELSE /\ ended' = ended \cup {s}
       /\ CursorUpdate(s, place[s], next, FALSE)
       /\ UNCHANGED <<got, place>>

\* An ExNext call says that the CDDA directory was the last, or answers from an
\* enumeration of the entries up to upto.
LEMMA NextStep ==
  ASSUME TypeInv, NEW s \in NextScans, ExamineNext(s), ~CddaWasLast(s)
  PROVE  /\ place[s] # 0
         /\ \E upto \in 0..Count[Dir(s)], next \in Cookie :
              LET hit == ExnextHit(Dir(s), place[s], FirstOf(s), ResumeOf(s).at, upto)
              IN  /\ "io" \notin Failures => upto = Count[Dir(s)]
                  /\ hit \in 0..Count[Dir(s)] /\ (hit # 0 => next.at = hit)
                  /\ hit = 0 /\ upto = Count[Dir(s)] =>
                       next.at = Count[Dir(s)] \/ next.at = Count[Dir(s)] + 1
                  /\ Answered(s, hit, next)
<1> DEFINE d == Dir(s)
           resume == ResumeOf(s)
           first == FirstOf(s)
<1>1. s \in Scans /\ d \in Dirs /\ Count[d] \in Nat /\ LockOf[s] \in Locks
  BY ScanFacts DEF Scans
<1>2. resume \in Cookie /\ resume.at \in Nat /\ first \in BOOLEAN
  <2>1. Start \in Cookie
    BY DEF Start, Cookie
  <2>2. cursor[LockOf[s]].resume \in Cookie
    BY <1>1 DEF TypeInv, CursorRecord
  <2>3. resume \in Cookie
    BY <2>1, <2>2 DEF ResumeOf
  <2> QED BY <2>3 DEF Cookie, FirstOf, CursorMatches
<1> DEFINE R(n, built) == Readdir(d, resume, n, built)
           H(n, built) == ExnextHit(d, place[s], first, resume.at, R(n, built).upto)
           C(n, built) == CookieAfter(d, resume, R(n, built), H(n, built))
<1>3. place[s] # 0 /\ \E n \in Readable(d), built \in Builds : Answered(s, H(n, built), C(n, built))
  BY Zenon DEF ExamineNext, Answered, ResumeOf, FirstOf
<1>4. PICK n \in Readable(d), built \in Builds : Answered(s, H(n, built), C(n, built))
  BY <1>3
<1>5. /\ R(n, built).serves \in BOOLEAN /\ R(n, built).upto \in 0..Count[d]
      /\ "io" \notin Failures => R(n, built).upto = Count[d]
  BY <1>1, <1>2, ReaddirIs DEF TypeInv
<1> HIDE DEF R, resume, first
<1>6. H(n, built) \in 0..R(n, built).upto
  <2>1. R(n, built).upto \in Nat
    BY <1>1, <1>5
  <2> QED BY <1>2, <2>1, HitIs
<1>7. H(n, built) \in 0..Count[d]
  BY <1>1, <1>5, <1>6
<1> HIDE DEF H
<1>8. /\ C(n, built) \in Cookie /\ (H(n, built) # 0 => C(n, built).at = H(n, built))
      /\ H(n, built) = 0 /\ R(n, built).upto = Count[d] =>
           C(n, built).at = Count[d] \/ C(n, built).at = Count[d] + 1
  BY <1>1, <1>2, <1>5, <1>7, CookieIs
<1> HIDE DEF C
<1>9. \E upto \in 0..Count[d], next \in Cookie :
        LET hit == ExnextHit(d, place[s], first, resume.at, upto)
        IN  /\ "io" \notin Failures => upto = Count[d]
            /\ hit \in 0..Count[d] /\ (hit # 0 => next.at = hit)
            /\ hit = 0 /\ upto = Count[d] => next.at = Count[d] \/ next.at = Count[d] + 1
            /\ Answered(s, hit, next)
  <2> R(n, built).upto \in 0..Count[d] /\ C(n, built) \in Cookie
    BY <1>5, <1>8
  <2> WITNESS R(n, built).upto \in 0..Count[d], C(n, built) \in Cookie
  <2> QED BY <1>4, <1>5, <1>7, <1>8 DEF H
<1> QED BY <1>3, <1>9 DEF resume, first

\* What ExAll has left to give: what it may be, and its entries.
LEMMA DueIs ==
  ASSUME NEW s \in Scans, NEW upto \in 0..Count[Dir(s)]
  PROVE  LET b == Behind(Dir(s), place[s], upto)
         IN  /\ b \in 0..upto /\ Due(s, upto) \in Seq(0..Count[Dir(s)])
             /\ Len(Due(s, upto)) = (upto - b) + (IF CddaFollows(s, upto) THEN 1 ELSE 0)
             /\ \A i \in 1..(upto - b) : Due(s, upto)[i] = b + i
             /\ CddaFollows(s, upto) => Due(s, upto)[(upto - b) + 1] = 0
<1> DEFINE d == Dir(s)
           b == Behind(d, place[s], upto)
           known == {i \in 1..upto : Key[d][i] = place[s]}
           S == 0..Count[d]
           q == [k \in 1..upto |-> k]
           u == SubSeq(q, b + 1, upto)
           v == IF CddaFollows(s, upto) THEN <<0>> ELSE <<>>
<1>1. Count[d] \in Nat /\ upto \in Nat /\ upto <= Count[d]
  BY ScanFacts
<1>2. b \in 0..upto
  <2>1. known \in SUBSET Nat /\ known \subseteq 1..upto
    OBVIOUS
  <2>2. known # {} => Min(known) \in known
    BY <2>1, MinIs
  <2>3. b = IF place[s] = 0 THEN 0 ELSE IF known = {} THEN upto ELSE Min(known)
    BY DEF Behind
  <2> HIDE DEF b, known
  <2> QED BY <1>1, <2>1, <2>2, <2>3
<1>3. Due(s, upto) = u \o v
  BY DEF Due
<1> HIDE DEF b, d
<1>4. b + 1 \in Int /\ upto \in Int /\ \A i \in (b + 1)..upto : q[i] \in S
  BY <1>1, <1>2
<1>5. /\ u \in Seq(S) /\ Len(u) = (IF b + 1 <= upto THEN upto - (b + 1) + 1 ELSE 0)
      /\ \A i \in 1..(upto - (b + 1) + 1) : u[i] = q[(b + 1) + i - 1]
  BY <1>4, SubSeqProperties, SMTT(30)
<1>6. Len(u) = upto - b /\ upto - (b + 1) + 1 = upto - b
  BY <1>1, <1>2, <1>5
<1>7. \A i \in 1..(upto - b) : u[i] = b + i
  <2> SUFFICES ASSUME NEW i \in 1..(upto - b) PROVE u[i] = b + i
    OBVIOUS
  <2>1. (b + 1) + i - 1 = b + i /\ b + i \in 1..upto
    BY <1>1, <1>2
  <2> QED BY <1>5, <1>6, <2>1
<1>8. v \in Seq(S) /\ Len(v) = (IF CddaFollows(s, upto) THEN 1 ELSE 0)
      /\ (CddaFollows(s, upto) => v[1] = 0)
  <2>1. 0 \in S
    BY <1>1
  <2>2. <<0>> \in Seq(S) /\ <<>> \in Seq(S) /\ Len(<<0>>) = 1 /\ Len(<<>>) = 0 /\ <<0>>[1] = 0
    BY <2>1
  <2>3. v = IF CddaFollows(s, upto) THEN <<0>> ELSE <<>>
    OBVIOUS
  <2> HIDE DEF v
  <2>4. CASE CddaFollows(s, upto)
    BY <2>2, <2>3, <2>4
  <2>5. CASE ~CddaFollows(s, upto)
    BY <2>2, <2>3, <2>5
  <2> QED BY <2>4, <2>5
<1> HIDE DEF u, v, S, q
<1>9. /\ u \o v \in Seq(S) /\ Len(u \o v) = Len(u) + Len(v)
      /\ \A i \in 1..(Len(u) + Len(v)) : (u \o v)[i] = IF i <= Len(u) THEN u[i] ELSE v[i - Len(u)]
  BY <1>5, <1>8, ConcatProperties, ZenonT(40)
<1>10. \A i \in 1..(upto - b) : (u \o v)[i] = b + i
  <2> SUFFICES ASSUME NEW i \in 1..(upto - b) PROVE (u \o v)[i] = b + i
    OBVIOUS
  <2>1. i \in 1..(Len(u) + Len(v)) /\ i <= Len(u)
    BY <1>1, <1>2, <1>6, <1>8
  <2> QED BY <1>7, <1>9, <2>1
<1>11. ASSUME CddaFollows(s, upto) PROVE (u \o v)[(upto - b) + 1] = 0
  <2> DEFINE i == (upto - b) + 1
  <2>1. i \in 1..(Len(u) + Len(v)) /\ ~(i <= Len(u)) /\ i - Len(u) = 1
    BY <1>1, <1>2, <1>6, <1>8, <1>11
  <2> HIDE DEF i
  <2>2. (u \o v)[i] = v[1]
    BY <1>9, <2>1
  <2> QED BY <1>8, <1>11, <2>2 DEF i
<1> QED BY <1>2, <1>3, <1>6, <1>8, <1>9, <1>10, <1>11 DEF b, d, S

\* The entries of due that fit: given is its first m, and the client's key is
\* that of the last of them.
GivenKey(s, e) == IF e = 0 THEN CddaKey ELSE Key[Dir(s)][e]
LEMMA GiveIs ==
  ASSUME TypeInv, NEW s \in Scans, NEW due \in Seq(0..Count[Dir(s)]), NEW fit \in Nat,
         Give(s, due, fit)
  PROVE  \E m \in 0..Len(due), given \in Seq(0..Count[Dir(s)]) :
           /\ Len(given) = m /\ (\A i \in 1..m : given[i] = due[i])
           /\ got' = [got EXCEPT ![s] = @ \o given]
           /\ \/ m > 0 /\ place' = [place EXCEPT ![s] = GivenKey(s, given[m])] /\ ended' = ended
              \/ m = 0 /\ due # <<>> /\ UNCHANGED <<place, ended>>
              \/ m = 0 /\ due = <<>> /\ place' = [place EXCEPT ![s] = 0] /\ ended' = ended \cup {s}
<1> DEFINE S == 0..Count[Dir(s)]
           m == Min({fit, Len(due)})
           given == SubSeq(due, 1, m)
<1>1. Len(due) \in Nat /\ \A i \in 1..Len(due) : due[i] \in S
  BY LenProperties, ElementOfSeq
<1>2. m \in Nat /\ m <= Len(due) /\ (m = fit \/ m = Len(due))
  <2>1. {fit, Len(due)} \in SUBSET Nat /\ {fit, Len(due)} # {}
    BY <1>1
  <2>2. m \in {fit, Len(due)} /\ \A y \in {fit, Len(due)} : m <= y
    BY <2>1, MinIs
  <2> HIDE DEF m
  <2> QED BY <1>1, <2>2
<1>3. /\ got' = [got EXCEPT ![s] = @ \o given]
      /\ LET key == IF Last(given) = 0 THEN CddaKey ELSE Key[Dir(s)][Last(given)]
         IN  CASE given # <<>> -> place' = [place EXCEPT ![s] = key] /\ UNCHANGED ended
               [] due # <<>> /\ given = <<>> -> UNCHANGED <<place, ended>>
               [] due = <<>> -> place' = [place EXCEPT ![s] = 0] /\ ended' = ended \cup {s}
  BY DEF Give
<1> HIDE DEF m
<1>4. 1 \in Int /\ m \in Int /\ \A i \in 1..m : due[i] \in S
  BY <1>1, <1>2
<1>5. /\ given \in Seq(S) /\ Len(given) = (IF 1 <= m THEN m - 1 + 1 ELSE 0)
      /\ \A i \in 1..(m - 1 + 1) : given[i] = due[1 + i - 1]
  BY <1>4, SubSeqProperties
<1> HIDE DEF S, given
<1>6. Len(given) = m /\ \A i \in 1..m : given[i] = due[i]
  BY <1>2, <1>5
<1>7. (given = <<>> <=> m = 0) /\ (due = <<>> <=> Len(due) = 0)
  BY <1>5, <1>6, EmptySeq DEF S
<1>8. due = <<>> => given = <<>>
  BY <1>1, <1>2, <1>7
<1>9. Last(given) = given[m]
  BY <1>6 DEF Last
<1>10. \/ m > 0 /\ place' = [place EXCEPT ![s] = GivenKey(s, given[m])] /\ ended' = ended
       \/ m = 0 /\ due # <<>> /\ UNCHANGED <<place, ended>>
       \/ m = 0 /\ due = <<>> /\ place' = [place EXCEPT ![s] = 0] /\ ended' = ended \cup {s}
  <2>1. CASE given # <<>>
    <3>1. m > 0
      BY <1>2, <1>7, <2>1
    <3> QED BY <1>3, <1>8, <1>9, <2>1, <3>1 DEF GivenKey
  <2>2. CASE given = <<>> /\ due # <<>>
    BY <1>3, <1>7, <2>2
  <2>3. CASE given = <<>> /\ due = <<>>
    BY <1>3, <1>7, <2>3
  <2> QED BY <2>1, <2>2, <2>3
<1>11. m \in 0..Len(due)
  BY <1>1, <1>2
<1> QED BY <1>3, <1>5, <1>6, <1>10, <1>11 DEF S

\* An ExAll call.
LEMMA AllStep ==
  ASSUME TypeInv, NEW s \in AllScans, NEW fit \in Nat, ExamineAll(s, fit)
  PROVE  /\ s \notin ended /\ cursor' = cursor
         /\ \E upto \in 0..Count[Dir(s)] :
              ("io" \notin Failures => upto = Count[Dir(s)]) /\ Give(s, Due(s, upto), fit)
<1>1. s \in Scans /\ Dir(s) \in Dirs
  BY ScanFacts DEF Scans
<1>2. Start \in Cookie
  BY DEF Start, Cookie
<1>3. PICK n \in Readable(Dir(s)), built \in Builds :
        Give(s, Due(s, Readdir(Dir(s), Start, n, built).upto), fit)
  BY Zenon DEF ExamineAll
<1>4. LET r == Readdir(Dir(s), Start, n, built)
      IN  r.upto \in 0..Count[Dir(s)] /\ ("io" \notin Failures => r.upto = Count[Dir(s)])
  BY <1>1, <1>2, ReaddirIs DEF TypeInv
<1>5. s \notin ended /\ cursor' = cursor
  BY DEF ExamineAll
<1> QED BY <1>3, <1>4, <1>5

-----------------------------------------------------------------------------
(* Types.                                                                  *)

\* A change of one scan and of the cursor of its lock keeps the types.
LEMMA TypesKept ==
  ASSUME TypeInv, CacheOK(mc'), NEW s \in Scans, NEW g \in Seq(0..Count[Dir(s)]), NEW k \in Nat,
         got' = [got EXCEPT ![s] = g], place' = [place EXCEPT ![s] = k],
         cursor' \in [Locks -> CursorRecord], ended' \subseteq Scans
  PROVE  TypeInv'
<1>1. 0..Count[Dir(s)] \subseteq Nat
  OBVIOUS
<1>2. g \in Seq(Nat)
  BY <1>1, SeqMonotonic
<1>3. got' \in [Scans -> Seq(Nat)] /\ place' \in [Scans -> Nat]
  BY <1>2 DEF TypeInv
<1>4. \A r \in Scans : got'[r] \in Seq(0..Count[Dir(r)])
  BY DEF TypeInv
<1> QED BY <1>3, <1>4 DEF TypeInv, Dir

\* The cursor of a lock after an update.
LEMMA CursorKept ==
  ASSUME TypeInv, NEW s \in Scans, NEW prev \in Nat, NEW resume \in Cookie, NEW cdda \in BOOLEAN,
         CursorUpdate(s, prev, resume, cdda)
  PROVE  /\ cursor' \in [Locks -> CursorRecord]
         /\ cursor' = [cursor EXCEPT ![LockOf[s]] =
                         [valid |-> TRUE, prev |-> prev, resume |-> resume, cdda |-> cdda]]
<1>1. LockOf[s] \in Locks
  BY ScanFacts
<1> QED BY <1>1 DEF TypeInv, CursorUpdate, CursorRecord

\* Every step keeps the types.
LEMMA TypesStep ==
  ASSUME TypeInv, [Next]_vars
  PROVE  TypeInv'
<1>0. ASSUME NEW s \in Scans
      PROVE  /\ got[s] \in Seq(0..Count[Dir(s)]) /\ place[s] \in Nat /\ Count[Dir(s)] \in Nat
             /\ got = [got EXCEPT ![s] = got[s]] /\ place = [place EXCEPT ![s] = place[s]]
             /\ (\A i \in 0..Count[Dir(s)] : Append(got[s], i) \in Seq(0..Count[Dir(s)]))
             /\ <<>> \in Seq(0..Count[Dir(s)])
  BY <1>0, ScanFacts DEF TypeInv
<1>1. CASE UNCHANGED vars
  BY <1>1 DEF TypeInv, vars, Dir
<1>2. ASSUME Next PROVE CacheOK(mc')
  BY <1>2, CacheStep, GetIs DEF TypeInv
<1>3. ASSUME Next, NEW s \in NextScans, Examine(s) PROVE TypeInv'
  <2>1. s \in Scans /\ DirKey[Dir(s)] \in Nat /\ Start \in Cookie
    BY ScanFacts DEF Scans, Start, Cookie
  <2>2. cursor' \in [Locks -> CursorRecord]
    BY <1>3, <2>1, CursorKept DEF Examine
  <2>3. ended' \subseteq Scans
    BY <1>3 DEF Examine, TypeInv
  <2>4. got' = [got EXCEPT ![s] = <<>>] /\ place' = [place EXCEPT ![s] = DirKey[Dir(s)]]
    BY <1>3 DEF Examine
  <2> QED BY <1>0, <1>2, <1>3, <2>1, <2>2, <2>3, <2>4, TypesKept
<1>4. ASSUME Next, NEW s \in NextScans, ExamineNext(s) PROVE TypeInv'
  <2>1. CacheOK(mc') /\ s \in Scans
    BY <1>2, <1>4 DEF Scans
  <2>2. CASE CddaWasLast(s)
    <3>1. ended' = ended \cup {s} /\ UNCHANGED <<cursor, place, got>>
      BY <1>4, <2>2, Zenon DEF ExamineNext
    <3> QED BY <2>1, <3>1 DEF TypeInv, Dir
  <2>3. CASE ~CddaWasLast(s)
    <3>1. PICK upto \in 0..Count[Dir(s)], next \in Cookie :
            LET hit == ExnextHit(Dir(s), place[s], FirstOf(s), ResumeOf(s).at, upto)
            IN  hit \in 0..Count[Dir(s)] /\ Answered(s, hit, next)
      BY <1>4, <2>3, NextStep
    <3> DEFINE hit == ExnextHit(Dir(s), place[s], FirstOf(s), ResumeOf(s).at, upto)
    <3>2. hit \in 0..Count[Dir(s)] /\ Answered(s, hit, next)
      BY <3>1
    <3> HIDE DEF hit
    <3>3. CASE hit # 0
      <4>1. /\ got' = [got EXCEPT ![s] = Append(@, hit)]
            /\ place' = [place EXCEPT ![s] = Key[Dir(s)][hit]]
            /\ CursorUpdate(s, Key[Dir(s)][hit], next, FALSE)
            /\ ended' = ended \ {s}
        BY <3>2, <3>3 DEF Answered
      <4>2. hit \in 1..Count[Dir(s)]
        BY <3>2, <3>3
      <4>3. Key[Dir(s)][hit] \in Nat
        BY <2>1, <4>2, ScanFacts
      <4>4. cursor' \in [Locks -> CursorRecord]
        BY <2>1, <4>1, <4>3, CursorKept
      <4>5. got' = [got EXCEPT ![s] = Append(got[s], hit)] /\ Append(got[s], hit) \in Seq(0..Count[Dir(s)])
        BY <1>0, <2>1, <3>2, <4>1
      <4>6. ended' \subseteq Scans
        BY <4>1 DEF TypeInv
      <4> QED BY <2>1, <4>1, <4>3, <4>4, <4>5, <4>6, TypesKept
    <3>4. CASE hit = 0 /\ Dir(s) \in CddaRoots /\ place[s] # CddaKey
      <4>1. /\ got' = [got EXCEPT ![s] = Append(@, 0)]
            /\ place' = [place EXCEPT ![s] = CddaKey]
            /\ CursorUpdate(s, CddaKey, next, TRUE)
            /\ ended' = ended \ {s}
        BY <3>2, <3>4 DEF Answered
      <4>2. CddaKey \in Nat
        BY <2>1, ScanFacts
      <4>4. cursor' \in [Locks -> CursorRecord]
        BY <2>1, <4>1, <4>2, CursorKept
      <4>5. got' = [got EXCEPT ![s] = Append(got[s], 0)] /\ Append(got[s], 0) \in Seq(0..Count[Dir(s)])
        BY <1>0, <2>1, <3>2, <3>4, <4>1
      <4>6. ended' \subseteq Scans
        BY <4>1 DEF TypeInv
      <4> QED BY <2>1, <4>1, <4>2, <4>4, <4>5, <4>6, TypesKept
    <3>5. CASE hit = 0 /\ ~(Dir(s) \in CddaRoots /\ place[s] # CddaKey)
      <4>1. ended' = ended \cup {s} /\ CursorUpdate(s, place[s], next, FALSE) /\ UNCHANGED <<got, place>>
        BY <3>2, <3>5 DEF Answered
      <4>2. cursor' \in [Locks -> CursorRecord]
        BY <1>0, <2>1, <4>1, CursorKept
      <4> QED BY <2>1, <4>1, <4>2 DEF TypeInv, Dir
    <3> QED BY <3>3, <3>4, <3>5
  <2> QED BY <2>2, <2>3
<1>5. ASSUME Next, NEW s \in AllScans, NEW fit \in 0..MaxFit, ExamineAll(s, fit) PROVE TypeInv'
  <2>1. CacheOK(mc') /\ s \in Scans /\ fit \in Nat
    BY <1>2, <1>5, ScanAssumption DEF Scans
  <2>2. PICK upto \in 0..Count[Dir(s)] : cursor' = cursor /\ Give(s, Due(s, upto), fit)
    BY <1>5, <2>1, AllStep
  <2> DEFINE due == Due(s, upto)
  <2>3. due \in Seq(0..Count[Dir(s)])
    BY <2>1, DueIs
  <2> HIDE DEF due
  <2>4. PICK m \in 0..Len(due), given \in Seq(0..Count[Dir(s)]) :
           /\ Len(given) = m /\ (\A i \in 1..m : given[i] = due[i])
           /\ got' = [got EXCEPT ![s] = @ \o given]
           /\ \/ m > 0 /\ place' = [place EXCEPT ![s] = GivenKey(s, given[m])] /\ ended' = ended
              \/ m = 0 /\ due # <<>> /\ UNCHANGED <<place, ended>>
              \/ m = 0 /\ due = <<>> /\ place' = [place EXCEPT ![s] = 0] /\ ended' = ended \cup {s}
    BY <2>1, <2>2, <2>3, GiveIs DEF due
  <2>5. got' = [got EXCEPT ![s] = got[s] \o given] /\ got[s] \o given \in Seq(0..Count[Dir(s)])
    BY <1>0, <2>1, <2>4
  <2>6. cursor' \in [Locks -> CursorRecord] /\ ended' \subseteq Scans
    BY <2>1, <2>2, <2>4 DEF TypeInv
  <2>7. \E k \in Nat : place' = [place EXCEPT ![s] = k]
    <3>1. CASE m > 0
      <4>1. m \in 1..m /\ m = Len(given)
        BY <2>4, <3>1
      <4>2. given[m] \in 0..Count[Dir(s)]
        BY <4>1, ElementOfSeq
      <4>3. GivenKey(s, given[m]) \in Nat
        BY <2>1, <4>2, ScanFacts, SMTT(30) DEF GivenKey
      <4> QED BY <2>4, <3>1, <4>3
    <3>2. CASE m = 0
      BY <1>0, <2>1, <2>4, <3>2
    <3> QED BY <3>1, <3>2
  <2> QED BY <2>1, <2>5, <2>6, <2>7, TypesKept
<1>6. ASSUME Next, NEW s \in AllScans, ExamineAllEnd(s) PROVE TypeInv'
  <2>1. s \in Scans /\ CacheOK(mc') /\ cursor' \in [Locks -> CursorRecord] /\ ended' \subseteq Scans
    BY <1>2, <1>6 DEF Scans, ExamineAllEnd, TypeInv
  <2>2. got' = [got EXCEPT ![s] = <<>>] /\ place' = [place EXCEPT ![s] = 0]
    BY <1>6 DEF ExamineAllEnd
  <2> QED BY <1>0, <2>1, <2>2, TypesKept
<1>7. ASSUME Next, NEW d \in Dirs, Lookup(d) PROVE TypeInv'
  <2>1. CacheOK(mc') /\ UNCHANGED <<cursor, place, got, ended>>
    BY <1>2, <1>7 DEF Lookup
  <2> QED BY <2>1 DEF TypeInv, Dir
<1> QED BY <1>1, <1>3, <1>4, <1>5, <1>6, <1>7, Zenon DEF Next

LEMMA TypesInit ==
  ASSUME Init PROVE TypeInv
<1>1. CacheOK(mc)
  BY NewCacheOK DEF Init
<1>2. NoCursor \in CursorRecord
  BY DEF NoCursor, CursorRecord, Start, Cookie
<1>3. cursor \in [Locks -> CursorRecord]
  BY <1>2 DEF Init
<1>4. <<>> \in Seq(Nat) /\ \A s \in Scans : <<>> \in Seq(0..Count[Dir(s)])
  OBVIOUS
<1> QED BY <1>1, <1>3, <1>4 DEF Init, TypeInv

\* Type correctness of listings and of the cache: the positions, cookies and keys
\* that the handler, the cache and the backend pass to each other stay in range,
\* also when sectors cannot be read and when keys are shared.
THEOREM TypeCorrect == Spec => []TypeOK
<1>1. Init => TypeInv
  BY TypesInit
<1>2. TypeInv /\ [Next]_vars => TypeInv'
  BY TypesStep
<1>3. TypeInv => TypeOK
  <2> SUFFICES ASSUME TypeInv PROVE TypeOK
    OBVIOUS
  <2>1. mc \in CacheRecord
    BY DEF TypeInv, CacheOK, Sound
  <2> QED BY <2>1 DEF TypeInv, CacheRecord, CursorRecord, TypeOK
<1> QED BY <1>1, <1>2, <1>3, PTL DEF Spec

-----------------------------------------------------------------------------
(* Where the scans and the cursors stand.                                  *)

\* The length of a listing and its entries.
Total(d) == IF d \in CddaRoots THEN Count[d] + 1 ELSE Count[d]
Item(d, i) == IF i <= Count[d] THEN i ELSE 0

\* A sequence that is the first g entries of a listing.
Lists(d, t, g) ==
  /\ t \in Seq(0..Count[d]) /\ Len(t) = g /\ g <= Total(d)
  /\ \A i \in 1..g : t[i] = Item(d, i)

\* The key a client holds that was given g entries.
PlaceAt(d, g, none) ==
  IF g = 0 THEN none ELSE IF g <= Count[d] THEN Key[d][g] ELSE CddaKey

\* A cursor that stands behind the first k entries.
CursorIs(c, d, k) ==
  /\ c.prev = PlaceAt(d, k, DirKey[d]) /\ (c.cdda <=> k > Count[d])
  /\ k <= Count[d] => c.resume.at = k \/ (k = Count[d] /\ c.resume.at = Count[d] + 1)

\* Where an ExNext scan is, and an ExAll scan.
NextAt(s) ==
  /\ Lists(Dir(s), got[s], Len(got[s]))
  /\ \/ place[s] = PlaceAt(Dir(s), Len(got[s]), DirKey[Dir(s)])
     \/ place[s] = 0 /\ got[s] = <<>> /\ s \notin ended
  /\ s \in ended => Len(got[s]) = Total(Dir(s))
AllAt(s) ==
  /\ Lists(Dir(s), got[s], Len(got[s]))
  /\ s \notin ended => place[s] = PlaceAt(Dir(s), Len(got[s]), 0)
  /\ s \in ended => Len(got[s]) = Total(Dir(s)) /\ place[s] = 0

\* The cursor of a lock stands where every scan stands that it would be used for.
CursorAt(l) ==
  cursor[l].valid =>
    \E k \in 0..Total(DirOf[l]) :
      /\ CursorIs(cursor[l], DirOf[l], k)
      /\ \A s \in NextScans :
           LockOf[s] = l /\ place[s] = cursor[l].prev => Len(got[s]) = k

\* A scan whose keys do not tell its entries apart has the cursor for itself.
Apart(s) == IsInjective(Key[Dir(s)])
OwnCursor(s) == place[s] # 0 /\ ~Apart(s) => CursorMatches(s)

ListingInv ==
  /\ \A s \in NextScans : NextAt(s) /\ OwnCursor(s)
  /\ \A s \in AllScans : AllAt(s)
  /\ \A l \in Locks : CursorAt(l)

\* What the clients rely on: no sector is bad, the keys of a directory, of its
\* entries and of the CDDA directory differ, and so do the keys of two entries,
\* but for an ExNext scan that has its lock for itself.
KeysTell ==
  /\ "io" \notin Failures
  /\ \A s \in Scans : /\ CddaKey # DirKey[Dir(s)]
                      /\ \A i \in 1..Count[Dir(s)] : Key[Dir(s)][i] \notin {DirKey[Dir(s)], CddaKey}
  /\ \A s \in NextScans : Apart(s) \/ \A t \in NextScans : LockOf[t] = LockOf[s] => t = s
  /\ \A s \in AllScans : Apart(s)

-----------------------------------------------------------------------------
(* Listings.                                                               *)

\* One more entry.
LEMMA ListsMore ==
  ASSUME NEW d \in Dirs, NEW t, NEW g \in Nat, Lists(d, t, g), g < Total(d), NEW e, e = Item(d, g + 1)
  PROVE  Lists(d, Append(t, e), g + 1) /\ Len(Append(t, e)) = g + 1
<1>1. Count[d] \in Nat /\ Total(d) \in Nat /\ Total(d) <= Count[d] + 1
  BY MetaAssumption DEF Total
<1>2. e \in 0..Count[d]
  BY <1>1 DEF Item
<1>3. t \in Seq(0..Count[d]) /\ Len(t) = g /\ \A i \in 1..g : t[i] = Item(d, i)
  BY DEF Lists
<1>4. /\ Append(t, e) \in Seq(0..Count[d]) /\ Len(Append(t, e)) = g + 1
      /\ (\A i \in 1..g : Append(t, e)[i] = t[i]) /\ Append(t, e)[g + 1] = e
  BY <1>2, <1>3, AppendProperties
<1>5. \A i \in 1..(g + 1) : i \in 1..g \/ i = g + 1
  OBVIOUS
<1>6. \A i \in 1..(g + 1) : Append(t, e)[i] = Item(d, i)
  BY <1>3, <1>4, <1>5
<1>7. g + 1 <= Total(d)
  BY <1>1
<1> QED BY <1>4, <1>6, <1>7 DEF Lists

\* Several more.
LEMMA ListsJoin ==
  ASSUME NEW d \in Dirs, NEW t, NEW g \in Nat, Lists(d, t, g), NEW u \in Seq(0..Count[d]),
         NEW m \in Nat, Len(u) = m, g + m <= Total(d), \A i \in 1..m : u[i] = Item(d, g + i)
  PROVE  Lists(d, t \o u, g + m) /\ Len(t \o u) = g + m
<1>1. t \in Seq(0..Count[d]) /\ Len(t) = g /\ \A i \in 1..g : t[i] = Item(d, i)
  BY DEF Lists
<1>2. /\ t \o u \in Seq(0..Count[d]) /\ Len(t \o u) = Len(t) + Len(u)
      /\ \A i \in 1..(Len(t) + Len(u)) : (t \o u)[i] = IF i <= Len(t) THEN t[i] ELSE u[i - Len(t)]
  BY <1>1, ConcatProperties, ZenonT(40)
<1>3. ASSUME NEW i \in 1..(g + m) PROVE (t \o u)[i] = Item(d, i)
  <2>1. CASE i <= g
    <3>1. i \in 1..g
      BY <2>1
    <3> QED BY <1>1, <1>2, <2>1, <3>1
  <2>2. CASE ~(i <= g)
    <3>1. i - g \in 1..m /\ g + (i - g) = i
      BY <2>2
    <3>2. (t \o u)[i] = u[i - g]
      BY <1>1, <1>2, <2>2
    <3> QED BY <3>1, <3>2
  <2> QED BY <2>1, <2>2
<1> QED BY <1>1, <1>2, <1>3 DEF Lists

\* The listing itself.
LEMMA ListingIs ==
  ASSUME NEW d \in Dirs
  PROVE  Lists(d, Listing(d), Total(d)) /\ Total(d) \in Nat
<1> DEFINE C == Count[d]
           q == [i \in 1..C |-> i]
           none == <<>>
<1>1. C \in Nat /\ Total(d) \in Nat /\ C <= Total(d)
  BY MetaAssumption DEF Total
<1>2. q \in Seq(0..C) /\ Len(q) = C /\ \A i \in 1..C : q[i] = i
  <2>1. q \in [1..C -> 0..C] /\ DOMAIN q = 1..C
    OBVIOUS
  <2> QED BY <1>1, <2>1
<1> HIDE DEF q
<1>3. Lists(d, q, C)
  BY <1>1, <1>2 DEF Lists, Item
<1>4. CASE d \in CddaRoots
  <2>1. Listing(d) = q \o <<0>> /\ Total(d) = C + 1
    BY <1>4 DEF Listing, Total, q
  <2>2. <<0>> \in Seq(0..C) /\ Len(<<0>>) = 1 /\ <<0>>[1] = 0
    BY <1>1
  <2>3. \A i \in 1..1 : i = 1
    OBVIOUS
  <2>4. Item(d, C + 1) = 0
    BY <1>1 DEF Item
  <2>5. \A i \in 1..1 : <<0>>[i] = Item(d, C + i)
    BY <2>2, <2>3, <2>4
  <2>6. C + 1 <= Total(d)
    BY <1>1, <2>1
  <2>7. Lists(d, q \o <<0>>, C + 1)
    BY <1>1, <1>3, <2>2, <2>5, <2>6, ListsJoin
  <2> QED BY <1>1, <2>1, <2>7
<1>5. CASE d \notin CddaRoots
  <2>1. Listing(d) = q \o <<>> /\ Total(d) = C
    BY <1>5 DEF Listing, Total, q
  <2>2. q \o <<>> = q
    BY <1>2, ConcatEmptySeq
  <2> QED BY <1>1, <1>3, <2>1, <2>2
<1> QED BY <1>4, <1>5

\* What is listed so far is a prefix of the listing, and all of it in the end.
LEMMA ListsPrefix ==
  ASSUME NEW d \in Dirs, NEW t, NEW g \in Nat, Lists(d, t, g)
  PROVE  IsPrefix(t, Listing(d)) /\ (g = Total(d) => t = Listing(d))
<1> DEFINE w == Listing(d)
           S == 0..Count[d]
<1>1. /\ t \in Seq(S) /\ Len(t) = g /\ g <= Total(d) /\ \A i \in 1..g : t[i] = Item(d, i)
  BY DEF Lists
<1>2. /\ w \in Seq(S) /\ Len(w) = Total(d) /\ Total(d) \in Nat
      /\ \A i \in 1..Total(d) : w[i] = Item(d, i)
  BY ListingIs DEF Lists
<1> HIDE DEF w, S
<1>3. \A i \in 1..g : i \in 1..Total(d)
  BY <1>1, <1>2
<1>4. SubSeq(t, 1, g) = t
  BY <1>1, SubSeqFull
<1>5. (\A i \in 1..g : w[i] \in S) /\ 1 \in Int /\ g \in Int
  BY <1>2, <1>3, ElementOfSeq
<1>6. /\ SubSeq(w, 1, g) \in Seq(S) /\ Len(SubSeq(w, 1, g)) = (IF 1 <= g THEN g - 1 + 1 ELSE 0)
      /\ \A i \in 1..(g - 1 + 1) : SubSeq(w, 1, g)[i] = w[1 + i - 1]
  BY <1>5, SubSeqProperties
<1>7. Len(SubSeq(w, 1, g)) = g /\ \A i \in 1..g : SubSeq(w, 1, g)[i] = w[i]
  BY <1>6
<1>8. SubSeq(w, 1, g) = t
  BY <1>1, <1>2, <1>3, <1>6, <1>7, SeqEqual
<1>9. IsPrefix(t, w)
  BY <1>1, <1>2, <1>4, <1>8 DEF IsPrefix
<1>10. ASSUME g = Total(d) PROVE t = w
  BY <1>1, <1>2, <1>10, SeqEqual
<1> QED BY <1>9, <1>10 DEF w

\* What the places of a directory's listing have in common and what not.
LEMMA PlacesDiffer ==
  ASSUME KeysTell, NEW s \in Scans, NEW g \in 0..Total(Dir(s))
  PROVE  LET d == Dir(s)
             P(k) == PlaceAt(d, k, DirKey[d])
         IN  /\ P(g) \in Nat \ {0} /\ (P(g) = DirKey[d] <=> g = 0) /\ (P(g) = CddaKey <=> g > Count[d])
             /\ Apart(s) => \A k \in 0..Total(d) : P(k) = P(g) => k = g
<1> DEFINE d == Dir(s)
           C == Count[d]
<1>1. /\ C \in Nat /\ (\A i \in 1..C : Key[d][i] \in Nat \ {0})
      /\ DirKey[d] \in Nat \ {0} /\ CddaKey \in Nat \ {0} /\ d \in Dirs
  BY ScanFacts
<1>2. CddaKey # DirKey[d] /\ \A i \in 1..C : Key[d][i] # DirKey[d] /\ Key[d][i] # CddaKey
  BY DEF KeysTell
<1>3. Total(d) \in Nat /\ Total(d) <= C + 1
  BY <1>1 DEF Total
<1>4. Apart(s) => \A a, b \in 1..C : Key[d][a] = Key[d][b] => a = b
  <2>1. DOMAIN Key[d] = 1..C
    BY <1>1, ScanAssumption
  <2> QED BY <2>1 DEF Apart, IsInjective
<1> HIDE DEF d, C
<1>5. \A k \in 0..Total(d) :
        /\ k = 0 \/ k \in 1..C \/ (k = C + 1 /\ k # 0)
        /\ (k = 0 => PlaceAt(d, k, DirKey[d]) = DirKey[d])
        /\ (k \in 1..C => PlaceAt(d, k, DirKey[d]) = Key[d][k])
        /\ (k = C + 1 => PlaceAt(d, k, DirKey[d]) = CddaKey)
        /\ (k > C <=> k = C + 1)
  BY <1>1, <1>3 DEF PlaceAt, C
<1>6. g \in 0..Total(d) /\ C \in Nat
  BY <1>1 DEF d
<1>7. /\ PlaceAt(d, g, DirKey[d]) \in Nat \ {0} /\ (PlaceAt(d, g, DirKey[d]) = DirKey[d] <=> g = 0)
      /\ (PlaceAt(d, g, DirKey[d]) = CddaKey <=> g > C)
  <2>1. CASE g = 0
    BY <1>1, <1>2, <1>5, <1>6, <2>1
  <2>2. CASE g \in 1..C
    BY <1>1, <1>2, <1>5, <1>6, <2>2
  <2>3. CASE g = C + 1
    BY <1>1, <1>2, <1>5, <1>6, <2>3
  <2> QED BY <1>5, <1>6, <2>1, <2>2, <2>3
<1>8. ASSUME Apart(s), NEW k \in 0..Total(d), PlaceAt(d, k, DirKey[d]) = PlaceAt(d, g, DirKey[d])
      PROVE  k = g
  <2>1. CASE k = 0
    BY <1>1, <1>2, <1>5, <1>7, <1>8, <2>1
  <2>2. CASE k \in 1..C
    <3>1. PlaceAt(d, k, DirKey[d]) = Key[d][k] /\ Key[d][k] # DirKey[d] /\ Key[d][k] # CddaKey
      BY <1>2, <1>5, <2>2
    <3>2. g \in 1..C
      BY <1>5, <1>6, <1>7, <1>8, <3>1
    <3> QED BY <1>4, <1>5, <1>6, <1>8, <2>2, <3>1, <3>2
  <2>3. CASE k = C + 1
    <3>1. g > C
      BY <1>5, <1>7, <1>8, <2>3
    <3> QED BY <1>5, <1>6, <2>3, <3>1
  <2> QED BY <1>5, <2>1, <2>2, <2>3
<1> QED BY <1>7, <1>8 DEF d, C

-----------------------------------------------------------------------------
(* The invariant of the listings.                                          *)

\* Two ExNext scans on one lock: the keys tell the entries of both apart.
LEMMA SharedLock ==
  ASSUME KeysTell, NEW s \in NextScans, NEW r \in NextScans, r # s, LockOf[r] = LockOf[s]
  PROVE  Apart(r) /\ Dir(r) = Dir(s)
BY DEF KeysTell, Dir

\* A scan that moves to the k-th entry and leaves a cursor there.
LEMMA NextFrame ==
  ASSUME KeysTell, TypeInv, ListingInv, NEW s \in NextScans, NEW k \in 0..Total(Dir(s)), NEW t, NEW c,
         got' = [got EXCEPT ![s] = t], place' = [place EXCEPT ![s] = PlaceAt(Dir(s), k, DirKey[Dir(s)])],
         cursor' = [cursor EXCEPT ![LockOf[s]] = c], c.valid = TRUE,
         CursorIs(c, Dir(s), k), Lists(Dir(s), t, k), Len(t) = k,
         \/ ended' = ended \ {s}
         \/ ended' = ended \cup {s} /\ k = Total(Dir(s))
  PROVE  ListingInv'
<1> DEFINE d == Dir(s)
           l == LockOf[s]
           key == PlaceAt(Dir(s), k, DirKey[Dir(s)])
<1>1. s \in Scans /\ l \in Locks /\ d = DirOf[l] /\ s \notin AllScans
  BY ScanFacts, ScanAssumption DEF Scans, Dir
<1>2. key \in Nat \ {0} /\ c.prev = key
  BY <1>1, PlacesDiffer DEF CursorIs
<1>3. /\ got'[s] = t /\ place'[s] = key /\ cursor'[l] = c /\ (s \in ended' => k = Total(d))
      /\ \A r \in Scans : r # s => got'[r] = got[r] /\ place'[r] = place[r] /\ (r \in ended' <=> r \in ended)
      /\ \A x \in Locks : x # l => cursor'[x] = cursor[x]
  BY <1>1 DEF TypeInv
<1> HIDE DEF key, l, d
<1>4. NextAt(s)'
  BY <1>3 DEF NextAt, d, key, Dir
<1>5. OwnCursor(s)'
  BY <1>2, <1>3 DEF OwnCursor, CursorMatches, l
<1>6. ASSUME NEW r \in NextScans, r # s PROVE NextAt(r)' /\ OwnCursor(r)'
  <2>1. r \in Scans /\ LockOf[r] \in Locks /\ NextAt(r) /\ OwnCursor(r)
    BY <1>6, ScanFacts DEF Scans, ListingInv
  <2>2. NextAt(r)'
    BY <1>3, <1>6, <2>1 DEF NextAt, Dir
  <2>3. CASE LockOf[r] = LockOf[s]
    <3>1. Apart(r)
      BY <1>6, <2>3, SharedLock
    <3> QED BY <2>2, <3>1 DEF OwnCursor, Apart, Dir
  <2>4. CASE LockOf[r] # LockOf[s]
    <3>1. cursor'[LockOf[r]] = cursor[LockOf[r]] /\ place'[r] = place[r]
      BY <1>3, <1>6, <2>1, <2>4 DEF l
    <3> QED BY <2>1, <2>2, <3>1 DEF OwnCursor, CursorMatches, Apart, Dir
  <2> QED BY <2>3, <2>4
<1>7. ASSUME NEW r \in AllScans PROVE AllAt(r)'
  <2>1. r \in Scans /\ r # s /\ AllAt(r)
    BY <1>1 DEF Scans, ListingInv
  <2> QED BY <1>3, <2>1 DEF AllAt, Dir
<1>8. ASSUME NEW r \in NextScans, LockOf[r] = LockOf[s], place'[r] = key PROVE Len(got'[r]) = k
  <2>1. CASE r = s
    BY <1>3, <2>1
  <2>2. CASE r # s
    <3>1. Apart(r) /\ Dir(r) = Dir(s) /\ r \in Scans
      BY <1>8, <2>2, SharedLock DEF Scans
    <3>2. NextAt(r) /\ got'[r] = got[r] /\ place'[r] = place[r] /\ got[r] \in Seq(0..Count[Dir(r)])
      BY <1>3, <2>2, <3>1 DEF ListingInv, TypeInv
    <3>3. Len(got[r]) \in Nat /\ Len(got[r]) <= Total(Dir(r)) /\ Total(Dir(r)) \in Nat
      BY <3>1, <3>2, ScanFacts, ListingIs DEF NextAt, Lists
    <3>4. place[r] = PlaceAt(Dir(r), Len(got[r]), DirKey[Dir(r)])
      BY <1>2, <1>8, <3>2 DEF NextAt
    <3>5. Len(got[r]) \in 0..Total(Dir(r)) /\ k \in 0..Total(Dir(r))
      BY <3>1, <3>3
    <3>6. Len(got[r]) = k
      <4>1. \A a \in 0..Total(Dir(r)) :
              PlaceAt(Dir(r), a, DirKey[Dir(r)]) = PlaceAt(Dir(r), k, DirKey[Dir(r)]) => a = k
        BY <3>1, <3>5, PlacesDiffer
      <4>2. place[r] = PlaceAt(Dir(r), k, DirKey[Dir(r)])
        BY <1>8, <3>1, <3>2 DEF key
      <4> QED BY <3>4, <3>5, <4>1, <4>2
    <3> QED BY <3>2, <3>6
  <2> QED BY <2>1, <2>2
<1>9. ASSUME NEW x \in Locks PROVE CursorAt(x)'
  <2>1. CASE x = l
    <3>1. k \in 0..Total(DirOf[x]) /\ CursorIs(cursor'[x], DirOf[x], k)
      BY <1>1, <1>3, <2>1 DEF d
    <3>2. \A r \in NextScans : LockOf[r] = x /\ place'[r] = cursor'[x].prev => Len(got'[r]) = k
      BY <1>2, <1>3, <1>8, <2>1 DEF l
    <3> QED BY <3>1, <3>2 DEF CursorAt
  <2>2. CASE x # l
    <3>1. CursorAt(x) /\ cursor'[x] = cursor[x]
      BY <1>3, <2>2 DEF ListingInv
    <3>2. \A r \in NextScans : LockOf[r] = x => got'[r] = got[r] /\ place'[r] = place[r]
      BY <1>3, <2>2 DEF l, Scans
    <3> QED BY <3>1, <3>2 DEF CursorAt
  <2> QED BY <2>1, <2>2
<1>10. \A r \in NextScans : NextAt(r)' /\ OwnCursor(r)'
  BY <1>4, <1>5, <1>6
<1> QED BY <1>7, <1>9, <1>10 DEF ListingInv

\* Where a scan stands, and its cursor if it matches.
LEMMA NextStands ==
  ASSUME KeysTell, TypeInv, ListingInv, NEW s \in NextScans, place[s] # 0
  PROVE  LET d == Dir(s)
             g == Len(got[s])
         IN  /\ g \in 0..Total(d) /\ Total(d) \in Nat /\ Lists(d, got[s], g)
             /\ place[s] = PlaceAt(d, g, DirKey[d])
             /\ CursorMatches(s) => CursorIs(cursor[LockOf[s]], d, g)
             /\ ~CursorMatches(s) => Apart(s)
<1>1. s \in Scans /\ LockOf[s] \in Locks /\ Dir(s) = DirOf[LockOf[s]] /\ Dir(s) \in Dirs
  BY ScanFacts DEF Scans, Dir
<1>2. NextAt(s) /\ OwnCursor(s) /\ CursorAt(LockOf[s]) /\ got[s] \in Seq(0..Count[Dir(s)])
  BY <1>1 DEF ListingInv, TypeInv
<1>3. Len(got[s]) \in Nat /\ Len(got[s]) <= Total(Dir(s)) /\ Total(Dir(s)) \in Nat
  BY <1>1, <1>2, ListingIs DEF NextAt, Lists
<1>4. CursorMatches(s) => CursorIs(cursor[LockOf[s]], Dir(s), Len(got[s]))
  BY <1>1, <1>2 DEF CursorAt, CursorMatches
<1> QED BY <1>2, <1>3, <1>4 DEF NextAt, OwnCursor

\* The end is announced after the CDDA directory only when all was given.
LEMMA WasLastIs ==
  ASSUME KeysTell, TypeInv, ListingInv, NEW s \in NextScans, place[s] # 0
  PROVE  CddaWasLast(s) <=> Len(got[s]) > Count[Dir(s)]
<1> DEFINE d == Dir(s)
           g == Len(got[s])
           C == Count[Dir(s)]
<1>1. s \in Scans /\ C \in Nat
  BY ScanFacts DEF Scans
<1>2. /\ g \in 0..Total(d) /\ place[s] = PlaceAt(d, g, DirKey[d]) /\ Total(d) \in Nat
      /\ CursorMatches(s) => CursorIs(cursor[LockOf[s]], d, g)
  BY NextStands
<1>3. (place[s] = DirKey[d] <=> g = 0) /\ (place[s] = CddaKey <=> g > C)
  BY <1>1, <1>2, PlacesDiffer
<1> HIDE DEF g, C, d
<1>4. g > C => CddaRoots # {} /\ g # 0
  BY <1>1, <1>2 DEF Total, C, d
<1>5. CASE CursorMatches(s)
  <2>1. cursor[LockOf[s]].cdda <=> g > C
    BY <1>2, <1>5 DEF CursorIs, C, d
  <2> QED BY <1>5, <2>1 DEF CddaWasLast, g, C
<1>6. CASE ~CursorMatches(s)
  BY <1>3, <1>4, <1>6 DEF CddaWasLast, g, C, d
<1> QED BY <1>5, <1>6

\* ExNext finds the entry behind the last one it gave.
LEMMA NextFinds ==
  ASSUME KeysTell, TypeInv, ListingInv, NEW s \in NextScans, place[s] # 0, ~CddaWasLast(s)
  PROVE  LET d == Dir(s)
             g == Len(got[s])
         IN  /\ g \in 0..Count[d]
             /\ ExnextHit(d, place[s], FirstOf(s), ResumeOf(s).at, Count[d])
                  = IF g + 1 <= Count[d] THEN g + 1 ELSE 0
<1> DEFINE d == Dir(s)
           g == Len(got[s])
           C == Count[Dir(s)]
           hit == ExnextHit(d, place[s], FirstOf(s), ResumeOf(s).at, C)
<1>1. s \in Scans /\ C \in Nat /\ LockOf[s] \in Locks /\ d \in Dirs
  BY ScanFacts DEF Scans
<1>2. /\ g \in 0..Total(d) /\ place[s] = PlaceAt(d, g, DirKey[d]) /\ Total(d) \in Nat
      /\ CursorMatches(s) => CursorIs(cursor[LockOf[s]], d, g)
      /\ ~CursorMatches(s) => Apart(s)
  BY NextStands
<1>3. ~(g > C)
  BY WasLastIs
<1>4. g \in 0..C
  BY <1>1, <1>2, <1>3
<1>5. place[s] = DirKey[d] <=> g = 0
  BY <1>1, <1>2, PlacesDiffer
<1>6. CASE CursorMatches(s)
  <2> DEFINE at == cursor[LockOf[s]].resume.at
  <2>1. FirstOf(s) = TRUE /\ ResumeOf(s).at = at
    BY <1>6 DEF FirstOf, ResumeOf
  <2>2. at = g \/ (g = C /\ at = C + 1)
    BY <1>2, <1>4, <1>6 DEF CursorIs
  <2>3. at \in Nat
    BY <1>4, <2>2, <1>1
  <2> HIDE DEF at
  <2>4. hit = ExnextHit(d, place[s], TRUE, at, C)
    BY <2>1
  <2>5. ExnextHit(d, place[s], TRUE, at, C) = IF at + 1 <= C THEN at + 1 ELSE 0
    BY <1>1, <2>3, HitIs
  <2>6. hit = IF at + 1 <= C THEN at + 1 ELSE 0
    BY <2>4, <2>5
  <2> HIDE DEF hit, C, g
  <2>7. hit = IF g + 1 <= C THEN g + 1 ELSE 0
    BY <1>1, <1>4, <2>2, <2>3, <2>6
  <2> QED BY <1>4, <2>7 DEF hit, C, g
<1>7. CASE ~CursorMatches(s)
  <2>1. ResumeOf(s).at = 0
    BY <1>7 DEF ResumeOf, Start
  <2>2. CASE g = 0
    <3>1. FirstOf(s) = TRUE
      BY <1>5, <2>2 DEF FirstOf
    <3>2. hit = ExnextHit(d, place[s], TRUE, 0, C)
      BY <2>1, <3>1
    <3>3. ExnextHit(d, place[s], TRUE, 0, C) = IF 0 + 1 <= C THEN 0 + 1 ELSE 0
      BY <1>1, HitIs
    <3> QED BY <1>4, <2>2, <3>2, <3>3
  <2>3. CASE g # 0
    <3>1. FirstOf(s) = FALSE
      BY <1>5, <1>7, <2>3 DEF FirstOf
    <3>2. g \in 1..C /\ place[s] = Key[d][g] /\ DOMAIN Key[d] = 1..C
      BY <1>1, <1>2, <1>4, <2>3, ScanAssumption DEF PlaceAt
    <3>3. \A i \in 1..C : Key[d][i] = place[s] => i = g
      BY <1>2, <1>7, <3>2 DEF Apart, IsInjective
    <3>4. hit = ExnextHit(d, place[s], FALSE, 0, C)
      BY <2>1, <3>1
    <3>5. 0 + 1 = 1
      OBVIOUS
    <3> HIDE DEF g, C, d, hit
    <3>6. g \in (0 + 1)..C /\ ~FALSE /\ Key[d][g] = place[s]
          /\ \A i \in (0 + 1)..C : Key[d][i] = place[s] => i = g
      BY <3>2, <3>3, <3>5
    <3>7. ExnextHit(d, place[s], FALSE, 0, C) = IF g + 1 <= C THEN g + 1 ELSE 0
      BY <1>1, <3>6, HitIs
    <3> QED BY <1>4, <3>4, <3>7 DEF g, C, d, hit
  <2> QED BY <2>2, <2>3
<1> QED BY <1>6, <1>7

\* ACTION_EXAMINE_OBJECT.
LEMMA ExamineKeeps ==
  ASSUME KeysTell, TypeInv, ListingInv, NEW s \in NextScans, Examine(s)
  PROVE  ListingInv'
<1> DEFINE d == Dir(s)
           c == [valid |-> TRUE, prev |-> DirKey[d], resume |-> Start, cdda |-> FALSE]
<1>1. s \in Scans /\ d \in Dirs /\ Count[d] \in Nat /\ DirKey[d] \in Nat /\ Start \in Cookie
  BY ScanFacts DEF Scans, Start, Cookie
<1>2. /\ got' = [got EXCEPT ![s] = <<>>] /\ place' = [place EXCEPT ![s] = DirKey[d]]
      /\ CursorUpdate(s, DirKey[d], Start, FALSE) /\ ended' = ended \ {s}
  BY DEF Examine
<1>3. cursor' = [cursor EXCEPT ![LockOf[s]] = c]
  BY <1>1, <1>2, CursorKept
<1>4. 0 \in 0..Total(d) /\ Total(d) \in Nat /\ PlaceAt(d, 0, DirKey[d]) = DirKey[d]
  BY <1>1, ListingIs DEF PlaceAt
<1>5. Lists(d, <<>>, 0) /\ Len(<<>>) = 0
  BY <1>4 DEF Lists
<1>6. CursorIs(c, d, 0) /\ c.valid = TRUE
  BY <1>1, <1>4 DEF CursorIs, Start
<1> HIDE DEF c
<1> QED BY <1>2, <1>3, <1>4, <1>5, <1>6, NextFrame

\* ACTION_EXAMINE_NEXT.
LEMMA ExamineNextKeeps ==
  ASSUME KeysTell, TypeInv, ListingInv, NEW s \in NextScans, ExamineNext(s)
  PROVE  ListingInv'
<1> DEFINE d == Dir(s)
           g == Len(got[s])
           C == Count[Dir(s)]
<1>1. /\ s \in Scans /\ d \in Dirs /\ C \in Nat /\ CddaKey \in Nat
      /\ \A i \in 1..C : Key[d][i] \in Nat
  BY ScanFacts DEF Scans
<1>2. place[s] # 0 /\ place[s] \in Nat
  BY <1>1 DEF ExamineNext, TypeInv
<1>3. /\ g \in 0..Total(d) /\ Total(d) \in Nat /\ Lists(d, got[s], g)
      /\ place[s] = PlaceAt(d, g, DirKey[d])
  BY <1>2, NextStands
<1>4. (d \in CddaRoots => Total(d) = C + 1) /\ (d \notin CddaRoots => Total(d) = C)
  BY DEF Total
<1>5. CASE CddaWasLast(s)
  <2>1. ended' = ended \cup {s} /\ UNCHANGED <<cursor, place, got>>
    BY <1>5, Zenon DEF ExamineNext
  <2>2. g = Total(d)
    <3>1. g > C
      BY <1>2, <1>5, WasLastIs
    <3> QED BY <1>1, <1>3, <1>4, <3>1
  <2>3. s \notin AllScans
    BY ScanAssumption
  <2>4. ASSUME NEW r \in NextScans PROVE NextAt(r)' /\ OwnCursor(r)'
    <3>1. NextAt(r) /\ OwnCursor(r)
      BY DEF ListingInv
    <3>2. OwnCursor(r)'
      BY <2>1, <3>1 DEF OwnCursor, CursorMatches, Apart, Dir
    <3>3. CASE r = s
      BY <1>2, <2>1, <2>2, <3>1, <3>2, <3>3 DEF NextAt, Dir
    <3>4. CASE r # s
      BY <2>1, <3>1, <3>2, <3>4 DEF NextAt, Dir
    <3> QED BY <3>3, <3>4
  <2>5. ASSUME NEW r \in AllScans PROVE AllAt(r)'
    <3>1. AllAt(r) /\ r # s
      BY <2>3 DEF ListingInv
    <3> QED BY <2>1, <3>1 DEF AllAt, Dir
  <2>6. ASSUME NEW l \in Locks PROVE CursorAt(l)'
    <3>1. CursorAt(l)
      BY DEF ListingInv
    <3> QED BY <2>1, <3>1 DEF CursorAt
  <2> QED BY <2>4, <2>5, <2>6 DEF ListingInv
<1>6. CASE ~CddaWasLast(s)
  <2>1. PICK upto \in 0..C, next \in Cookie :
          LET hit == ExnextHit(d, place[s], FirstOf(s), ResumeOf(s).at, upto)
          IN  /\ "io" \notin Failures => upto = C
              /\ hit \in 0..C /\ (hit # 0 => next.at = hit)
              /\ hit = 0 /\ upto = C => next.at = C \/ next.at = C + 1
              /\ Answered(s, hit, next)
    BY <1>6, NextStep
  <2> DEFINE hit == ExnextHit(d, place[s], FirstOf(s), ResumeOf(s).at, C)
  <2>2. upto = C
    BY <2>1 DEF KeysTell
  <2>3. /\ hit \in 0..C /\ (hit # 0 => next.at = hit)
        /\ hit = 0 => next.at = C \/ next.at = C + 1
        /\ Answered(s, hit, next)
    BY <2>1, <2>2
  <2>4. g \in 0..C /\ hit = IF g + 1 <= C THEN g + 1 ELSE 0
    BY <1>2, <1>6, NextFinds
  <2> HIDE DEF hit
  <2>5. place[s] # CddaKey
    <3>1. ~(g > C)
      BY <1>1, <2>4
    <3> QED BY <1>1, <1>3, <3>1, PlacesDiffer
  <2>6. CASE hit # 0
    <3> DEFINE k == g + 1
               e == Key[d][k]
               c == [valid |-> TRUE, prev |-> e, resume |-> next, cdda |-> FALSE]
               t == Append(got[s], k)
    <3>1. k \in 1..C /\ hit = k /\ k \in 0..Total(d) /\ g < Total(d) /\ g \in Nat
      BY <1>1, <1>3, <1>4, <2>4, <2>6
    <3>2. Item(d, k) = k /\ PlaceAt(d, k, DirKey[d]) = e /\ e \in Nat
      BY <1>1, <3>1 DEF Item, PlaceAt
    <3>3. /\ got' = [got EXCEPT ![s] = t] /\ place' = [place EXCEPT ![s] = e]
          /\ CursorUpdate(s, e, next, FALSE) /\ ended' = ended \ {s}
      BY <2>3, <2>6, <3>1 DEF Answered
    <3>4. cursor' = [cursor EXCEPT ![LockOf[s]] = c]
      BY <1>1, <3>2, <3>3, CursorKept
    <3>5. Lists(d, t, k) /\ Len(t) = k
      <4> DEFINE x == k
      <4>1. x = Item(d, g + 1) /\ x = k
        BY <3>2
      <4> HIDE DEF x
      <4>2. Lists(d, Append(got[s], x), g + 1) /\ Len(Append(got[s], x)) = g + 1
        BY <1>1, <1>3, <3>1, <4>1, ListsMore
      <4> QED BY <4>1, <4>2
    <3>6. CursorIs(c, d, k) /\ c.valid = TRUE
      <4>1. next.at = k /\ ~(k > C)
        BY <1>1, <2>3, <2>6, <3>1
      <4> QED BY <3>2, <4>1 DEF CursorIs
    <3> HIDE DEF c, t, k, e
    <3>7. place' = [place EXCEPT ![s] = PlaceAt(d, k, DirKey[d])]
      BY <3>2, <3>3
    <3> QED BY <3>1, <3>3, <3>4, <3>5, <3>6, <3>7, NextFrame
  <2>7. CASE hit = 0 /\ d \in CddaRoots
    <3> DEFINE k == g + 1
               c == [valid |-> TRUE, prev |-> CddaKey, resume |-> next, cdda |-> TRUE]
               t == Append(got[s], 0)
    <3>1. g = C /\ k = C + 1 /\ k \in 0..Total(d) /\ g < Total(d) /\ g \in Nat /\ k > C /\ ~(k <= C) /\ k # 0
      BY <1>1, <1>3, <1>4, <2>4, <2>7
    <3>2. Item(d, k) = 0 /\ PlaceAt(d, k, DirKey[d]) = CddaKey
      BY <3>1 DEF Item, PlaceAt
    <3>3. /\ got' = [got EXCEPT ![s] = t] /\ place' = [place EXCEPT ![s] = CddaKey]
          /\ CursorUpdate(s, CddaKey, next, TRUE) /\ ended' = ended \ {s}
      BY <2>3, <2>5, <2>7 DEF Answered
    <3>4. cursor' = [cursor EXCEPT ![LockOf[s]] = c]
      BY <1>1, <3>3, CursorKept
    <3>5. Lists(d, t, k) /\ Len(t) = k
      BY <1>1, <1>3, <3>1, <3>2, ListsMore
    <3>6. CursorIs(c, d, k) /\ c.valid = TRUE
      BY <3>1, <3>2 DEF CursorIs
    <3> HIDE DEF c, t, k
    <3>7. place' = [place EXCEPT ![s] = PlaceAt(d, k, DirKey[d])]
      BY <3>2, <3>3
    <3> QED BY <3>1, <3>3, <3>4, <3>5, <3>6, <3>7, NextFrame
  <2>8. CASE hit = 0 /\ d \notin CddaRoots
    <3> DEFINE c == [valid |-> TRUE, prev |-> place[s], resume |-> next, cdda |-> FALSE]
    <3>1. g = C /\ g = Total(d) /\ g \in Nat /\ ~(g > C)
      BY <1>1, <1>3, <1>4, <2>4, <2>8
    <3>2. ended' = ended \cup {s} /\ CursorUpdate(s, place[s], next, FALSE) /\ UNCHANGED <<got, place>>
      BY <2>3, <2>5, <2>8 DEF Answered
    <3>3. cursor' = [cursor EXCEPT ![LockOf[s]] = c]
      BY <1>1, <1>2, <3>2, CursorKept
    <3>4. CursorIs(c, d, g) /\ c.valid = TRUE
      BY <1>3, <2>3, <2>8, <3>1 DEF CursorIs
    <3>5. got' = [got EXCEPT ![s] = got[s]] /\ place' = [place EXCEPT ![s] = place[s]]
      BY <1>1, <3>2 DEF TypeInv
    <3> HIDE DEF c
    <3>6. place' = [place EXCEPT ![s] = PlaceAt(d, g, DirKey[d])]
      BY <1>3, <3>5
    <3> QED BY <1>3, <3>1, <3>2, <3>3, <3>4, <3>5, <3>6, NextFrame
  <2> QED BY <2>6, <2>7, <2>8
<1> QED BY <1>5, <1>6

\* What ExAll has left to give is the rest of the listing.
LEMMA DueRest ==
  ASSUME KeysTell, TypeInv, ListingInv, NEW s \in AllScans, s \notin ended
  PROVE  LET d == Dir(s)
             g == Len(got[s])
             due == Due(s, Count[d])
         IN  /\ g \in 0..Total(d) /\ Total(d) \in Nat /\ Lists(d, got[s], g)
             /\ due \in Seq(0..Count[d]) /\ Len(due) = Total(d) - g
             /\ \A i \in 1..(Total(d) - g) : due[i] = Item(d, g + i)
<1> DEFINE d == Dir(s)
           g == Len(got[s])
           C == Count[Dir(s)]
           T == Total(Dir(s))
           due == Due(s, C)
           b == Behind(d, place[s], C)
           known == {i \in 1..C : Key[d][i] = place[s]}
<1>1. /\ s \in Scans /\ d \in Dirs /\ C \in Nat /\ CddaKey \in Nat \ {0} /\ DOMAIN Key[d] = 1..C
      /\ \A i \in 1..C : Key[d][i] \in Nat \ {0} /\ Key[d][i] # CddaKey
  BY ScanFacts, ScanAssumption DEF Scans, KeysTell
<1>2. /\ Lists(d, got[s], g) /\ place[s] = PlaceAt(d, g, 0) /\ got[s] \in Seq(0..C)
      /\ \A i, j \in 1..C : Key[d][i] = Key[d][j] => i = j
  BY <1>1 DEF ListingInv, AllAt, TypeInv, KeysTell, Apart, IsInjective
<1>3. T \in Nat /\ g \in 0..T /\ g <= C + 1 /\ (T = IF d \in CddaRoots THEN C + 1 ELSE C)
  <2>1. T \in Nat /\ g \in Nat /\ g <= T
    BY <1>1, <1>2, ListingIs DEF Lists
  <2>2. T = IF d \in CddaRoots THEN C + 1 ELSE C
    BY DEF Total
  <2> HIDE DEF T, g, C
  <2> QED BY <1>1, <2>1, <2>2
<1>4. /\ b \in 0..C /\ due \in Seq(0..C)
      /\ Len(due) = (C - b) + (IF CddaFollows(s, C) THEN 1 ELSE 0)
      /\ \A i \in 1..(C - b) : due[i] = b + i
      /\ CddaFollows(s, C) => due[(C - b) + 1] = 0
  <2>1. C \in 0..C
    BY <1>1
  <2> QED BY <1>1, <2>1, DueIs
<1>5. known \in SUBSET Nat
  OBVIOUS
<1>6. b = IF place[s] = 0 THEN 0 ELSE IF known = {} THEN C ELSE Min(known)
  BY DEF Behind
<1>7. CddaFollows(s, C) <=> /\ d \in CddaRoots /\ place[s] # CddaKey
                            /\ place[s] # 0 => \E i \in 1..C : Key[d][i] = place[s]
  BY DEF CddaFollows
<1> HIDE DEF d, g, C, T, due, b
<1>8. b = (IF g <= C THEN g ELSE C) /\ (CddaFollows(s, C) <=> d \in CddaRoots /\ g <= C)
  <2>1. CASE g = 0
    <3>1. place[s] = 0 /\ g <= C
      BY <1>1, <1>2, <2>1 DEF PlaceAt
    <3> HIDE DEF known
    <3> QED BY <1>1, <1>6, <1>7, <2>1, <3>1
  <2>2. CASE g # 0 /\ g <= C
    <3>1. g \in 1..C /\ place[s] = Key[d][g] /\ place[s] # 0 /\ place[s] # CddaKey
      BY <1>1, <1>2, <1>3, <2>2 DEF PlaceAt, C, d
    <3>2. known = {g}
      BY <1>2, <3>1
    <3>3. Min(known) = g
      BY <1>5, <3>2, MinIs
    <3> HIDE DEF known
    <3>4. known # {}
      BY <3>2
    <3>5. b = g
      BY <1>6, <3>1, <3>3, <3>4
    <3>6. CddaFollows(s, C) <=> d \in CddaRoots
      BY <1>7, <3>1
    <3> QED BY <2>2, <3>5, <3>6
  <2>3. CASE ~(g <= C)
    <3>1. place[s] = CddaKey /\ g # 0
      BY <1>1, <1>2, <1>3, <2>3 DEF PlaceAt, C, d
    <3>2. known = {} /\ place[s] # 0
      BY <1>1, <3>1
    <3> HIDE DEF known
    <3> QED BY <1>6, <1>7, <2>3, <3>1, <3>2
  <2> QED BY <2>1, <2>2, <2>3
<1>9. Len(due) = T - g
  BY <1>1, <1>3, <1>4, <1>8
<1>10. ASSUME NEW i \in 1..(T - g) PROVE due[i] = Item(d, g + i)
  <2>1. CASE g + i <= C
    <3>1. i \in 1..(C - b) /\ b + i = g + i
      BY <1>1, <1>3, <1>8, <2>1
    <3> QED BY <1>4, <2>1, <3>1 DEF Item, C, d
  <2>2. CASE ~(g + i <= C)
    <3>1. CddaFollows(s, C) /\ i = (C - b) + 1
      BY <1>1, <1>3, <1>8, <2>2
    <3> QED BY <1>4, <2>2, <3>1 DEF Item, C, d
  <2> QED BY <2>1, <2>2
<1> QED BY <1>2, <1>3, <1>4, <1>9, <1>10 DEF d, g, C, T, due

\* Only one ExAll scan moves.
LEMMA AllFrame ==
  ASSUME KeysTell, TypeInv, ListingInv, NEW s \in AllScans, NEW t, NEW p,
         got' = [got EXCEPT ![s] = t], place' = [place EXCEPT ![s] = p], cursor' = cursor,
         \A r \in Scans : r # s => (r \in ended' <=> r \in ended), AllAt(s)'
  PROVE  ListingInv'
<1>1. s \in Scans /\ s \notin NextScans
  BY ScanAssumption DEF Scans
<1>2. \A r \in Scans : r # s => got'[r] = got[r] /\ place'[r] = place[r] /\ (r \in ended' <=> r \in ended)
  BY DEF TypeInv
<1>3. \A r \in NextScans : got'[r] = got[r] /\ place'[r] = place[r] /\ (r \in ended' <=> r \in ended)
  BY <1>1, <1>2 DEF Scans
<1>4. ASSUME NEW r \in NextScans PROVE NextAt(r)' /\ OwnCursor(r)'
  <2>1. NextAt(r) /\ OwnCursor(r)
    BY DEF ListingInv
  <2> QED BY <1>3, <2>1 DEF NextAt, OwnCursor, CursorMatches, Apart, Dir
<1>5. ASSUME NEW r \in AllScans PROVE AllAt(r)'
  <2>1. AllAt(r) /\ r \in Scans
    BY DEF ListingInv, Scans
  <2>2. CASE r # s
    BY <1>2, <2>1, <2>2 DEF AllAt, Dir
  <2> QED BY <2>2
<1>6. ASSUME NEW l \in Locks PROVE CursorAt(l)'
  <2>1. CursorAt(l)
    BY DEF ListingInv
  <2> QED BY <1>3, <2>1 DEF CursorAt
<1> QED BY <1>4, <1>5, <1>6 DEF ListingInv

\* ACTION_EXAMINE_ALL.
LEMMA ExamineAllKeeps ==
  ASSUME KeysTell, TypeInv, ListingInv, NEW s \in AllScans, NEW fit \in Nat, ExamineAll(s, fit)
  PROVE  ListingInv'
<1> DEFINE d == Dir(s)
           g == Len(got[s])
           C == Count[Dir(s)]
           T == Total(Dir(s))
           due == Due(s, C)
<1>1. s \in Scans /\ d \in Dirs /\ C \in Nat
  BY ScanFacts DEF Scans
<1>2. s \notin ended /\ cursor' = cursor /\ Give(s, due, fit)
  <2>1. PICK upto \in 0..C : ("io" \notin Failures => upto = C) /\ Give(s, Due(s, upto), fit)
    BY AllStep
  <2>2. upto = C
    BY <2>1 DEF KeysTell
  <2> QED BY <2>1, <2>2, AllStep
<1>3. /\ g \in 0..T /\ T \in Nat /\ Lists(d, got[s], g)
      /\ due \in Seq(0..C) /\ Len(due) = T - g
      /\ \A i \in 1..(T - g) : due[i] = Item(d, g + i)
  BY <1>2, DueRest
<1> HIDE DEF due
<1>4. PICK m \in 0..Len(due), given \in Seq(0..C) :
        /\ Len(given) = m /\ (\A i \in 1..m : given[i] = due[i])
        /\ got' = [got EXCEPT ![s] = @ \o given]
        /\ \/ m > 0 /\ place' = [place EXCEPT ![s] = GivenKey(s, given[m])] /\ ended' = ended
           \/ m = 0 /\ due # <<>> /\ UNCHANGED <<place, ended>>
           \/ m = 0 /\ due = <<>> /\ place' = [place EXCEPT ![s] = 0] /\ ended' = ended \cup {s}
  BY <1>1, <1>2, <1>3, GiveIs
<1> DEFINE t == got[s] \o given
<1>5. got' = [got EXCEPT ![s] = t] /\ got'[s] = t
  BY <1>1, <1>4 DEF TypeInv
<1>6. m \in Nat /\ m <= T - g /\ g + m <= T /\ g \in Nat
  BY <1>3, <1>4
<1>7. \A i \in 1..m : given[i] = Item(d, g + i)
  <2> SUFFICES ASSUME NEW i \in 1..m PROVE given[i] = Item(d, g + i)
    OBVIOUS
  <2>1. i \in 1..(T - g)
    BY <1>3, <1>6
  <2> QED BY <1>3, <1>4, <2>1
<1>8. Lists(d, t, g + m) /\ Len(t) = g + m
  <2>1. /\ d \in Dirs /\ g \in Nat /\ m \in Nat /\ Lists(d, got[s], g) /\ given \in Seq(0..Count[d])
        /\ Len(given) = m /\ g + m <= Total(d)
    BY <1>1, <1>3, <1>4, <1>6
  <2>2. \A i \in 1..m : given[i] = Item(d, g + i)
    BY <1>7
  <2> DEFINE x == got[s]
  <2>3. Lists(d, x, g)
    BY <2>1
  <2> HIDE DEF d, g, x
  <2>4. Lists(d, x \o given, g + m) /\ Len(x \o given) = g + m
    BY <2>1, <2>2, <2>3, ListsJoin
  <2> QED BY <2>4 DEF x
<1>9. \A r \in Scans : r # s => (r \in ended' <=> r \in ended)
  BY <1>4
<1> HIDE DEF t
<1>10. CASE m > 0
  <2>1. /\ place' = [place EXCEPT ![s] = GivenKey(s, given[m])] /\ ended' = ended
        /\ place'[s] = GivenKey(s, given[m])
    BY <1>1, <1>4, <1>10 DEF TypeInv
  <2>2. given[m] = Item(d, g + m) /\ g + m # 0
    BY <1>6, <1>7, <1>10
  <2>3. GivenKey(s, given[m]) = PlaceAt(d, g + m, 0)
    <3>1. CASE g + m <= C
      BY <1>6, <2>2, <3>1 DEF GivenKey, PlaceAt, Item
    <3>2. CASE ~(g + m <= C)
      BY <2>2, <3>2 DEF GivenKey, PlaceAt, Item
    <3> QED BY <3>1, <3>2
  <2>4. AllAt(s)'
    BY <1>2, <1>5, <1>8, <2>1, <2>3 DEF AllAt, Dir
  <2> QED BY <1>2, <1>5, <1>9, <2>1, <2>4, AllFrame
<1>11. CASE m = 0 /\ due # <<>>
  <2>1. UNCHANGED <<place, ended>> /\ place' = [place EXCEPT ![s] = place[s]] /\ g + m = g
    BY <1>1, <1>4, <1>6, <1>11 DEF TypeInv
  <2>2. AllAt(s)
    BY DEF ListingInv
  <2>3. AllAt(s)'
    BY <1>2, <1>5, <1>8, <2>1, <2>2 DEF AllAt, Dir
  <2> QED BY <1>2, <1>5, <1>9, <2>1, <2>3, AllFrame
<1>12. CASE m = 0 /\ due = <<>>
  <2>1. /\ place' = [place EXCEPT ![s] = 0] /\ place'[s] = 0 /\ ended' = ended \cup {s}
    BY <1>1, <1>4, <1>12 DEF TypeInv
  <2>2. Len(due) = 0
    BY <1>3, <1>12, EmptySeq
  <2>3. g + m = T
    BY <1>3, <1>12, <2>2
  <2>4. AllAt(s)'
    BY <1>5, <1>8, <2>1, <2>3 DEF AllAt, Dir
  <2> QED BY <1>2, <1>5, <1>9, <2>1, <2>4, AllFrame
<1>13. m > 0 \/ m = 0
  BY <1>6
<1> QED BY <1>10, <1>11, <1>12, <1>13

\* ACTION_EXAMINE_ALL_END.
LEMMA ExamineAllEndKeeps ==
  ASSUME KeysTell, TypeInv, ListingInv, NEW s \in AllScans, ExamineAllEnd(s)
  PROVE  ListingInv'
<1>1. s \in Scans /\ Dir(s) \in Dirs
  BY ScanFacts DEF Scans
<1>2. /\ got' = [got EXCEPT ![s] = <<>>] /\ place' = [place EXCEPT ![s] = 0]
      /\ ended' = ended \ {s} /\ cursor' = cursor
  BY DEF ExamineAllEnd
<1>3. got'[s] = <<>> /\ place'[s] = 0 /\ s \notin ended'
  BY <1>1, <1>2 DEF TypeInv
<1>4. Lists(Dir(s), <<>>, 0) /\ Len(<<>>) = 0 /\ PlaceAt(Dir(s), 0, 0) = 0
  BY <1>1, ListingIs DEF Lists, PlaceAt
<1>5. AllAt(s)'
  BY <1>3, <1>4 DEF AllAt, Dir
<1> QED BY <1>2, <1>5, AllFrame

\* Every step.
LEMMA ListingStep ==
  ASSUME KeysTell, TypeInv, ListingInv, [Next]_vars
  PROVE  ListingInv'
<1>1. ASSUME UNCHANGED <<cursor, place, got, ended>> PROVE ListingInv'
  BY <1>1 DEF ListingInv, NextAt, AllAt, OwnCursor, CursorMatches, CursorAt, Apart, Dir
<1>2. CASE UNCHANGED vars
  BY <1>1, <1>2 DEF vars
<1>3. ASSUME NEW d \in Dirs, Lookup(d) PROVE ListingInv'
  BY <1>1, <1>3 DEF Lookup
<1>4. ASSUME NEW s \in NextScans, Examine(s) \/ ExamineNext(s) PROVE ListingInv'
  BY <1>4, ExamineKeeps, ExamineNextKeeps
<1>5. ASSUME NEW s \in AllScans, (\E fit \in 0..MaxFit : ExamineAll(s, fit)) \/ ExamineAllEnd(s)
      PROVE  ListingInv'
  BY <1>5, ExamineAllKeeps, ExamineAllEndKeeps
<1> QED BY <1>2, <1>3, <1>4, <1>5, Zenon DEF Next

\* The state at the start.
LEMMA ListingInit ==
  ASSUME Init PROVE ListingInv
<1>1. /\ ended = {} /\ (\A s \in Scans : got[s] = <<>> /\ place[s] = 0)
      /\ (\A l \in Locks : cursor[l] = NoCursor)
  BY DEF Init
<1>2. \A s \in Scans : Lists(Dir(s), <<>>, 0) /\ Len(<<>>) = 0 /\ PlaceAt(Dir(s), 0, 0) = 0
  BY ScanFacts, ListingIs DEF Lists, PlaceAt
<1>3. \A s \in NextScans : NextAt(s) /\ OwnCursor(s)
  BY <1>1, <1>2 DEF NextAt, OwnCursor, Scans
<1>4. \A s \in AllScans : AllAt(s)
  BY <1>1, <1>2 DEF AllAt, Scans
<1>5. \A l \in Locks : CursorAt(l)
  BY <1>1 DEF CursorAt, NoCursor
<1> QED BY <1>3, <1>4, <1>5 DEF ListingInv

\* Every listing is exact: the two kinds of resume cookie (cache_meta.c), the
\* cursor of a lock (exnext_cursor_matches) and the keys the clients hold lead
\* every ExNext and ExAll scan through all the entries once and in order, however
\* directories are built, evicted and found too big and whoever else uses the
\* lock, for as long as sectors can be read and KeysTell holds of the keys.
THEOREM ListingsExact == KeysTell /\ Spec => []ExactListing
<1> SUFFICES ASSUME KeysTell PROVE Spec => []ExactListing
  OBVIOUS
<1> DEFINE Inv == TypeInv /\ ListingInv
<1>1. Init => Inv
  BY TypesInit, ListingInit
<1>2. Inv /\ [Next]_vars => Inv'
  BY TypesStep, ListingStep
<1>3. ASSUME Inv PROVE ExactListing
  <2> SUFFICES ASSUME NEW s \in Scans
               PROVE  IsPrefix(got[s], Listing(Dir(s))) /\ (s \in ended => got[s] = Listing(Dir(s)))
    BY DEF ExactListing
  <2>1. Lists(Dir(s), got[s], Len(got[s])) /\ (s \in ended => Len(got[s]) = Total(Dir(s)))
    BY <1>3 DEF ListingInv, NextAt, AllAt, Scans
  <2>2. Dir(s) \in Dirs /\ Len(got[s]) \in Nat
    BY <1>3, ScanFacts DEF TypeInv
  <2> QED BY <2>1, <2>2, ListsPrefix
<1> HIDE DEF Inv
<1> QED BY <1>1, <1>2, <1>3, PTL DEF Spec
=============================================================================
