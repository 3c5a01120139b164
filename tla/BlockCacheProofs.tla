-------------------------- MODULE BlockCacheProofs --------------------------
(***************************************************************************)
(* The links of BlockCache, what its entries and the pointers to them hold *)
(* and the refinement of LruCache, for any capacity, read-ahead and width  *)
(* of sector numbers; and, in the last part, the byte-range reads of       *)
(* ReadBytes that the same file puts on top of it.                         *)
(***************************************************************************)
EXTENDS BlockCache, ReadBytes, FiniteSetTheorems, SequenceTheorems, TLAPS

-----------------------------------------------------------------------------
(* Lists.                                                                  *)

\* A sequence of the members of a set of entries, each once.
Enumerates(q, S) == q \in Seq(Idx) /\ IsInjective(q) /\ ToSet(q) = S

\* The links from start run along it.
Runs(start, link, q) ==
  /\ start = IF q = <<>> THEN Nil ELSE q[1]
  /\ \A i \in 1..Len(q) : link[q[i]] = IF i = Len(q) THEN Nil ELSE q[i + 1]

\* The sequence without its k-th member.
Without(q, k) == [j \in 1..(Len(q) - 1) |-> IF j < k THEN q[j] ELSE q[j + 1]]

\* One sequence is the other read backwards.
Mirror(q, r) ==
  r \in Seq(Idx) /\ Len(r) = Len(q) /\ \A i \in 1..Len(q) : r[i] = q[Len(q) + 1 - i]

\* Nil is no entry.
LEMMA NilIsNone ==
  Nil \notin Idx
BY CacheAssumption DEF Nil, Idx

\* ToSet, element by element.
LEMMA InToSet ==
  ASSUME NEW s, NEW x
  PROVE  x \in ToSet(s) <=> \E i \in DOMAIN s : s[i] = x
BY DEF ToSet

\* What an enumeration says of its positions.
LEMMA Enumeration ==
  ASSUME NEW q, NEW S, Enumerates(q, S)
  PROVE  /\ Len(q) \in Nat /\ DOMAIN q = 1..Len(q) /\ S \subseteq Idx
         /\ \A i \in 1..Len(q) : q[i] \in S
         /\ \A x \in S : \E i \in 1..Len(q) : q[i] = x
         /\ \A i, j \in 1..Len(q) : q[i] = q[j] => i = j
<1>1. q \in Seq(Idx) /\ Len(q) \in Nat /\ DOMAIN q = 1..Len(q)
  BY DEF Enumerates
<1>2. /\ \A i \in 1..Len(q) : q[i] \in S
      /\ \A x \in S : \E i \in 1..Len(q) : q[i] = x
  BY <1>1, InToSet DEF Enumerates
<1>3. \A i, j \in 1..Len(q) : q[i] = q[j] => i = j
  BY <1>1 DEF Enumerates, IsInjective
<1>4. S \subseteq Idx
  BY <1>1, <1>2
<1> QED BY <1>1, <1>2, <1>3, <1>4

\* And what is needed for one.
LEMMA IsEnumeration ==
  ASSUME NEW S, NEW n \in Nat, NEW q, q \in [1..n -> S], S \subseteq Idx,
         \A x \in S : \E i \in 1..n : q[i] = x,
         \A i, j \in 1..n : q[i] = q[j] => i = j
  PROVE  Enumerates(q, S) /\ Len(q) = n
<1>1. q \in Seq(Idx) /\ Len(q) = n /\ DOMAIN q = 1..n
  BY DEF Seq
<1>2. IsInjective(q)
  BY <1>1 DEF IsInjective
<1>3. ToSet(q) = S
  <2>1. \A i \in 1..n : q[i] \in S
    OBVIOUS
  <2>2. \A x : x \in ToSet(q) <=> \E i \in 1..n : q[i] = x
    BY <1>1, InToSet
  <2> QED BY <2>1, <2>2, SMTT(30)
<1> QED BY <1>1, <1>2, <1>3 DEF Enumerates

\* An enumeration is as long as the set is large, at most the capacity.
LEMMA EnumerationLength ==
  ASSUME NEW q, NEW S, Enumerates(q, S)
  PROVE  IsFiniteSet(S) /\ Cardinality(S) = Len(q) /\ Len(q) \in 0..Capacity
<1> DEFINE n == Len(q)
<1>1. /\ n \in Nat /\ DOMAIN q = 1..n /\ S \subseteq Idx
      /\ \A i \in 1..n : q[i] \in S
      /\ \A x \in S : \E i \in 1..n : q[i] = x
      /\ \A i, j \in 1..n : q[i] = q[j] => i = j
  BY Enumeration
<1>2. q \in [1..n -> S]
  BY <1>1 DEF Enumerates
<1> HIDE DEF n
<1>3. q \in Bijection(1..n, S)
  BY <1>1, <1>2 DEF Bijection, Injection, Surjection, IsInjective
<1>4. ExistsBijection(1..n, S)
  BY <1>3 DEF ExistsBijection
<1>5. IsFiniteSet(1..n) /\ Cardinality(1..n) = n
  BY <1>1, FS_Interval
<1>6. IsFiniteSet(S) /\ Cardinality(S) = n
  BY <1>4, <1>5, FS_Bijection
<1>7. IsFiniteSet(Idx) /\ Cardinality(Idx) = Capacity
  <2>1. 0 \in Int /\ Capacity - 1 \in Int /\ 0 <= Capacity - 1 /\ (Capacity - 1) - 0 + 1 = Capacity
    BY CacheAssumption
  <2>2. IsFiniteSet(0..(Capacity - 1)) /\ Cardinality(0..(Capacity - 1)) = (Capacity - 1) - 0 + 1
    BY <2>1, FS_Interval
  <2> QED BY <2>1, <2>2 DEF Idx
<1>8. Cardinality(S) <= Cardinality(Idx)
  BY <1>1, <1>7, FS_Subset
<1>9. n \in 0..Capacity
  BY <1>1, <1>6, <1>7, <1>8, CacheAssumption
<1> QED BY <1>6, <1>9 DEF n

\* A change elsewhere does not matter to a list.
LEMMA RunsKept ==
  ASSUME NEW start, NEW link, NEW link2, NEW q, NEW S, Enumerates(q, S), Runs(start, link, q),
         \A x \in S : link2[x] = link[x]
  PROVE  Runs(start, link2, q)
<1>1. \A i \in 1..Len(q) : q[i] \in S
  BY Enumeration
<1> QED BY <1>1 DEF Runs

\* A new first member.
LEMMA Prepended ==
  ASSUME NEW start, NEW link, NEW link2, NEW q, NEW S, Enumerates(q, S), Runs(start, link, q),
         NEW i \in Idx \ S, link2[i] = start, \A x \in S : link2[x] = link[x]
  PROVE  Enumerates(<<i>> \o q, S \cup {i}) /\ Runs(i, link2, <<i>> \o q)
<1> DEFINE n == Len(q)
           t == <<i>> \o q
<1>1. /\ n \in Nat /\ DOMAIN q = 1..n /\ S \subseteq Idx
      /\ \A k \in 1..n : q[k] \in S
      /\ \A x \in S : \E k \in 1..n : q[k] = x
      /\ \A k, j \in 1..n : q[k] = q[j] => k = j
  BY Enumeration
<1>2. /\ t \in Seq(Idx) /\ Len(t) = n + 1 /\ t[1] = i
      /\ \A k \in 1..n : t[k + 1] = q[k]
  BY DEF Enumerates
<1>a. q = <<>> <=> n = 0
  BY DEF Enumerates
<1>b. DOMAIN t = 1..(n + 1)
  BY <1>2
<1> HIDE DEF n, t
<1>3. \A k \in 1..(n + 1) : k = 1 \/ (k - 1 \in 1..n /\ t[k] = q[k - 1])
  <2>1. \A k \in 1..(n + 1) : k = 1 \/ (k - 1 \in 1..n /\ (k - 1) + 1 = k)
    BY <1>1
  <2> QED BY <1>2, <2>1
<1>4. t \in [1..(n + 1) -> S \cup {i}]
  <2>1. \A k \in 1..(n + 1) : t[k] \in S \cup {i}
    BY <1>1, <1>2, <1>3
  <2>2. t = [k \in 1..(n + 1) |-> t[k]]
    BY <1>2, <1>b
  <2> QED BY <2>1, <2>2
<1>5. \A x \in S \cup {i} : \E k \in 1..(n + 1) : t[k] = x
  <2>1. \A k \in 1..n : k + 1 \in 1..(n + 1)
    BY <1>1
  <2>2. 1 \in 1..(n + 1)
    BY <1>1
  <2> QED BY <1>1, <1>2, <2>1, <2>2
<1>6. \A k, j \in 1..(n + 1) : t[k] = t[j] => k = j
  <2> SUFFICES ASSUME NEW k \in 1..(n + 1), NEW j \in 1..(n + 1), t[k] = t[j]
               PROVE  k = j
    OBVIOUS
  <2>1. k = 1 \/ (k - 1 \in 1..n /\ t[k] = q[k - 1] /\ t[k] \in S)
    BY <1>1, <1>3
  <2>2. j = 1 \/ (j - 1 \in 1..n /\ t[j] = q[j - 1] /\ t[j] \in S)
    BY <1>1, <1>3
  <2>3. CASE k # 1 /\ j # 1
    <3>1. k - 1 = j - 1
      BY <1>1, <2>1, <2>2, <2>3
    <3> QED BY <1>1, <3>1
  <2> QED BY <1>2, <2>1, <2>2, <2>3
<1>7. Enumerates(t, S \cup {i})
  <2>1. n + 1 \in Nat /\ S \cup {i} \subseteq Idx
    BY <1>1
  <2> QED BY <1>4, <1>5, <1>6, <2>1, IsEnumeration
<1>8. Runs(i, link2, t)
  <2>1. start = IF n = 0 THEN Nil ELSE q[1]
    BY <1>a DEF Runs
  <2>2. link2[t[1]] = IF n = 0 THEN Nil ELSE t[2]
    <3>1. n # 0 => t[1 + 1] = q[1]
      BY <1>1, <1>2
    <3> QED BY <1>2, <2>1, <3>1
  <2>3. ASSUME NEW k \in 1..(n + 1)
        PROVE  link2[t[k]] = IF k = n + 1 THEN Nil ELSE t[k + 1]
    <3>1. CASE k = 1
      <4>1. k = n + 1 <=> n = 0
        BY <1>1, <3>1
      <4> QED BY <2>2, <3>1, <4>1
    <3>2. CASE k # 1
      <4> DEFINE j == k - 1
      <4>1. j \in 1..n /\ j + 1 = k /\ (j = n <=> k = n + 1)
        BY <1>1, <3>2
      <4>2. t[k] = q[j] /\ q[j] \in S
        BY <1>1, <1>2, <4>1
      <4>3. link[q[j]] = IF j = n THEN Nil ELSE q[j + 1]
        BY <4>1 DEF Runs, n
      <4>4. j # n => j + 1 \in 1..n
        BY <1>1, <4>1
      <4>5. j # n => t[k + 1] = q[j + 1]
        BY <1>2, <4>1, <4>4
      <4> HIDE DEF j
      <4> QED BY <4>1, <4>2, <4>3, <4>5
    <3> QED BY <3>1, <3>2
  <2>4. t # <<>>
    BY <1>1, <1>2
  <2> QED BY <1>2, <2>3, <2>4 DEF Runs
<1> QED BY <1>7, <1>8 DEF t

\* A new last member.
LEMMA AtEnd ==
  ASSUME NEW start, NEW start2, NEW link, NEW link2, NEW q, NEW S, Enumerates(q, S),
         Runs(start, link, q), NEW i \in Idx \ S, link2[i] = Nil,
         start2 = IF q = <<>> THEN i ELSE start,
         \A x \in S : link2[x] = IF x = q[Len(q)] THEN i ELSE link[x]
  PROVE  Runs(start2, link2, Append(q, i))
<1> DEFINE n == Len(q)
           t == Append(q, i)
<1>1. /\ n \in Nat /\ DOMAIN q = 1..n
      /\ \A k \in 1..n : q[k] \in S
      /\ \A k, j \in 1..n : q[k] = q[j] => k = j
  BY Enumeration
<1>2. /\ Len(t) = n + 1 /\ t[n + 1] = i /\ t # <<>>
      /\ \A k \in 1..n : t[k] = q[k]
  <2>1. q \in Seq(Idx) /\ i \in Idx
    BY DEF Enumerates
  <2>2. Len(t) = n + 1 /\ t[n + 1] = i /\ \A k \in 1..n : t[k] = q[k]
    BY <2>1
  <2>3. Len(t) # 0
    BY <1>1, <2>2
  <2> QED BY <2>2, <2>3
<1>3. q = <<>> <=> n = 0
  BY DEF Enumerates
<1>4. \A k \in 1..n : link[q[k]] = IF k = n THEN Nil ELSE q[k + 1]
  BY DEF Runs
<1>5. start2 = t[1]
  <2>1. CASE n = 0
    BY <1>2, <1>3, <2>1
  <2>2. CASE n # 0
    <3>1. 1 \in 1..n /\ q # <<>>
      BY <1>1, <1>3, <2>2
    <3>2. start = q[1]
      BY <3>1 DEF Runs
    <3>3. t[1] = q[1]
      BY <1>2, <3>1
    <3> QED BY <3>1, <3>2, <3>3
  <2> QED BY <2>1, <2>2
<1>a. \A x \in S : link2[x] = IF x = q[n] THEN i ELSE link[x]
  OBVIOUS
<1> HIDE DEF n, t
<1>6. ASSUME NEW k \in 1..(n + 1)
      PROVE  link2[t[k]] = IF k = n + 1 THEN Nil ELSE t[k + 1]
  <2>1. CASE k = n + 1
    BY <1>2, <2>1
  <2>2. CASE k = n
    <3>1. k \in 1..n /\ k # n + 1 /\ k + 1 = n + 1
      BY <1>1, <2>2
    <3>2. t[k] = q[k] /\ q[k] \in S /\ q[k] = q[n]
      BY <1>1, <1>2, <2>2, <3>1
    <3>3. link2[q[k]] = i
      BY <1>a, <3>2
    <3> QED BY <1>2, <3>1, <3>2, <3>3
  <2>3. CASE k # n + 1 /\ k # n
    <3>1. k \in 1..n /\ k + 1 \in 1..n /\ n \in 1..n
      BY <1>1, <2>3
    <3>2. t[k] = q[k] /\ q[k] \in S /\ q[k] # q[n] /\ t[k + 1] = q[k + 1]
      BY <1>1, <1>2, <2>3, <3>1
    <3>3. link2[q[k]] = link[q[k]]
      BY <1>a, <3>2
    <3> QED BY <1>4, <2>3, <3>1, <3>2, <3>3
  <2> QED BY <2>1, <2>2, <2>3
<1>7. Runs(start2, link2, t)
  BY <1>2, <1>5, <1>6 DEF Runs
<1> QED BY <1>7 DEF t

\* The members of a sequence that has lost one.
LEMMA WithoutIs ==
  ASSUME NEW q, NEW S, Enumerates(q, S), NEW k \in 1..Len(q)
  PROVE  /\ Enumerates(Without(q, k), S \ {q[k]}) /\ Len(Without(q, k)) = Len(q) - 1
         /\ \A j \in 1..(Len(q) - 1) : Without(q, k)[j] = IF j < k THEN q[j] ELSE q[j + 1]
<1> DEFINE n == Len(q)
           t == Without(q, k)
           m == n - 1
<1>1. /\ n \in Nat /\ DOMAIN q = 1..n /\ S \subseteq Idx
      /\ \A i \in 1..n : q[i] \in S
      /\ \A x \in S : \E i \in 1..n : q[i] = x
      /\ \A i, j \in 1..n : q[i] = q[j] => i = j
  BY Enumeration
<1>2. t = [j \in 1..m |-> IF j < k THEN q[j] ELSE q[j + 1]] /\ k \in 1..n
  BY DEF Without
<1> HIDE DEF n, t
<1>3. m \in Nat /\ n = m + 1
  BY <1>1, <1>2
<1> HIDE DEF m
<1>4. \A j \in 1..m : t[j] = IF j < k THEN q[j] ELSE q[j + 1]
  BY <1>2
<1>5. \A j \in 1..m : j \in 1..n /\ j + 1 \in 1..n /\ (j < k => j # k) /\ (~(j < k) => j + 1 # k)
  BY <1>2, <1>3
<1>6. \A j \in 1..m : t[j] \in S \ {q[k]}
  BY <1>1, <1>2, <1>4, <1>5
<1>7. ASSUME NEW x \in S \ {q[k]} PROVE \E j \in 1..m : t[j] = x
  <2>1. PICK i \in 1..n : q[i] = x
    BY <1>1
  <2>2. CASE i < k
    <3>1. i \in 1..m
      BY <1>2, <1>3, <2>2
    <3> QED BY <1>4, <2>1, <2>2, <3>1
  <2>3. CASE ~(i < k)
    <3>1. i # k
      BY <2>1
    <3>2. i - 1 \in 1..m /\ ~(i - 1 < k) /\ (i - 1) + 1 = i
      BY <1>2, <1>3, <2>3, <3>1
    <3>3. t[i - 1] = q[i]
      BY <1>4, <3>2
    <3> QED BY <2>1, <3>2, <3>3
  <2> QED BY <2>2, <2>3
<1>8. ASSUME NEW i \in 1..m, NEW j \in 1..m, t[i] = t[j] PROVE i = j
  <2> DEFINE a == IF i < k THEN i ELSE i + 1
             b == IF j < k THEN j ELSE j + 1
  <2>1. a \in 1..n /\ b \in 1..n /\ t[i] = q[a] /\ t[j] = q[b]
    BY <1>4, <1>5
  <2>2. a = b
    <3> HIDE DEF a, b
    <3> QED BY <1>1, <1>8, <2>1
  <2> QED BY <1>2, <1>3, <2>2
<1>9. t \in [1..m -> S \ {q[k]}]
  BY <1>2, <1>6
<1>10. Enumerates(t, S \ {q[k]}) /\ Len(t) = m
  <2> DEFINE T == S \ {q[k]}
  <2>1. T \subseteq Idx
    BY <1>1
  <2> HIDE DEF T
  <2>2. t \in [1..m -> T] /\ \A x \in T : \E j \in 1..m : t[j] = x
    BY <1>7, <1>9 DEF T
  <2>3. Enumerates(t, T) /\ Len(t) = m
    BY <1>3, <1>8, <2>1, <2>2, IsEnumeration
  <2> QED BY <2>3 DEF T
<1> QED BY <1>4, <1>10 DEF t, m, n

\* Taking a member out of a list.
LEMMA Spliced ==
  ASSUME NEW start, NEW start2, NEW link, NEW link2, NEW q, NEW S, Enumerates(q, S),
         Runs(start, link, q), NEW k \in 1..Len(q),
         start2 = IF k = 1 THEN link[q[k]] ELSE start,
         \A x \in S \ {q[k]} : link2[x] = IF k # 1 /\ x = q[k - 1] THEN link[q[k]] ELSE link[x]
  PROVE  Runs(start2, link2, Without(q, k))
<1> DEFINE n == Len(q)
           t == Without(q, k)
           m == n - 1
<1>1. /\ n \in Nat /\ DOMAIN q = 1..n
      /\ \A i \in 1..n : q[i] \in S
      /\ \A i, j \in 1..n : q[i] = q[j] => i = j
  BY Enumeration
<1>2. /\ Len(t) = m /\ t \in Seq(Idx)
      /\ \A j \in 1..m : t[j] = IF j < k THEN q[j] ELSE q[j + 1]
  BY WithoutIs DEF Enumerates
<1>3. \A i \in 1..n : link[q[i]] = IF i = n THEN Nil ELSE q[i + 1]
  BY DEF Runs
<1>4. start = q[1]
  <2>1. q # <<>>
    BY <1>1
  <2> QED BY <2>1 DEF Runs
<1>5. t = <<>> <=> m = 0
  BY <1>2
<1>6. k \in 1..n
  OBVIOUS
<1> HIDE DEF n, t
<1>7. m \in Nat /\ n = m + 1
  BY <1>1, <1>6
<1> HIDE DEF m
<1>8. start2 = IF m = 0 THEN Nil ELSE t[1]
  <2>1. CASE k = 1
    <3>1. link[q[1]] = IF 1 = n THEN Nil ELSE q[1 + 1]
      BY <1>3, <1>6, <2>1
    <3>2. m # 0 => 1 \in 1..m /\ ~(1 < k)
      BY <1>7, <2>1
    <3>3. m # 0 => t[1] = q[1 + 1]
      BY <1>2, <3>2
    <3>4. 1 = n <=> m = 0
      BY <1>7
    <3> QED BY <2>1, <3>1, <3>3, <3>4
  <2>2. CASE k # 1
    <3>1. m # 0 /\ 1 \in 1..m /\ 1 < k
      BY <1>6, <1>7, <2>2
    <3> QED BY <1>2, <1>4, <2>2, <3>1
  <2> QED BY <2>1, <2>2
<1>9. ASSUME NEW j \in 1..m
      PROVE  link2[t[j]] = IF j = m THEN Nil ELSE t[j + 1]
  <2>1. CASE j < k - 1
    <3>1. /\ j \in 1..n /\ j + 1 \in 1..n /\ j < k /\ j # k /\ j # n /\ j # m
          /\ j + 1 \in 1..m /\ j + 1 < k /\ k - 1 \in 1..n /\ j # k - 1
      BY <1>6, <1>7, <2>1
    <3>2. t[j] = q[j] /\ t[j + 1] = q[j + 1]
      BY <1>2, <3>1
    <3>3. q[j] \in S \ {q[k]} /\ q[j] # q[k - 1]
      BY <1>1, <1>6, <3>1
    <3>4. link2[q[j]] = link[q[j]]
      BY <3>3
    <3> QED BY <1>3, <3>1, <3>2, <3>4
  <2>2. CASE j = k - 1
    <3>1. j \in 1..n /\ j < k /\ j # k /\ k # 1 /\ (k = n <=> j = m)
      BY <1>6, <1>7, <2>2
    <3>2. t[j] = q[j] /\ q[j] \in S \ {q[k]}
      BY <1>1, <1>2, <1>6, <3>1
    <3>3. link2[q[j]] = link[q[k]]
      BY <2>2, <3>1, <3>2
    <3>4. link[q[k]] = IF k = n THEN Nil ELSE q[k + 1]
      BY <1>3, <1>6
    <3>5. j # m => j + 1 \in 1..m /\ ~(j + 1 < k) /\ j + 1 = k
      BY <1>7, <2>2
    <3>6. j # m => t[j + 1] = q[k + 1]
      BY <1>2, <3>5
    <3> QED BY <3>1, <3>2, <3>3, <3>4, <3>6
  <2>3. CASE ~(j < k)
    <3>1. /\ j + 1 \in 1..n /\ j + 1 # k /\ (j + 1 = n <=> j = m)
          /\ k # 1 => k - 1 \in 1..n /\ j + 1 # k - 1
      BY <1>6, <1>7, <2>3
    <3>2. t[j] = q[j + 1] /\ q[j + 1] \in S \ {q[k]}
      BY <1>1, <1>2, <1>6, <2>3, <3>1
    <3>3. k # 1 => q[j + 1] # q[k - 1]
      BY <1>1, <3>1
    <3>4. link2[q[j + 1]] = link[q[j + 1]]
      BY <3>2, <3>3
    <3>5. link[q[j + 1]] = IF j + 1 = n THEN Nil ELSE q[(j + 1) + 1]
      BY <1>3, <3>1
    <3>6. j # m => j + 1 \in 1..m /\ ~(j + 1 < k)
      BY <1>7, <2>3, <1>6
    <3>7. j # m => t[j + 1] = q[(j + 1) + 1]
      BY <1>2, <3>6
    <3> QED BY <3>1, <3>2, <3>4, <3>5, <3>7
  <2> QED BY <1>6, <2>1, <2>2, <2>3
<1>10. Runs(start2, link2, t)
  BY <1>2, <1>5, <1>8, <1>9 DEF Runs
<1> QED BY <1>10 DEF t

\* Backwards, a list has the same members.
LEMMA MirrorIs ==
  ASSUME NEW q, NEW r, NEW S, Enumerates(q, S), Mirror(q, r)
  PROVE  Enumerates(r, S) /\ \A i \in 1..Len(q) : q[i] = r[Len(q) + 1 - i]
<1> DEFINE n == Len(q)
<1>1. /\ n \in Nat /\ DOMAIN q = 1..n /\ S \subseteq Idx
      /\ \A i \in 1..n : q[i] \in S
      /\ \A x \in S : \E i \in 1..n : q[i] = x
      /\ \A i, j \in 1..n : q[i] = q[j] => i = j
  BY Enumeration
<1>2. DOMAIN r = 1..n /\ \A i \in 1..n : r[i] = q[n + 1 - i]
  BY DEF Mirror
<1>a. r \in Seq(Idx)
  BY DEF Mirror
<1> HIDE DEF n
<1>3. \A i \in 1..n : n + 1 - i \in 1..n /\ n + 1 - (n + 1 - i) = i
  BY <1>1
<1>4. \A i \in 1..n : q[i] = r[n + 1 - i]
  BY <1>2, <1>3
<1>5. \A i \in 1..n : r[i] \in S
  BY <1>1, <1>2, <1>3
<1>6. \A x \in S : \E i \in 1..n : r[i] = x
  BY <1>1, <1>3, <1>4
<1>7. ASSUME NEW i \in 1..n, NEW j \in 1..n, r[i] = r[j] PROVE i = j
  <2>1. n + 1 - i = n + 1 - j
    BY <1>1, <1>2, <1>3, <1>7
  <2> QED BY <1>1, <2>1
<1>8. r \in [1..n -> S]
  <2>1. r = [i \in 1..n |-> r[i]]
    BY <1>2, <1>a
  <2> QED BY <1>5, <2>1
<1>9. Enumerates(r, S)
  BY <1>1, <1>6, <1>7, <1>8, IsEnumeration
<1> QED BY <1>4, <1>9 DEF n

\* A member leaves both.
LEMMA MirrorWithout ==
  ASSUME NEW q, NEW r, NEW S, Enumerates(q, S), Mirror(q, r), NEW k \in 1..Len(q)
  PROVE  /\ Len(q) + 1 - k \in 1..Len(q) /\ r[Len(q) + 1 - k] = q[k]
         /\ Mirror(Without(q, k), Without(r, Len(q) + 1 - k))
<1> DEFINE n == Len(q)
           h == n + 1 - k
           a == Without(q, k)
           b == Without(r, h)
           m == n - 1
<1>1. n \in Nat /\ k \in 1..n /\ Len(r) = n
  BY Enumeration DEF Mirror
<1>2. \A i \in 1..n : r[i] = q[n + 1 - i]
  BY DEF Mirror
<1>3. h \in 1..n /\ n + 1 - h = k
  BY <1>1
<1>4. Len(a) = m /\ \A j \in 1..m : a[j] = IF j < k THEN q[j] ELSE q[j + 1]
  BY WithoutIs
<1>5. b \in Seq(Idx) /\ Len(b) = m /\ \A j \in 1..m : b[j] = IF j < h THEN r[j] ELSE r[j + 1]
  <2>1. Enumerates(r, S) /\ h \in 1..Len(r)
    BY <1>1, <1>3, MirrorIs
  <2> HIDE DEF h
  <2>2. /\ Enumerates(Without(r, h), S \ {r[h]}) /\ Len(Without(r, h)) = Len(r) - 1
        /\ \A j \in 1..(Len(r) - 1) : Without(r, h)[j] = IF j < h THEN r[j] ELSE r[j + 1]
    BY <2>1, WithoutIs
  <2> QED BY <1>1, <2>2 DEF Enumerates
<1> HIDE DEF n, a, b
<1>6. m \in Nat /\ n = m + 1
  BY <1>1
<1>7. ASSUME NEW i \in 1..m PROVE b[i] = a[m + 1 - i]
  <2>1. i \in 1..n /\ i + 1 \in 1..n /\ m + 1 - i \in 1..m
    BY <1>6
  <2>2. CASE i < h
    <3>1. b[i] = q[n + 1 - i]
      BY <1>2, <1>5, <2>1, <2>2
    <3>2. ~(m + 1 - i < k) /\ (m + 1 - i) + 1 = n + 1 - i
      BY <1>1, <1>6, <2>2
    <3> QED BY <1>4, <2>1, <3>1, <3>2
  <2>3. CASE ~(i < h)
    <3>1. b[i] = q[n + 1 - (i + 1)]
      BY <1>2, <1>5, <2>1, <2>3
    <3>2. m + 1 - i < k /\ m + 1 - i = n + 1 - (i + 1)
      BY <1>1, <1>6, <2>3
    <3> QED BY <1>4, <2>1, <3>1, <3>2
  <2> QED BY <2>2, <2>3
<1>8. Mirror(a, b)
  BY <1>4, <1>5, <1>7 DEF Mirror
<1> QED BY <1>2, <1>3, <1>8 DEF n, a, b

\* What comes first in one comes last in the other.
LEMMA MirrorPrepended ==
  ASSUME NEW q, NEW r, NEW S, Enumerates(q, S), Mirror(q, r), NEW i \in Idx
  PROVE  Mirror(<<i>> \o q, Append(r, i))
<1> DEFINE n == Len(q)
           a == <<i>> \o q
           b == Append(r, i)
<1>1. n \in Nat /\ Len(r) = n /\ r \in Seq(Idx) /\ q \in Seq(Idx)
  BY Enumeration DEF Mirror, Enumerates
<1>2. \A k \in 1..n : r[k] = q[n + 1 - k]
  BY DEF Mirror
<1>3. Len(a) = n + 1 /\ a[1] = i /\ \A k \in 1..n : a[k + 1] = q[k]
  BY <1>1
<1>4. b \in Seq(Idx) /\ Len(b) = n + 1 /\ b[n + 1] = i /\ \A k \in 1..n : b[k] = r[k]
  BY <1>1
<1> HIDE DEF n, a, b
<1>5. ASSUME NEW k \in 1..(n + 1) PROVE b[k] = a[(n + 1) + 1 - k]
  <2>1. CASE k = n + 1
    <3>1. (n + 1) + 1 - k = 1
      BY <1>1, <2>1
    <3> QED BY <1>3, <1>4, <2>1, <3>1
  <2>2. CASE k # n + 1
    <3>1. k \in 1..n /\ n + 1 - k \in 1..n /\ (n + 1) + 1 - k = (n + 1 - k) + 1
      BY <1>1, <2>2
    <3>2. a[(n + 1 - k) + 1] = q[n + 1 - k]
      BY <1>3, <3>1
    <3>3. b[k] = q[n + 1 - k]
      BY <1>2, <1>4, <3>1
    <3> QED BY <3>1, <3>2, <3>3
  <2> QED BY <2>1, <2>2
<1>6. Mirror(a, b)
  BY <1>3, <1>4, <1>5 DEF Mirror
<1> QED BY <1>6 DEF a, b

-----------------------------------------------------------------------------
(* The shape of a cache.                                                   *)

\* The types of its fields.
Buckets == 0..(HashSize - 1)
Links == Idx \cup {Nil}
CacheType ==
  [bucket : [Buckets -> Links], next : [Idx -> Links], prev : [Idx -> Links],
   lnext : [Idx -> Links], free : Links, head : Links, tail : Links, valid : SUBSET Idx,
   lba : [Idx -> Lbas], data : [Idx -> Lbas \cup {Garbage}], count : Nat, lastMiss : Lbas,
   moved : BOOLEAN]

\* The LRU list has the members S in the order of q, the free list has the
\* members S, and every chain has those of S that hash to it.
Recent(c, S, q) ==
  /\ Enumerates(q, S) /\ Runs(c.head, c.lnext, q)
  /\ \E r : Mirror(q, r) /\ Runs(c.tail, c.prev, r)
Free(c, S) == \E q : Enumerates(q, S) /\ Runs(c.free, c.lnext, q)
Filed(c, S) ==
  \A b \in Buckets :
    \E q : Enumerates(q, {i \in S : Hash(c.lba[i]) = b}) /\ Runs(c.bucket[b], c.next, q)

\* The links of a cache, with the entries in LRU order; no sector is cached
\* twice.
Distinct(c) == \A i, j \in c.valid : c.lba[i] = c.lba[j] => i = j
Shape(c, q) ==
  /\ c \in CacheType /\ Recent(c, c.valid, q) /\ Free(c, Idx \ c.valid) /\ Filed(c, c.valid)
  /\ c.count = Cardinality(c.valid) /\ Distinct(c)

\* A valid entry holds its sector.
Holds(c) == \A i \in c.valid : c.data[i] = c.lba[i]

\* Every valid entry of d holds its sector, or is as it was in c.
Kept(c, d) ==
  \A i \in d.valid :
    \/ d.data[i] = d.lba[i]
    \/ i \in c.valid /\ d.lba[i] = c.lba[i] /\ d.data[i] = c.data[i]

\* The cache d has what c in the order q had and, before it, the last j of the
\* sectors l, l + 1, ..., l + run - 1, as far as the capacity allows.
Filled(c, q, l, run, d, j) ==
  \E u : /\ Shape(d, u) /\ d.lastMiss = c.lastMiss /\ (Holds(c) => Holds(d)) /\ Kept(c, d)
         /\ Len(u) = IF Len(q) + j < Capacity THEN Len(q) + j ELSE Capacity
         /\ \A n \in 1..Len(u) : d.lba[u[n]] = IF n <= j THEN (l + run - j) + n - 1
                                               ELSE c.lba[q[n - j]]

\* Installing a sector, as a step of a fold.
InstallStep(d, l, p) == Commit([d EXCEPT !.data[Reserve(d)] = l], Reserve(d), l)
InstallGood(d, j, p) == Filled(p.c, p.q, p.l, p.run, d, j)
Installing == INSTANCE FoldInduction WITH Step <- InstallStep, Good <- InstallGood

-----------------------------------------------------------------------------
(* Following the links.                                                    *)

\* The function Follow chooses leads along the sequence of the list.
LEMMA FollowIs ==
  ASSUME NEW start, NEW link, NEW q, NEW S, Enumerates(q, S), Runs(start, link, q)
  PROVE  \A n \in 0..Capacity : Follow(start, link)[n] = IF n < Len(q) THEN q[n + 1] ELSE Nil
<1> DEFINE N == Len(q)
           step(f) == [n \in 0..Capacity |->
                         IF n = 0 THEN start ELSE IF f[n - 1] = Nil THEN Nil ELSE link[f[n - 1]]]
           at == CHOOSE f : f = step(f)
           w == [n \in 0..Capacity |-> IF n < N THEN q[n + 1] ELSE Nil]
<1>1. N \in 0..Capacity /\ Capacity \in Nat
  BY EnumerationLength, CacheAssumption
<1>2. /\ start = IF N = 0 THEN Nil ELSE q[1]
      /\ \A i \in 1..N : link[q[i]] = IF i = N THEN Nil ELSE q[i + 1]
  BY DEF Runs, Enumerates
<1>3. \A i \in 1..N : q[i] # Nil
  BY Enumeration, NilIsNone
<1>a. at = Follow(start, link)
  BY DEF Follow
<1> HIDE DEF N
<1>4. ASSUME NEW n \in 0..Capacity
      PROVE  w[n] = IF n = 0 THEN start ELSE IF w[n - 1] = Nil THEN Nil ELSE link[w[n - 1]]
  <2>1. CASE n = 0
    <3>1. 0 < N <=> N # 0
      BY <1>1
    <3> QED BY <1>2, <2>1, <3>1
  <2>2. CASE n # 0 /\ n - 1 < N
    <3>1. n \in 1..N /\ n - 1 \in 0..Capacity /\ (n - 1) + 1 = n /\ (n < N <=> n # N)
      BY <1>1, <2>2
    <3>2. w[n - 1] = q[n] /\ q[n] # Nil
      BY <1>3, <2>2, <3>1
    <3> QED BY <1>2, <2>2, <3>1, <3>2
  <2>3. CASE n # 0 /\ ~(n - 1 < N)
    <3>1. ~(n < N) /\ n - 1 \in 0..Capacity
      BY <1>1, <2>3
    <3> QED BY <2>3, <3>1
  <2> QED BY <2>1, <2>2, <2>3
<1>5. w = step(w)
  BY <1>4
<1>6. at = step(at)
  <2> HIDE DEF w, step
  <2> QED BY <1>5
<1> HIDE DEF at
<1>7. \A n \in 0..Capacity : at[n] = IF n = 0 THEN start
                                     ELSE IF at[n - 1] = Nil THEN Nil ELSE link[at[n - 1]]
  BY <1>6
<1> HIDE DEF w
<1> DEFINE P == {n \in Nat : n <= Capacity => at[n] = w[n]}
<1>8. 0 \in P
  BY <1>1, <1>4, <1>7
<1>9. ASSUME NEW n \in P PROVE n + 1 \in P
  <2>1. n + 1 \in Nat /\ (n + 1) - 1 = n
    OBVIOUS
  <2>2. ASSUME n + 1 <= Capacity PROVE at[n + 1] = w[n + 1]
    <3>1. n + 1 \in 0..Capacity /\ n + 1 # 0 /\ at[n] = w[n]
      BY <1>1, <2>2
    <3> QED BY <1>4, <1>7, <2>1, <3>1
  <2> QED BY <2>1, <2>2
<1> HIDE DEF P
<1>10. P = Nat
  <2>1. P \in SUBSET Nat
    BY DEF P
  <2> QED BY <1>8, <1>9, <2>1, Installing!NatInd
<1>11. \A n \in 0..Capacity : at[n] = w[n]
  BY <1>1, <1>10 DEF P
<1>12. \A n \in 0..Capacity : at[n] = IF n < N THEN q[n + 1] ELSE Nil
  BY <1>11 DEF w
<1> QED BY <1>12, <1>a DEF N

\* Its elements are the members of the list, and it ends.
LEMMA ElementsAre ==
  ASSUME NEW start, NEW link, NEW q, NEW S, Enumerates(q, S), Runs(start, link, q)
  PROVE  Elements(start, link) = S /\ Terminated(start, link)
<1> DEFINE N == Len(q)
           at == Follow(start, link)
<1>1. N \in 0..Capacity /\ Capacity \in Nat
  BY EnumerationLength, CacheAssumption
<1>2. /\ \A i \in 1..N : q[i] \in S
      /\ \A x \in S : \E i \in 1..N : q[i] = x
      /\ \A x \in S : x # Nil
  BY Enumeration, NilIsNone
<1>3. \A n \in 0..Capacity : at[n] = IF n < N THEN q[n + 1] ELSE Nil
  BY FollowIs
<1>a. Elements(start, link) = {at[n] : n \in 0..Capacity} \ {Nil}
      /\ (Terminated(start, link) <=> at[Capacity] = Nil)
  BY DEF Elements, Terminated
<1> HIDE DEF N, at
<1>4. \A n \in 0..Capacity : n < N => n + 1 \in 1..N
  BY <1>1
<1>5. \A n \in 0..Capacity : at[n] \in S \cup {Nil}
  BY <1>2, <1>3, <1>4
<1>6. ASSUME NEW x \in S PROVE \E n \in 0..Capacity : at[n] = x
  <2>1. PICK i \in 1..N : q[i] = x
    BY <1>2
  <2>2. i - 1 \in 0..Capacity /\ i - 1 < N /\ (i - 1) + 1 = i
    BY <1>1
  <2> QED BY <1>3, <2>1, <2>2
<1>7. at[Capacity] = Nil
  BY <1>1, <1>3
<1> QED BY <1>2, <1>5, <1>6, <1>7, <1>a

-----------------------------------------------------------------------------
(* The helpers that splice links.                                          *)

\* Changes that concern the LRU list or the chains alone.
OnlyLru(c, d) ==
  /\ d.bucket = c.bucket /\ d.next = c.next /\ d.valid = c.valid /\ d.free = c.free
  /\ d.lba = c.lba /\ d.data = c.data /\ d.count = c.count /\ d.lastMiss = c.lastMiss
  /\ d.moved = c.moved
OnlyIndex(c, d) ==
  /\ d.head = c.head /\ d.tail = c.tail /\ d.lnext = c.lnext /\ d.prev = c.prev
  /\ d.valid = c.valid /\ d.free = c.free /\ d.lba = c.lba /\ d.data = c.data
  /\ d.count = c.count /\ d.lastMiss = c.lastMiss /\ d.moved = c.moved

\* Links into the LRU list do not matter to the free list.
LEMMA FreeKept ==
  ASSUME NEW c, NEW d, NEW F, Free(c, F), d.free = c.free, \A x \in F : d.lnext[x] = c.lnext[x]
  PROVE  Free(d, F)
<1>1. PICK q : Enumerates(q, F) /\ Runs(c.free, c.lnext, q)
  BY DEF Free
<1>2. Runs(d.free, d.lnext, q)
  BY <1>1, RunsKept
<1> QED BY <1>1, <1>2 DEF Free

\* What lru_remove() writes.
LEMMA LruRemoveFields ==
  ASSUME NEW c \in CacheType, NEW i \in Idx, NEW d, d = LruRemove(c, i)
  PROVE  /\ d \in CacheType /\ OnlyLru(c, d)
         /\ d.head = IF c.prev[i] = Nil /\ c.head = i THEN c.lnext[i] ELSE c.head
         /\ d.tail = IF c.lnext[i] = Nil /\ c.tail = i THEN c.prev[i] ELSE c.tail
         /\ \A x \in Idx \ {i} :
              /\ d.lnext[x] = IF x = c.prev[i] THEN c.lnext[i] ELSE c.lnext[x]
              /\ d.prev[x] = IF x = c.lnext[i] THEN c.prev[i] ELSE c.prev[x]
<1> DEFINE ln == [j \in Idx |-> IF j = i THEN Nil
                                ELSE IF j = c.prev[i] THEN c.lnext[i] ELSE c.lnext[j]]
           pr == [j \in Idx |-> IF j = i THEN Nil
                                ELSE IF j = c.lnext[i] THEN c.prev[i] ELSE c.prev[j]]
           hd == IF c.prev[i] = Nil /\ c.head = i THEN c.lnext[i] ELSE c.head
           tl == IF c.lnext[i] = Nil /\ c.tail = i THEN c.prev[i] ELSE c.tail
<1>1. d = [c EXCEPT !.lnext = ln, !.prev = pr, !.head = hd, !.tail = tl]
  BY DEF LruRemove
<1>2. ln \in [Idx -> Links] /\ pr \in [Idx -> Links] /\ hd \in Links /\ tl \in Links
  BY DEF CacheType, Links
<1> HIDE DEF ln, pr, hd, tl
<1>3. /\ d \in CacheType /\ OnlyLru(c, d)
      /\ d.lnext = ln /\ d.prev = pr /\ d.head = hd /\ d.tail = tl
  BY <1>1, <1>2, ZenonT(40) DEF CacheType, OnlyLru
<1> QED BY <1>3 DEF ln, pr, hd, tl

\* lru_remove() takes an entry out of the list, wherever it stands.
LEMMA Removed ==
  ASSUME NEW c \in CacheType, NEW S, NEW q, Recent(c, S, q), NEW i \in S,
         NEW k \in 1..Len(q), q[k] = i, NEW F, Free(c, F), F \cap S = {}
  PROVE  Recent(LruRemove(c, i), S \ {i}, Without(q, k)) /\ Free(LruRemove(c, i), F)
<1> DEFINE d == LruRemove(c, i)
           n == Len(q)
           h == n + 1 - k
           p == c.prev[i]
           s == c.lnext[i]
<1>1. Enumerates(q, S) /\ Runs(c.head, c.lnext, q)
  BY DEF Recent
<1>2. PICK r : Mirror(q, r) /\ Runs(c.tail, c.prev, r)
  BY DEF Recent
<1>3. /\ n \in Nat /\ S \subseteq Idx /\ \A j \in 1..n : q[j] \in S
  BY <1>1, Enumeration
<1>4. h \in 1..n /\ r[h] = i /\ Mirror(Without(q, k), Without(r, h))
  BY <1>1, <1>2, MirrorWithout
<1>5. Enumerates(r, S) /\ Len(r) = n /\ \A j \in 1..n : r[j] = q[n + 1 - j]
  BY <1>1, <1>2, MirrorIs DEF Mirror
<1>6. /\ d.head = IF p = Nil /\ c.head = i THEN s ELSE c.head
      /\ d.tail = IF s = Nil /\ c.tail = i THEN p ELSE c.tail
      /\ d.free = c.free
      /\ \A x \in Idx \ {i} : /\ d.lnext[x] = IF x = p THEN s ELSE c.lnext[x]
                              /\ d.prev[x] = IF x = s THEN p ELSE c.prev[x]
  BY <1>3, LruRemoveFields DEF OnlyLru
<1>7. s = IF k = n THEN Nil ELSE q[k + 1]
  BY <1>1 DEF Runs
<1>8. p = IF h = n THEN Nil ELSE r[h + 1]
  BY <1>2, <1>4, <1>5 DEF Runs
<1>9. c.head = q[1] /\ c.tail = r[1]
  <2>1. q # <<>> /\ r # <<>>
    BY <1>3, <1>4, <1>5
  <2> QED BY <1>1, <1>2, <2>1 DEF Runs
<1> HIDE DEF d, n, p, s
<1>10. k \in 1..n /\ n + 1 - h = k
  BY <1>3 DEF n
<1>11. /\ k = 1 <=> h = n
       /\ k = n <=> h = 1
       /\ k # 1 => h + 1 \in 1..n /\ n + 1 - (h + 1) = k - 1 /\ k - 1 \in 1..n
       /\ h # 1 => h - 1 \in 1..n /\ n + 1 - (h - 1) = k + 1 /\ k + 1 \in 1..n
  BY <1>3, <1>10
<1> HIDE DEF h
<1>12. k # 1 => p = q[k - 1] /\ q[k - 1] \in S
  BY <1>3, <1>5, <1>8, <1>11
<1>13. h # 1 => s = r[h - 1] /\ r[h - 1] \in S
  BY <1>3, <1>5, <1>7, <1>11
<1>14. \A x \in S : x # Nil
  BY <1>3, NilIsNone
<1>15. k = 1 => p = Nil /\ c.head = i
  BY <1>8, <1>9, <1>11
<1>16. h = 1 => s = Nil /\ c.tail = i
  BY <1>4, <1>7, <1>9, <1>11
<1>17. Runs(d.head, d.lnext, Without(q, k))
  <2>1. d.head = IF k = 1 THEN c.lnext[q[k]] ELSE c.head
    BY <1>6, <1>12, <1>14, <1>15 DEF s
  <2>2. \A x \in S \ {q[k]} : d.lnext[x] = IF k # 1 /\ x = q[k - 1] THEN c.lnext[q[k]] ELSE c.lnext[x]
    BY <1>3, <1>6, <1>12, <1>14, <1>15 DEF s
  <2>3. k \in 1..Len(q)
    OBVIOUS
  <2> QED BY <1>1, <2>1, <2>2, <2>3, Spliced
<1>18. Runs(d.tail, d.prev, Without(r, h))
  <2>1. d.tail = IF h = 1 THEN c.prev[r[h]] ELSE c.tail
    BY <1>4, <1>6, <1>13, <1>14, <1>16 DEF p
  <2>2. \A x \in S \ {r[h]} : d.prev[x] = IF h # 1 /\ x = r[h - 1] THEN c.prev[r[h]] ELSE c.prev[x]
    BY <1>3, <1>4, <1>6, <1>13, <1>14, <1>16 DEF p
  <2>3. h \in 1..Len(r)
    BY <1>4, <1>5
  <2> QED BY <1>2, <1>5, <2>1, <2>2, <2>3, Spliced, SMTT(40)
<1>19. Enumerates(Without(q, k), S \ {i})
  BY <1>1, WithoutIs
<1>20. Recent(d, S \ {i}, Without(q, k))
  BY <1>4, <1>17, <1>18, <1>19 DEF Recent
<1>21. Free(d, F)
  <2>1. F \subseteq Idx
    BY Enumeration DEF Free
  <2>2. \A x \in F : x \in Idx \ {i} /\ x # p
    BY <2>1, <1>3, <1>12, <1>15, NilIsNone
  <2> QED BY <1>6, <2>2, FreeKept
<1> QED BY <1>20, <1>21 DEF d

\* What lru_insert_head() writes.
LEMMA LruInsertFields ==
  ASSUME NEW c \in CacheType, NEW i \in Idx, NEW d, d = LruInsertHead(c, i)
  PROVE  /\ d \in CacheType /\ OnlyLru(c, d)
         /\ d.head = i /\ d.tail = IF c.head = Nil THEN i ELSE c.tail
         /\ d.prev[i] = Nil /\ d.lnext[i] = c.head
         /\ \A x \in Idx \ {i} : /\ d.lnext[x] = c.lnext[x]
                                 /\ d.prev[x] = IF x = c.head THEN i ELSE c.prev[x]
<1> DEFINE ln == [c.lnext EXCEPT ![i] = c.head]
           pr == [j \in Idx |-> IF j = i THEN Nil ELSE IF j = c.head THEN i ELSE c.prev[j]]
           tl == IF c.head = Nil THEN i ELSE c.tail
<1>1. d = [c EXCEPT !.prev = pr, !.lnext = ln, !.tail = tl, !.head = i]
  BY DEF LruInsertHead
<1>2. /\ ln \in [Idx -> Links] /\ pr \in [Idx -> Links] /\ tl \in Links /\ i \in Links
      /\ ln[i] = c.head /\ \A x \in Idx \ {i} : ln[x] = c.lnext[x]
  BY DEF CacheType, Links
<1> HIDE DEF ln, pr, tl
<1>3. /\ d \in CacheType /\ OnlyLru(c, d)
      /\ d.lnext = ln /\ d.prev = pr /\ d.head = i /\ d.tail = tl
  BY <1>1, <1>2, ZenonT(40) DEF CacheType, OnlyLru
<1> QED BY <1>2, <1>3 DEF pr, tl

\* lru_insert_head() puts an entry before all others.
LEMMA Inserted ==
  ASSUME NEW c \in CacheType, NEW S, NEW q, Recent(c, S, q), NEW i \in Idx \ S,
         NEW F, Free(c, F), i \notin F
  PROVE  /\ Recent(LruInsertHead(c, i), S \cup {i}, <<i>> \o q)
         /\ Free(LruInsertHead(c, i), F)
<1> DEFINE d == LruInsertHead(c, i)
<1>1. Enumerates(q, S) /\ Runs(c.head, c.lnext, q)
  BY DEF Recent
<1>2. PICK r : Mirror(q, r) /\ Runs(c.tail, c.prev, r)
  BY DEF Recent
<1>3. /\ d.head = i /\ d.tail = IF c.head = Nil THEN i ELSE c.tail
      /\ d.prev[i] = Nil /\ d.lnext[i] = c.head /\ d.free = c.free
      /\ \A x \in Idx \ {i} : /\ d.lnext[x] = c.lnext[x]
                              /\ d.prev[x] = IF x = c.head THEN i ELSE c.prev[x]
  BY LruInsertFields DEF OnlyLru
<1>4. /\ Len(q) \in Nat /\ S \subseteq Idx /\ \A j \in 1..Len(q) : q[j] \in S
      /\ \A x \in S : \E j \in 1..Len(q) : q[j] = x
  BY <1>1, Enumeration
<1>5. Enumerates(r, S) /\ Mirror(<<i>> \o q, Append(r, i)) /\ Len(r) = Len(q)
      /\ \A j \in 1..Len(q) : r[j] = q[Len(q) + 1 - j]
  BY <1>1, <1>2, MirrorIs, MirrorPrepended DEF Mirror
<1> HIDE DEF d
<1>6. Enumerates(<<i>> \o q, S \cup {i}) /\ Runs(i, d.lnext, <<i>> \o q)
  <2>1. \A x \in S : d.lnext[x] = c.lnext[x]
    BY <1>3, <1>4
  <2> QED BY <1>1, <1>3, <2>1, Prepended
<1>7. q = <<>> <=> Len(q) = 0
  BY <1>1 DEF Enumerates
<1>8. r = <<>> <=> Len(q) = 0
  BY <1>5 DEF Enumerates
<1>9. c.head = IF Len(q) = 0 THEN Nil ELSE q[1]
  BY <1>1, <1>7 DEF Runs
<1>10. Len(q) # 0 => c.head # Nil /\ c.head = r[Len(r)]
  <2> DEFINE n == Len(q)
  <2>1. n # 0 => 1 \in 1..n /\ n \in 1..n /\ n + 1 - n = 1
    BY <1>4
  <2> HIDE DEF n
  <2>2. n # 0 => r[n] = q[1] /\ q[1] \in S
    BY <1>4, <1>5, <2>1 DEF n
  <2> QED BY <1>4, <1>5, <1>9, <2>2, NilIsNone DEF n
<1>11. Runs(d.tail, d.prev, Append(r, i))
  <2>1. d.tail = IF r = <<>> THEN i ELSE c.tail
    BY <1>3, <1>8, <1>9, <1>10
  <2>2. \A x \in S : Len(q) # 0
    BY <1>4
  <2>3. \A x \in S : d.prev[x] = IF x = r[Len(r)] THEN i ELSE c.prev[x]
    BY <1>3, <1>4, <1>10, <2>2
  <2> QED BY <1>2, <1>3, <1>5, <2>1, <2>3, AtEnd
<1>12. Recent(d, S \cup {i}, <<i>> \o q)
  BY <1>3, <1>5, <1>6, <1>11 DEF Recent
<1>13. Free(d, F)
  <2>1. F \subseteq Idx
    BY Enumeration DEF Free
  <2>2. \A x \in F : d.lnext[x] = c.lnext[x]
    BY <1>3, <2>1
  <2> QED BY <1>3, <2>2, FreeKept
<1> QED BY <1>12, <1>13 DEF d

\* Changes outside the LRU list do not matter to it.
LEMMA RecentKept ==
  ASSUME NEW c, NEW d, NEW S, NEW q, Recent(c, S, q), d.head = c.head, d.tail = c.tail,
         \A x \in S : d.lnext[x] = c.lnext[x] /\ d.prev[x] = c.prev[x]
  PROVE  Recent(d, S, q)
<1>1. Enumerates(q, S) /\ Runs(c.head, c.lnext, q)
  BY DEF Recent
<1>2. PICK r : Mirror(q, r) /\ Runs(c.tail, c.prev, r)
  BY DEF Recent
<1>3. Enumerates(r, S)
  BY <1>1, <1>2, MirrorIs
<1>4. Runs(d.head, d.lnext, q)
  BY <1>1, RunsKept
<1>5. Runs(d.tail, d.prev, r)
  BY <1>2, <1>3, RunsKept
<1> QED BY <1>1, <1>2, <1>4, <1>5 DEF Recent

\* What cache_pop_free() writes.
LEMMA PopFreeFields ==
  ASSUME NEW c \in CacheType, c.free # Nil, NEW d, d = PopFree(c)
  PROVE  /\ d \in CacheType /\ c.free \in Idx
         /\ d.free = c.lnext[c.free] /\ d.head = c.head /\ d.tail = c.tail
         /\ d.bucket = c.bucket /\ d.next = c.next /\ d.valid = c.valid /\ d.lba = c.lba
         /\ d.data = c.data /\ d.count = c.count /\ d.lastMiss = c.lastMiss /\ d.moved = c.moved
         /\ \A x \in Idx \ {c.free} : d.lnext[x] = c.lnext[x] /\ d.prev[x] = c.prev[x]
<1> DEFINE f == c.free
           ln == [c.lnext EXCEPT ![f] = Nil]
           pr == [c.prev EXCEPT ![f] = Nil]
           fr == c.lnext[f]
<1>1. d = [c EXCEPT !.free = fr, !.lnext = ln, !.prev = pr]
  BY DEF PopFree
<1>2. /\ f \in Idx /\ fr \in Links /\ ln \in [Idx -> Links] /\ pr \in [Idx -> Links]
      /\ \A x \in Idx \ {f} : ln[x] = c.lnext[x] /\ pr[x] = c.prev[x]
  BY DEF CacheType, Links
<1> HIDE DEF ln, pr, fr
<1>3. /\ d \in CacheType /\ d.lnext = ln /\ d.prev = pr /\ d.free = fr
      /\ d.head = c.head /\ d.tail = c.tail
      /\ d.bucket = c.bucket /\ d.next = c.next /\ d.valid = c.valid /\ d.lba = c.lba
      /\ d.data = c.data /\ d.count = c.count /\ d.lastMiss = c.lastMiss /\ d.moved = c.moved
  BY <1>1, <1>2, ZenonT(40) DEF CacheType
<1> QED BY <1>2, <1>3 DEF fr

\* cache_pop_free() takes the first free entry.
LEMMA Popped ==
  ASSUME NEW c \in CacheType, NEW S, NEW q, Recent(c, S, q), NEW F, Free(c, F), F \cap S = {},
         F # {}
  PROVE  /\ c.free \in F /\ c.free # Nil
         /\ Recent(PopFree(c), S, q) /\ Free(PopFree(c), F \ {c.free})
<1> DEFINE d == PopFree(c)
<1>1. PICK t : Enumerates(t, F) /\ Runs(c.free, c.lnext, t)
  BY DEF Free
<1>2. /\ Len(t) \in Nat /\ F \subseteq Idx /\ \A j \in 1..Len(t) : t[j] \in F
      /\ \A x \in F : \E j \in 1..Len(t) : t[j] = x
  BY <1>1, Enumeration
<1>3. 1 \in 1..Len(t) /\ t # <<>>
  BY <1>2
<1>4. c.free = t[1] /\ t[1] \in F /\ c.free # Nil
  BY <1>1, <1>2, <1>3, NilIsNone DEF Runs
<1>5. /\ d.free = c.lnext[c.free] /\ d.head = c.head /\ d.tail = c.tail
      /\ \A x \in Idx \ {c.free} : d.lnext[x] = c.lnext[x] /\ d.prev[x] = c.prev[x]
  BY <1>4, PopFreeFields
<1> HIDE DEF d
<1>6. S \subseteq Idx
  BY Enumeration DEF Recent
<1>7. Recent(d, S, q)
  <2>1. \A x \in S : d.lnext[x] = c.lnext[x] /\ d.prev[x] = c.prev[x]
    BY <1>4, <1>5, <1>6
  <2> QED BY <1>5, <2>1, RecentKept
<1>8. Free(d, F \ {c.free})
  <2> DEFINE k == 1
  <2>1. \A x \in F \ {t[k]} : d.lnext[x] = IF k # 1 /\ x = t[k - 1] THEN c.lnext[t[k]] ELSE c.lnext[x]
    BY <1>2, <1>4, <1>5
  <2>2. d.free = IF k = 1 THEN c.lnext[t[k]] ELSE c.free
    BY <1>4, <1>5
  <2>3. k \in 1..Len(t) /\ t[k] = c.free
    BY <1>3, <1>4
  <2> HIDE DEF k
  <2>4. Runs(d.free, d.lnext, Without(t, k))
    BY <1>1, <2>1, <2>2, <2>3, Spliced
  <2>5. Enumerates(Without(t, k), F \ {c.free})
    BY <1>1, <2>3, WithoutIs
  <2> QED BY <2>4, <2>5 DEF Free
<1> QED BY <1>4, <1>7, <1>8 DEF d

\* Every sector number has its bucket.
LEMMA HashType ==
  \A l \in Lbas : Hash(l) \in Buckets
<1>1. HashSize \in Nat /\ HashSize > 0
  BY CacheAssumption DEF HashSize
<1>2. \A l \in Lbas : l \in Nat
  BY CacheAssumption DEF Lbas
<1> HIDE DEF Lbas
<1>3. \A l \in Nat : l % HashSize \in 0..(HashSize - 1)
  BY <1>1
<1> QED BY <1>2, <1>3 DEF Hash, Buckets

\* The entries of S with a hash value.
Hashed(c, S, b) == {i \in S : Hash(c.lba[i]) = b}

\* Filed, in these terms.
LEMMA FiledIs ==
  ASSUME NEW c, NEW S
  PROVE  Filed(c, S) <=> \A b \in Buckets :
                           \E q : Enumerates(q, Hashed(c, S, b)) /\ Runs(c.bucket[b], c.next, q)
BY DEF Filed, Hashed

\* Changes outside the chains do not matter to them.
LEMMA FiledKept ==
  ASSUME NEW c, NEW d, NEW S, Filed(c, S), d.bucket = c.bucket,
         \A x \in S : d.next[x] = c.next[x] /\ d.lba[x] = c.lba[x]
  PROVE  Filed(d, S)
<1> SUFFICES ASSUME NEW b \in Buckets
             PROVE  \E q : Enumerates(q, Hashed(d, S, b)) /\ Runs(d.bucket[b], d.next, q)
  BY FiledIs
<1>1. PICK q : Enumerates(q, Hashed(c, S, b)) /\ Runs(c.bucket[b], c.next, q)
  BY FiledIs
<1>2. Hashed(d, S, b) = Hashed(c, S, b)
  BY DEF Hashed
<1>3. \A x \in Hashed(c, S, b) : d.next[x] = c.next[x]
  BY DEF Hashed
<1>4. Runs(d.bucket[b], d.next, q)
  BY <1>1, <1>3, RunsKept
<1> QED BY <1>1, <1>2, <1>4

\* What cache_index_insert() writes.
LEMMA InsertIndexFields ==
  ASSUME NEW c \in CacheType, NEW i \in Idx, NEW d, d = InsertIndex(c, i)
  PROVE  LET b == Hash(c.lba[i])
         IN  /\ d \in CacheType /\ OnlyIndex(c, d) /\ b \in Buckets
             /\ d.next[i] = c.bucket[b] /\ \A x \in Idx \ {i} : d.next[x] = c.next[x]
             /\ d.bucket[b] = i /\ \A x \in Buckets \ {b} : d.bucket[x] = c.bucket[x]
<1> DEFINE b == Hash(c.lba[i])
           nx == [c.next EXCEPT ![i] = c.bucket[b]]
           bk == [c.bucket EXCEPT ![b] = i]
<1>1. d = [c EXCEPT !.next = nx, !.bucket = bk]
  BY DEF InsertIndex
<1>2. b \in Buckets
  BY HashType DEF CacheType
<1> HIDE DEF b
<1>3. /\ nx \in [Idx -> Links] /\ bk \in [Buckets -> Links]
      /\ nx[i] = c.bucket[b] /\ \A x \in Idx \ {i} : nx[x] = c.next[x]
      /\ bk[b] = i /\ \A x \in Buckets \ {b} : bk[x] = c.bucket[x]
  BY <1>2 DEF CacheType, Links
<1> HIDE DEF nx, bk
<1>4. d \in CacheType /\ OnlyIndex(c, d) /\ d.next = nx /\ d.bucket = bk
  BY <1>1, <1>3 DEF CacheType, OnlyIndex
<1> QED BY <1>2, <1>3, <1>4 DEF b

\* cache_index_insert() files an entry under its sector.
LEMMA InsertedIndex ==
  ASSUME NEW c \in CacheType, NEW S, Filed(c, S), S \subseteq Idx, NEW i \in Idx \ S
  PROVE  Filed(InsertIndex(c, i), S \cup {i})
<1> DEFINE d == InsertIndex(c, i)
           h == Hash(c.lba[i])
<1>1. /\ h \in Buckets /\ d.lba = c.lba
      /\ d.next[i] = c.bucket[h] /\ \A x \in Idx \ {i} : d.next[x] = c.next[x]
      /\ d.bucket[h] = i /\ \A x \in Buckets \ {h} : d.bucket[x] = c.bucket[x]
  BY InsertIndexFields DEF OnlyIndex
<1> HIDE DEF d
<1> SUFFICES ASSUME NEW b \in Buckets
             PROVE  \E q : Enumerates(q, Hashed(d, S \cup {i}, b)) /\ Runs(d.bucket[b], d.next, q)
  BY FiledIs DEF d
<1>2. PICK q : Enumerates(q, Hashed(c, S, b)) /\ Runs(c.bucket[b], c.next, q)
  BY FiledIs
<1>3. /\ Hashed(c, S, b) \subseteq S
      /\ Hashed(d, S \cup {i}, b) = IF b = h THEN Hashed(c, S, b) \cup {i} ELSE Hashed(c, S, b)
  BY <1>1 DEF Hashed
<1>4. \A x \in Hashed(c, S, b) : d.next[x] = c.next[x]
  BY <1>1, <1>3
<1>5. i \in Idx \ Hashed(c, S, b)
  BY <1>3
<1> HIDE DEF h
<1>6. CASE b = h
  <2>1. Enumerates(<<i>> \o q, Hashed(c, S, b) \cup {i}) /\ Runs(i, d.next, <<i>> \o q)
    BY <1>1, <1>2, <1>4, <1>5, <1>6, Prepended
  <2> QED BY <1>1, <1>3, <1>6, <2>1
<1>7. CASE b # h
  <2>1. Runs(d.bucket[b], d.next, q)
    BY <1>1, <1>2, <1>4, <1>7, RunsKept
  <2> QED BY <1>2, <1>3, <1>7, <2>1
<1> QED BY <1>6, <1>7

\* The chain of a bucket, followed.
LEMMA ChainIs ==
  ASSUME NEW c, NEW S, Filed(c, S), NEW l \in Lbas
  PROVE  \E q : /\ Enumerates(q, Hashed(c, S, Hash(l))) /\ Runs(c.bucket[Hash(l)], c.next, q)
                /\ Len(q) \in 0..Capacity
                /\ \A n \in 0..Capacity : Chain(c, l)[n] = IF n < Len(q) THEN q[n + 1] ELSE Nil
<1>1. Hash(l) \in Buckets
  BY HashType
<1>2. PICK q : Enumerates(q, Hashed(c, S, Hash(l))) /\ Runs(c.bucket[Hash(l)], c.next, q)
  BY <1>1, FiledIs
<1>3. \A n \in 0..Capacity :
        Follow(c.bucket[Hash(l)], c.next)[n] = IF n < Len(q) THEN q[n + 1] ELSE Nil
  BY <1>2, FollowIs
<1>4. Len(q) \in 0..Capacity
  BY <1>2, EnumerationLength
<1> QED BY <1>2, <1>3, <1>4 DEF Chain

\* A list followed along a sequence, and the places at which it has an entry.
Along(at, q) == \A n \in 0..Capacity : at[n] = IF n < Len(q) THEN q[n + 1] ELSE Nil
HitsOn(at, i, hits) == \A n : n \in hits <=> n \in 0..Capacity /\ at[n] # Nil /\ at[n] = i

\* The place of an entry on its chain.
LEMMA PositionIs ==
  ASSUME NEW q, NEW S, Enumerates(q, S), Len(q) \in 0..Capacity, NEW at, Along(at, q),
         NEW k \in 1..Len(q), NEW hits, HitsOn(at, q[k], hits)
  PROVE  hits # {} /\ Min(hits) = k - 1
<1> DEFINE N == Len(q)
           i == q[k]
<1>1. /\ N \in 0..Capacity /\ Capacity \in Nat /\ k \in 1..N
      /\ \A n \in 0..Capacity : at[n] = IF n < N THEN q[n + 1] ELSE Nil
  BY CacheAssumption DEF Along
<1>2. /\ \A n, j \in 1..N : q[n] = q[j] => n = j
      /\ i # Nil
  BY Enumeration, NilIsNone
<1>a. \A n : n \in hits <=> n \in 0..Capacity /\ at[n] # Nil /\ at[n] = i
  BY DEF HitsOn
<1> HIDE DEF N, i
<1>3. k - 1 \in 0..Capacity /\ k - 1 < N /\ (k - 1) + 1 = k
  BY <1>1
<1>4. at[k - 1] = i
  BY <1>1, <1>3 DEF i
<1>5. ASSUME NEW n \in 0..Capacity, at[n] = i PROVE n = k - 1
  <2>1. n < N
    BY <1>1, <1>2, <1>5
  <2>2. n + 1 \in 1..N /\ q[n + 1] = q[k]
    BY <1>1, <1>5, <2>1 DEF i
  <2>3. n + 1 = k
    BY <1>1, <1>2, <2>2
  <2> QED BY <1>1, <2>3
<1>6. hits = {k - 1}
  BY <1>2, <1>3, <1>4, <1>5, <1>a
<1>7. Min(hits) = k - 1
  <2>1. \A x \in hits : x = k - 1
    BY <1>6
  <2>2. \E x \in hits : \A y \in hits : x <= y
    BY <1>1, <1>6
  <2>3. Min(hits) \in hits
    BY <2>2 DEF Min
  <2> QED BY <2>1, <2>3
<1> QED BY <1>6, <1>7

\* What cache_index_remove() writes for the k-th entry of its chain.
LEMMA RemoveIndexFields ==
  ASSUME NEW c \in CacheType, NEW S, Filed(c, S), S \subseteq Idx, NEW i \in S
  PROVE  /\ RemoveIndex(c, i) \in CacheType /\ OnlyIndex(c, RemoveIndex(c, i))
         /\ Filed(RemoveIndex(c, i), S \ {i})
<1> DEFINE d == RemoveIndex(c, i)
           h == Hash(c.lba[i])
           at == Chain(c, c.lba[i])
<1>1. c.lba[i] \in Lbas /\ h \in Buckets
  BY HashType DEF CacheType
<1>2. PICK q : /\ Enumerates(q, Hashed(c, S, h)) /\ Runs(c.bucket[h], c.next, q)
               /\ Len(q) \in 0..Capacity
               /\ \A n \in 0..Capacity : at[n] = IF n < Len(q) THEN q[n + 1] ELSE Nil
  BY <1>1, ChainIs
<1>3. i \in Hashed(c, S, h)
  BY DEF Hashed
<1>4. /\ Len(q) \in Nat /\ \A j \in 1..Len(q) : q[j] \in Hashed(c, S, h)
      /\ \A x \in Hashed(c, S, h) : \E j \in 1..Len(q) : q[j] = x
  BY <1>2, Enumeration
<1>5. PICK k \in 1..Len(q) : q[k] = i
  BY <1>3, <1>4
<1>6. Position(at, LAMBDA j : j = i) = k - 1
  <2> DEFINE hits == {n \in 0..Capacity : at[n] # Nil /\ at[n] = i}
  <2>1. Position(at, LAMBDA j : j = i) = IF hits = {} THEN -1 ELSE Min(hits)
    BY DEF Position
  <2>2. HitsOn(at, q[k], hits) /\ Along(at, q)
    BY <1>2, <1>5 DEF HitsOn, Along
  <2> HIDE DEF at, h, hits
  <2>3. hits # {} /\ Min(hits) = k - 1
    BY <1>2, <2>2, PositionIs
  <2> QED BY <2>1, <2>3
<1> DEFINE one == [c EXCEPT !.bucket[h] = c.next[i], !.next[i] = Nil]
           far == [c EXCEPT !.next = [@ EXCEPT ![at[k - 1 - 1]] = c.next[i], ![i] = Nil]]
<1>7. d = IF k = 1 THEN one ELSE far
  <2>1. k - 1 # -1 /\ (k - 1 = 0 <=> k = 1) /\ (k - 1 > 0 <=> k # 1)
    BY <1>4
  <2> QED BY <1>6, <2>1 DEF RemoveIndex
<1>8. /\ d \in CacheType /\ OnlyIndex(c, d)
      /\ d.bucket[h] = IF k = 1 THEN c.next[q[k]] ELSE c.bucket[h]
      /\ \A x \in Buckets \ {h} : d.bucket[x] = c.bucket[x]
      /\ \A x \in Idx \ {i} : d.next[x] = IF k # 1 /\ x = q[k - 1] THEN c.next[q[k]] ELSE c.next[x]
  <2>1. CASE k = 1
    <3> DEFINE bk == [c.bucket EXCEPT ![h] = c.next[i]]
               nx == [c.next EXCEPT ![i] = Nil]
    <3>1. d = [c EXCEPT !.bucket = bk, !.next = nx]
      BY <1>7, <2>1
    <3> HIDE DEF h
    <3>2. /\ bk \in [Buckets -> Links] /\ nx \in [Idx -> Links] /\ bk[h] = c.next[i]
          /\ \A x \in Buckets \ {h} : bk[x] = c.bucket[x]
          /\ \A x \in Idx \ {i} : nx[x] = c.next[x]
      BY <1>1 DEF CacheType, Links
    <3> HIDE DEF bk, nx
    <3>3. d \in CacheType /\ OnlyIndex(c, d) /\ d.bucket = bk /\ d.next = nx
      BY <3>1, <3>2 DEF CacheType, OnlyIndex
    <3> QED BY <1>5, <2>1, <3>2, <3>3
  <2>2. CASE k # 1
    <3>1. k - 1 - 1 \in 0..Capacity /\ k - 1 - 1 < Len(q) /\ (k - 1 - 1) + 1 = k - 1 /\ k - 1 \in 1..Len(q)
      BY <1>2, <1>4, <2>2, CacheAssumption
    <3>2. at[k - 1 - 1] = q[k - 1]
      BY <1>2, <3>1
    <3> DEFINE p == q[k - 1]
               nx == [c.next EXCEPT ![p] = c.next[i], ![i] = Nil]
    <3>3. d = [c EXCEPT !.next = nx]
      BY <1>7, <2>2, <3>2
    <3>4. p \in Idx
      BY <1>4, <3>1 DEF Hashed
    <3> HIDE DEF p
    <3>5. /\ nx \in [Idx -> Links]
          /\ \A x \in Idx \ {i} : nx[x] = IF x = p THEN c.next[i] ELSE c.next[x]
      BY <3>4 DEF CacheType, Links
    <3> HIDE DEF nx
    <3>6. d \in CacheType /\ OnlyIndex(c, d) /\ d.bucket = c.bucket /\ d.next = nx
      BY <3>3, <3>5 DEF CacheType, OnlyIndex
    <3> QED BY <1>5, <2>2, <3>5, <3>6 DEF p
  <2> QED BY <2>1, <2>2
<1> HIDE DEF d, at
<1>9. ASSUME NEW b \in Buckets
      PROVE  \E t : Enumerates(t, Hashed(d, S \ {i}, b)) /\ Runs(d.bucket[b], d.next, t)
  <2>1. CASE b = h
    <3>1. Hashed(d, S \ {i}, b) = Hashed(c, S, h) \ {i}
      BY <1>8, <2>1 DEF Hashed, OnlyIndex
    <3> DEFINE T == Hashed(c, S, h)
    <3>2. T \subseteq Idx
      BY DEF Hashed
    <3> HIDE DEF T, h
    <3>3. Enumerates(q, T) /\ Runs(c.bucket[h], c.next, q)
      BY <1>2 DEF T
    <3>4. \A x \in T \ {q[k]} : d.next[x] = IF k # 1 /\ x = q[k - 1] THEN c.next[q[k]] ELSE c.next[x]
      BY <1>5, <1>8, <3>2
    <3>5. d.bucket[h] = IF k = 1 THEN c.next[q[k]] ELSE c.bucket[h]
      BY <1>8
    <3>6. Runs(d.bucket[h], d.next, Without(q, k))
      BY <3>3, <3>4, <3>5, Spliced
    <3>7. Enumerates(Without(q, k), T \ {i})
      BY <1>5, <3>3, WithoutIs
    <3> QED BY <2>1, <3>1, <3>6, <3>7 DEF T
  <2>2. CASE b # h
    <3>1. PICK t : Enumerates(t, Hashed(c, S, b)) /\ Runs(c.bucket[b], c.next, t)
      BY FiledIs
    <3>2. Hashed(d, S \ {i}, b) = Hashed(c, S, b)
      BY <1>8, <2>2 DEF Hashed, OnlyIndex
    <3>3. k # 1 => q[k - 1] \in Hashed(c, S, h)
      <4>1. k # 1 => k - 1 \in 1..Len(q)
        BY <1>4
      <4> QED BY <1>4, <4>1
    <3>4. \A x \in Hashed(c, S, b) : x \in Idx \ {i} /\ x \notin Hashed(c, S, h)
      BY <2>2 DEF Hashed
    <3> HIDE DEF h
    <3>5. \A x \in Hashed(c, S, b) : d.next[x] = c.next[x]
      BY <1>8, <3>3, <3>4
    <3>6. Runs(d.bucket[b], d.next, t)
      BY <1>8, <2>2, <3>1, <3>5, RunsKept
    <3> QED BY <3>1, <3>2, <3>6
  <2> QED BY <2>1, <2>2
<1>10. Filed(d, S \ {i})
  BY <1>9, FiledIs
<1> QED BY <1>8, <1>10 DEF d

\* cache_find_index() finds a sector if and only if an entry holds it.
LEMMA Found ==
  ASSUME NEW c \in CacheType, Filed(c, c.valid), NEW l \in Lbas
  PROVE  \/ /\ FindIndex(c, l) = Nil /\ \A i \in c.valid : c.lba[i] # l
         \/ /\ FindIndex(c, l) \in c.valid /\ c.lba[FindIndex(c, l)] = l
<1> DEFINE at == Chain(c, l)
           T == Hashed(c, c.valid, Hash(l))
           hits == {n \in 0..Capacity : at[n] # Nil /\ at[n] \in c.valid /\ c.lba[at[n]] = l}
           m == Min(hits)
<1>1. PICK q : /\ Enumerates(q, T) /\ Len(q) \in 0..Capacity
               /\ \A n \in 0..Capacity : at[n] = IF n < Len(q) THEN q[n + 1] ELSE Nil
  BY ChainIs
<1>2. FindIndex(c, l) = IF (IF hits = {} THEN -1 ELSE m) = -1 THEN Nil
                        ELSE at[IF hits = {} THEN -1 ELSE m]
  BY DEF FindIndex, Position
<1>3. CASE hits = {}
  <2>1. FindIndex(c, l) = Nil
    BY <1>2, <1>3
  <2>2. ASSUME NEW i \in c.valid, c.lba[i] = l PROVE FALSE
    <3>1. i \in T
      BY <2>2 DEF Hashed
    <3> HIDE DEF T
    <3>2. PICK k \in 1..Len(q) : q[k] = i
      BY <1>1, <3>1, Enumeration
    <3>3. k - 1 \in 0..Capacity /\ k - 1 < Len(q) /\ (k - 1) + 1 = k
      BY <1>1, CacheAssumption
    <3>4. at[k - 1] = i
      BY <1>1, <3>2, <3>3
    <3>5. i # Nil
      BY NilIsNone DEF CacheType
    <3>6. k - 1 \in hits
      BY <2>2, <3>3, <3>4, <3>5
    <3> QED BY <1>3, <3>6
  <2> QED BY <2>1, <2>2
<1>4. CASE hits # {}
  <2>1. hits \subseteq Nat
    BY CacheAssumption
  <2> HIDE DEF hits
  <2>2. \E x \in hits : \A y \in hits : x <= y
    BY <1>4, <2>1, Installing!LeastElement
  <2>3. m \in hits
    BY <2>2 DEF Min
  <2>4. m # -1
    BY <2>1, <2>3
  <2> HIDE DEF m
  <2>5. FindIndex(c, l) = at[m]
    BY <1>2, <1>4, <2>4
  <2> QED BY <2>3, <2>5 DEF hits
<1> QED BY <1>3, <1>4

-----------------------------------------------------------------------------
(* The whole cache.                                                        *)

\* Two caches with the same links.
SameLinks(c, d) ==
  /\ d.bucket = c.bucket /\ d.next = c.next /\ d.lnext = c.lnext /\ d.prev = c.prev
  /\ d.head = c.head /\ d.tail = c.tail /\ d.free = c.free
  /\ d.valid = c.valid /\ d.lba = c.lba /\ d.count = c.count

\* Buffers, the last miss and the generation are not part of the links.
LEMMA ShapeKept ==
  ASSUME NEW c, NEW d \in CacheType, NEW q, Shape(c, q), SameLinks(c, d)
  PROVE  Shape(d, q)
<1>1. Recent(d, d.valid, q) /\ Free(d, Idx \ d.valid)
  BY DEF Shape, SameLinks, Recent, Free
<1>2. Filed(d, d.valid) /\ d.count = Cardinality(d.valid) /\ Distinct(d)
  BY DEF Shape, SameLinks, Filed, Distinct
<1> QED BY <1>1, <1>2 DEF Shape

\* The entries are as many as the capacity says.
LEMMA IdxSize ==
  IsFiniteSet(Idx) /\ Cardinality(Idx) = Capacity
<1>1. 0 \in Int /\ Capacity - 1 \in Int /\ 0 <= Capacity - 1 /\ (Capacity - 1) - 0 + 1 = Capacity
  BY CacheAssumption
<1>2. IsFiniteSet(0..(Capacity - 1)) /\ Cardinality(0..(Capacity - 1)) = (Capacity - 1) - 0 + 1
  BY <1>1, FS_Interval
<1> QED BY <1>1, <1>2 DEF Idx

\* lru_make_mru() moves an entry to the front.
LEMMA Moved ==
  ASSUME NEW c, NEW q, Shape(c, q), NEW k \in 1..Len(q), c.head # q[k]
  PROVE  /\ LruMakeMru(c, q[k]) \in CacheType /\ OnlyLru(c, LruMakeMru(c, q[k]))
         /\ Shape(LruMakeMru(c, q[k]), <<q[k]>> \o Without(q, k))
<1> DEFINE i == q[k]
           a == LruRemove(c, i)
           d == LruInsertHead(a, i)
           t == Without(q, k)
           S == c.valid \ {i}
           F == Idx \ c.valid
<1>1. LruMakeMru(c, i) = d
  BY DEF LruMakeMru
<1>2. c \in CacheType /\ Recent(c, c.valid, q) /\ Free(c, F) /\ Filed(c, c.valid)
  BY DEF Shape
<1>3. i \in c.valid /\ c.valid \subseteq Idx
  BY <1>2, Enumeration DEF Recent
<1>4. a \in CacheType /\ OnlyLru(c, a)
  BY <1>2, <1>3, LruRemoveFields
<1>5. Recent(a, S, t) /\ Free(a, F)
  <2>1. F \cap c.valid = {}
    OBVIOUS
  <2> HIDE DEF F, t
  <2> QED BY <1>2, <1>3, <2>1, Removed DEF t
<1> HIDE DEF a
<1>6. d \in CacheType /\ OnlyLru(a, d)
  BY <1>3, <1>4, LruInsertFields
<1>7. Recent(d, S \cup {i}, <<i>> \o t) /\ Free(d, F)
  <2>1. i \in Idx \ S /\ i \notin F
    BY <1>3
  <2> HIDE DEF S, F, t, i
  <2> QED BY <1>4, <1>5, <2>1, Inserted
<1>8. S \cup {i} = c.valid
  BY <1>3
<1> HIDE DEF d
<1>9. OnlyLru(c, d)
  BY <1>4, <1>6 DEF OnlyLru
<1>10. Filed(d, c.valid)
  BY <1>2, <1>9, FiledKept DEF OnlyLru
<1>11. Shape(d, <<i>> \o t)
  <2> HIDE DEF t, S, i
  <2>1. Recent(d, d.valid, <<i>> \o t) /\ Free(d, Idx \ d.valid) /\ Filed(d, d.valid)
    BY <1>7, <1>8, <1>9, <1>10 DEF OnlyLru
  <2>2. d.count = Cardinality(d.valid) /\ Distinct(d)
    BY <1>9 DEF OnlyLru, Shape, Distinct
  <2> QED BY <1>6, <2>1, <2>2 DEF Shape
<1> QED BY <1>1, <1>6, <1>9, <1>11

\* The second half of cache_commit(): an entry on no list gets a sector.
Refile(c, i, l) ==
  LruInsertHead(InsertIndex([c EXCEPT !.lba[i] = l, !.valid = @ \cup {i}], i), i)

\* The entry is on all lists it belongs on, and nothing else has changed.
RefiledAs(c, S, t, F, i, l, e) ==
  /\ e \in CacheType /\ Recent(e, S \cup {i}, <<i>> \o t) /\ Free(e, F)
  /\ Filed(e, S \cup {i}) /\ e.valid = c.valid \cup {i}
  /\ e.lba[i] = l /\ \A x \in Idx \ {i} : e.lba[x] = c.lba[x]
  /\ e.data = c.data /\ e.count = c.count /\ e.lastMiss = c.lastMiss
  /\ e.moved = c.moved

\* That is what the second half does.
LEMMA Refiled ==
  ASSUME NEW c \in CacheType, NEW S, NEW t, NEW F, NEW i \in Idx \ S, i \notin F, NEW l \in Lbas,
         Recent(c, S, t), Free(c, F), Filed(c, S)
  PROVE  RefiledAs(c, S, t, F, i, l, Refile(c, i, l))
<1> DEFINE lb == [c.lba EXCEPT ![i] = l]
           vl == c.valid \cup {i}
           a == [c EXCEPT !.lba = lb, !.valid = vl]
           b == InsertIndex(a, i)
           d == LruInsertHead(b, i)
<1>1. d = Refile(c, i, l)
  BY DEF Refile
<1>2. /\ lb \in [Idx -> Lbas] /\ vl \in SUBSET Idx
      /\ lb[i] = l /\ \A x \in Idx \ {i} : lb[x] = c.lba[x]
  BY DEF CacheType
<1>3. S \subseteq Idx /\ F \subseteq Idx
  BY Enumeration DEF Recent, Free
<1> HIDE DEF lb, vl
<1>4. /\ a \in CacheType /\ a.lba = lb /\ a.valid = vl
      /\ a.bucket = c.bucket /\ a.next = c.next /\ a.lnext = c.lnext /\ a.prev = c.prev
      /\ a.head = c.head /\ a.tail = c.tail /\ a.free = c.free
      /\ a.data = c.data /\ a.count = c.count /\ a.lastMiss = c.lastMiss /\ a.moved = c.moved
  BY <1>2 DEF CacheType
<1> HIDE DEF a
<1>5. Recent(a, S, t) /\ Free(a, F)
  BY <1>4 DEF Recent, Free
<1>6. Filed(a, S)
  <2>1. \A x \in S : a.next[x] = c.next[x] /\ a.lba[x] = c.lba[x]
    BY <1>2, <1>3, <1>4
  <2> QED BY <1>4, <2>1, FiledKept
<1>7. b \in CacheType /\ OnlyIndex(a, b)
  BY <1>4, InsertIndexFields
<1>8. Filed(b, S \cup {i})
  BY <1>3, <1>4, <1>6, InsertedIndex
<1> HIDE DEF b
<1>9. Recent(b, S, t) /\ Free(b, F)
  BY <1>5, <1>7 DEF OnlyIndex, Recent, Free
<1>10. d \in CacheType /\ OnlyLru(b, d)
  BY <1>7, LruInsertFields
<1>11. Recent(d, S \cup {i}, <<i>> \o t) /\ Free(d, F)
  BY <1>7, <1>9, Inserted
<1> HIDE DEF d
<1>12. Filed(d, S \cup {i})
  <2> DEFINE T == S \cup {i}
  <2> HIDE DEF T
  <2>1. Filed(b, T)
    BY <1>8 DEF T
  <2>2. d.bucket = b.bucket /\ \A x \in T : d.next[x] = b.next[x] /\ d.lba[x] = b.lba[x]
    BY <1>10 DEF OnlyLru
  <2>3. Filed(d, T)
    BY <2>1, <2>2, FiledKept
  <2> QED BY <2>3 DEF T
<1>13. /\ d.valid = vl /\ d.lba = lb /\ d.data = c.data /\ d.count = c.count
       /\ d.lastMiss = c.lastMiss /\ d.moved = c.moved
  BY <1>4, <1>7, <1>10 DEF OnlyIndex, OnlyLru
<1>14. /\ d \in CacheType /\ Recent(d, S \cup {i}, <<i>> \o t) /\ Free(d, F)
       /\ Filed(d, S \cup {i}) /\ d.valid = c.valid \cup {i}
       /\ d.lba[i] = l /\ \A x \in Idx \ {i} : d.lba[x] = c.lba[x]
       /\ d.data = c.data /\ d.count = c.count /\ d.lastMiss = c.lastMiss
       /\ d.moved = c.moved
  BY <1>2, <1>10, <1>11, <1>12, <1>13 DEF vl
<1> QED BY <1>1, <1>14 DEF RefiledAs

\* The entry cache_reserve() names, and how cache_commit() clears it: a free
\* one leaves the free list, otherwise the least recent one is evicted.
Cleared(c, q, i, r, S, t, F) ==
  /\ r \in CacheType /\ i \in Idx \ S /\ i \notin F
  /\ Recent(r, S, t) /\ Free(r, F) /\ Filed(r, S)
  /\ r.valid = c.valid /\ r.lba = c.lba /\ r.data = c.data /\ r.lastMiss = c.lastMiss
  /\ S = c.valid \ {i} /\ F = Idx \ (c.valid \cup {i})
  /\ r.count = Cardinality(c.valid \cup {i})

\* The first half of cache_commit() for a free entry.
Pop(c) == [PopFree(c) EXCEPT !.count = @ + 1]

\* A cache that is not full.
LEMMA FreeTaken ==
  ASSUME NEW c, NEW q, Shape(c, q), Len(q) < Capacity,
         NEW r, r = Pop(c)
  PROVE  /\ Reserve(c) = c.free /\ c.free \in Idx \ c.valid
         /\ Cleared(c, q, c.free, r, c.valid, q, (Idx \ c.valid) \ {c.free})
         /\ r.moved = c.moved
<1> DEFINE F == Idx \ c.valid
           i == c.free
           a == PopFree(c)
<1>1. /\ c \in CacheType /\ Recent(c, c.valid, q) /\ Free(c, F) /\ Filed(c, c.valid)
      /\ c.count = Cardinality(c.valid)
  BY DEF Shape
<1>2. IsFiniteSet(c.valid) /\ Cardinality(c.valid) = Len(q) /\ Len(q) \in 0..Capacity
  BY <1>1, EnumerationLength DEF Recent
<1>3. c.valid \subseteq Idx
  BY <1>1 DEF CacheType
<1>4. c.valid # Idx
  BY <1>2, IdxSize, CacheAssumption
<1>5. F # {} /\ F \cap c.valid = {}
  BY <1>3, <1>4
<1> HIDE DEF F
<1>6. i \in F /\ i # Nil /\ Recent(a, c.valid, q) /\ Free(a, F \ {i})
  BY <1>1, <1>5, Popped
<1>7. /\ a \in CacheType /\ a.bucket = c.bucket /\ a.next = c.next /\ a.valid = c.valid
      /\ a.lba = c.lba /\ a.data = c.data /\ a.count = c.count /\ a.lastMiss = c.lastMiss
      /\ a.moved = c.moved
  BY <1>1, <1>6, PopFreeFields
<1>8. Reserve(c) = i
  BY <1>1, <1>2 DEF Reserve
<1> DEFINE m == c.count + 1
<1>9. r = [a EXCEPT !.count = m] /\ m \in Nat
  BY <1>1, <1>2, <1>7 DEF CacheType, Pop
<1> HIDE DEF m, a
<1>10. /\ r \in CacheType /\ r.count = m
       /\ r.bucket = a.bucket /\ r.next = a.next /\ r.lnext = a.lnext /\ r.prev = a.prev
       /\ r.head = a.head /\ r.tail = a.tail /\ r.free = a.free /\ r.valid = a.valid
       /\ r.lba = a.lba /\ r.data = a.data /\ r.lastMiss = a.lastMiss /\ r.moved = a.moved
  BY <1>7, <1>9 DEF CacheType
<1>11. Recent(r, c.valid, q) /\ Free(r, F \ {i})
  BY <1>6, <1>10 DEF Recent, Free
<1>12. Filed(r, c.valid)
  <2>1. r.bucket = c.bucket /\ \A x \in c.valid : r.next[x] = c.next[x] /\ r.lba[x] = c.lba[x]
    BY <1>7, <1>10
  <2> QED BY <1>1, <2>1, FiledKept
<1>13. i \in Idx \ c.valid /\ i \notin c.valid
  BY <1>6 DEF F
<1>14. Cardinality(c.valid \cup {i}) = Cardinality(c.valid) + 1
  BY <1>2, <1>13, FS_AddElement
<1>15. r.count = Cardinality(c.valid \cup {i})
  BY <1>1, <1>10, <1>14 DEF m
<1>16. /\ c.valid = c.valid \ {i} /\ F \ {i} = Idx \ (c.valid \cup {i}) /\ i \notin F \ {i}
  BY <1>13 DEF F
<1>17. Cleared(c, q, i, r, c.valid, q, F \ {i})
  BY <1>7, <1>10, <1>11, <1>12, <1>13, <1>15, <1>16 DEF Cleared
<1> QED BY <1>7, <1>8, <1>10, <1>13, <1>17 DEF F

\* A full cache.
LEMMA TailEvicted ==
  ASSUME NEW c, NEW q, Shape(c, q), Len(q) = Capacity, NEW r, r = Evict(c, c.tail)
  PROVE  /\ Reserve(c) = c.tail /\ c.tail = q[Len(q)] /\ c.tail \in c.valid
         /\ Cleared(c, q, c.tail, r, c.valid \ {c.tail}, Without(q, Len(q)), Idx \ c.valid)
         /\ r.moved = TRUE
<1> DEFINE F == Idx \ c.valid
           n == Len(q)
           i == c.tail
           S == c.valid \ {i}
           t == Without(q, n)
           a == RemoveIndex(c, i)
           b == LruRemove(a, i)
<1>1. /\ c \in CacheType /\ Recent(c, c.valid, q) /\ Free(c, F) /\ Filed(c, c.valid)
      /\ c.count = Cardinality(c.valid) /\ c.valid \subseteq Idx
  BY DEF Shape, CacheType
<1>2. IsFiniteSet(c.valid) /\ Cardinality(c.valid) = n /\ n \in 1..n
  BY <1>1, EnumerationLength, CacheAssumption DEF Recent
<1>3. PICK s : Mirror(q, s) /\ Runs(c.tail, c.prev, s)
  BY <1>1 DEF Recent
<1>4. s # <<>> /\ s[1] = q[n]
  <2>1. n >= 1 /\ 1 \in 1..n /\ n + 1 - 1 = n
    BY <1>2
  <2>2. Len(s) = n /\ s[1] = q[n + 1 - 1]
    BY <1>3, <2>1 DEF Mirror
  <2> QED BY <2>1, <2>2
<1>5. i = q[n] /\ i \in c.valid
  <2>1. i = q[n]
    BY <1>3, <1>4 DEF Runs
  <2>2. \A j \in 1..Len(q) : q[j] \in c.valid
    BY <1>1, Enumeration DEF Recent
  <2> QED BY <1>2, <2>1, <2>2
<1>6. Reserve(c) = i
  BY <1>1, <1>2, CacheAssumption DEF Reserve
<1>7. a \in CacheType /\ OnlyIndex(c, a) /\ Filed(a, S)
  BY <1>1, <1>5, RemoveIndexFields
<1> HIDE DEF a
<1>8. Recent(a, c.valid, q) /\ Free(a, F)
  BY <1>1, <1>7 DEF Recent, Free, OnlyIndex
<1>9. b \in CacheType /\ OnlyLru(a, b)
  BY <1>1, <1>5, <1>7, LruRemoveFields
<1>10. Recent(b, S, t) /\ Free(b, F)
  <2>1. F \cap c.valid = {} /\ n \in 1..Len(q) /\ q[n] = i
    BY <1>2, <1>5
  <2> HIDE DEF F, n, i
  <2> QED BY <1>5, <1>7, <1>8, <2>1, Removed
<1> HIDE DEF b
<1>11. Filed(b, S)
  BY <1>7, <1>9, FiledKept DEF OnlyLru
<1>12. r = [b EXCEPT !.moved = TRUE]
  BY DEF Evict, b, a
<1>13. /\ r \in CacheType /\ r.moved = TRUE /\ r.count = b.count
       /\ r.bucket = b.bucket /\ r.next = b.next /\ r.lnext = b.lnext /\ r.prev = b.prev
       /\ r.head = b.head /\ r.tail = b.tail /\ r.free = b.free /\ r.valid = b.valid
       /\ r.lba = b.lba /\ r.data = b.data /\ r.lastMiss = b.lastMiss
  BY <1>9, <1>12 DEF CacheType
<1>14. Recent(r, S, t) /\ Free(r, F) /\ Filed(r, S)
  BY <1>10, <1>11, <1>13 DEF Recent, Free, Filed
<1>15. /\ r.valid = c.valid /\ r.lba = c.lba /\ r.data = c.data /\ r.lastMiss = c.lastMiss
       /\ r.count = c.count
  BY <1>7, <1>9, <1>13 DEF OnlyIndex, OnlyLru
<1>16. /\ c.valid \cup {i} = c.valid /\ i \in Idx \ S /\ i \notin F
  BY <1>1, <1>5
<1>17. Cleared(c, q, i, r, S, t, F)
  BY <1>1, <1>13, <1>14, <1>15, <1>16 DEF Cleared
<1> QED BY <1>5, <1>6, <1>13, <1>17

\* What cache_commit() of an uncached sector does to a cache in order q: the
\* entry becomes the first; a full cache loses the last one, and then the
\* generation moves.
Takes(c, q, i, l, d, u) ==
  /\ Shape(d, u) /\ i \in Idx /\ i \in d.valid
  /\ d.valid = c.valid \cup {i} /\ d.lba[i] = l /\ \A x \in Idx \ {i} : d.lba[x] = c.lba[x]
  /\ d.data = c.data /\ d.lastMiss = c.lastMiss
  /\ Len(u) = (IF Len(q) < Capacity THEN Len(q) + 1 ELSE Capacity)
  /\ u[1] = i /\ \A n \in 2..Len(u) : u[n] = q[n - 1] /\ u[n] # i
  /\ i \in c.valid => d.moved

\* The second half of cache_commit(), after either first half.
LEMMA Settled ==
  ASSUME NEW c, NEW q, Shape(c, q), NEW l \in Lbas, \A x \in c.valid : c.lba[x] # l,
         NEW i, NEW r, NEW S, NEW t, NEW F, Cleared(c, q, i, r, S, t, F),
         NEW d, d = Refile(r, i, l)
  PROVE  /\ Shape(d, <<i>> \o t) /\ d.valid = c.valid \cup {i} /\ d.lba[i] = l
         /\ \A x \in Idx \ {i} : d.lba[x] = c.lba[x]
         /\ d.data = c.data /\ d.lastMiss = c.lastMiss /\ d.moved = r.moved
<1>1. /\ r \in CacheType /\ i \in Idx \ S /\ i \notin F
      /\ Recent(r, S, t) /\ Free(r, F) /\ Filed(r, S)
      /\ r.valid = c.valid /\ r.lba = c.lba /\ r.data = c.data /\ r.lastMiss = c.lastMiss
      /\ S = c.valid \ {i} /\ F = Idx \ (c.valid \cup {i})
      /\ r.count = Cardinality(c.valid \cup {i})
  BY DEF Cleared
<1>a. /\ r \in CacheType /\ i \in Idx \ S /\ i \notin F
      /\ Recent(r, S, t) /\ Free(r, F) /\ Filed(r, S)
  BY <1>1
<1>2. /\ d \in CacheType /\ Recent(d, S \cup {i}, <<i>> \o t) /\ Free(d, F)
      /\ Filed(d, S \cup {i}) /\ d.valid = r.valid \cup {i}
      /\ d.lba[i] = l /\ \A x \in Idx \ {i} : d.lba[x] = r.lba[x]
      /\ d.data = r.data /\ d.count = r.count /\ d.lastMiss = r.lastMiss
      /\ d.moved = r.moved
  <2>1. RefiledAs(r, S, t, F, i, l, Refile(r, i, l))
    BY <1>a, Refiled
  <2> QED BY <2>1 DEF RefiledAs
<1>3. S \cup {i} = d.valid /\ F = Idx \ d.valid /\ d.count = Cardinality(d.valid)
  BY <1>1, <1>2
<1>4. Distinct(d)
  <2>1. c.valid \subseteq Idx /\ Distinct(c)
    BY DEF Shape, CacheType
  <2>2. \A x \in d.valid : x = i \/ (x \in c.valid /\ d.lba[x] = c.lba[x])
    BY <1>1, <1>2, <2>1
  <2> QED BY <1>2, <2>1, <2>2 DEF Distinct
<1>5. Shape(d, <<i>> \o t)
  BY <1>2, <1>3, <1>4 DEF Shape
<1> QED BY <1>1, <1>2, <1>5

\* cache_commit() of the entry cache_reserve() names.
LEMMA Committed ==
  ASSUME NEW c, NEW q, Shape(c, q), NEW l \in Lbas, \A x \in c.valid : c.lba[x] # l
  PROVE  /\ Reserve(c) \in Idx /\ ~CommitFails(c, Reserve(c))
         /\ \E u : Takes(c, q, Reserve(c), l, Commit(c, Reserve(c), l), u)
<1> DEFINE i == Reserve(c)
           d == Commit(c, i, l)
           N == Len(q)
<1>1. /\ c \in CacheType /\ c.valid \subseteq Idx /\ Enumerates(q, c.valid)
      /\ c.moved \in BOOLEAN
  BY DEF Shape, CacheType, Recent
<1>2. /\ N \in Nat /\ N \in 0..Capacity /\ \A j \in 1..N : q[j] \in c.valid
      /\ \A j, k \in 1..N : q[j] = q[k] => j = k
  BY <1>1, Enumeration, EnumerationLength
<1>3. CASE N < Capacity
  <2> DEFINE r == Pop(c)
             F == (Idx \ c.valid) \ {c.free}
             u == <<i>> \o q
  <2>1. i = c.free /\ i \in Idx \ c.valid /\ Cleared(c, q, i, r, c.valid, q, F) /\ r.moved = c.moved
    BY <1>3, FreeTaken, ZenonT(40)
  <2>2. d = Refile(r, i, l)
    BY <2>1 DEF Commit, Refile, Pop
  <2> HIDE DEF r, F, i, d
  <2>3. /\ Shape(d, u) /\ d.valid = c.valid \cup {i} /\ d.lba[i] = l
        /\ \A x \in Idx \ {i} : d.lba[x] = c.lba[x]
        /\ d.data = c.data /\ d.lastMiss = c.lastMiss /\ d.moved = r.moved
    BY <2>1, <2>2, Settled
  <2>4. /\ Len(u) = N + 1 /\ u[1] = i /\ \A n \in 2..Len(u) : u[n] = q[n - 1] /\ n - 1 \in 1..N
    <3>1. q \in Seq(Idx) /\ <<i>> \in Seq(Idx)
      BY <1>1, <2>1 DEF Enumerates
    <3>2. Len(<<i>>) = 1 /\ <<i>>[1] = i
      OBVIOUS
    <3> QED BY <1>2, <3>1, <3>2
  <2>5. \A n \in 2..Len(u) : u[n] # i
    BY <1>2, <2>1, <2>4
  <2>6. Takes(c, q, i, l, d, u)
    BY <1>3, <1>2, <2>1, <2>3, <2>4, <2>5 DEF Takes
  <2>7. ~CommitFails(c, i)
    BY <2>1 DEF CommitFails
  <2> QED BY <2>1, <2>6, <2>7 DEF d, i
<1>4. CASE N = Capacity
  <2> DEFINE r == Evict(c, c.tail)
             F == Idx \ c.valid
             t == Without(q, N)
             S == c.valid \ {i}
             u == <<i>> \o t
  <2>1. /\ i = c.tail /\ i = q[N] /\ i \in c.valid /\ Cleared(c, q, i, r, S, t, F)
        /\ r.moved = TRUE
    BY <1>4, TailEvicted
  <2>2. d = Refile(r, i, l)
    BY <2>1 DEF Commit, Refile
  <2>3. N \in 1..N
    BY <1>2, <1>4, CacheAssumption
  <2>4. /\ Enumerates(t, S) /\ Len(t) = N - 1
        /\ \A j \in 1..(N - 1) : t[j] = IF j < N THEN q[j] ELSE q[j + 1]
    <3> DEFINE T == c.valid \ {q[N]}
    <3>1. T = S
      BY <2>1
    <3> HIDE DEF S, t, N
    <3> QED BY <1>1, <2>3, <3>1, WithoutIs DEF t, N
  <2> HIDE DEF r, F, i, d, t, S, N
  <2>5. /\ Shape(d, u) /\ d.valid = c.valid \cup {i} /\ d.lba[i] = l
        /\ \A x \in Idx \ {i} : d.lba[x] = c.lba[x]
        /\ d.data = c.data /\ d.lastMiss = c.lastMiss /\ d.moved = r.moved
    BY <2>1, <2>2, Settled
  <2>6. /\ Len(u) = N /\ u[1] = i /\ \A n \in 2..N : u[n] = t[n - 1] /\ n - 1 \in 1..(N - 1)
    <3>1. t \in Seq(Idx) /\ <<i>> \in Seq(Idx)
      BY <1>1, <2>1, <2>4 DEF Enumerates
    <3>2. Len(<<i>>) = 1 /\ <<i>>[1] = i
      OBVIOUS
    <3> QED BY <1>2, <2>4, <3>1, <3>2
  <2>7. \A n \in 2..Len(u) : u[n] = q[n - 1]
    BY <1>2, <2>4, <2>6
  <2>8. \A n \in 2..Len(u) : u[n] # i
    <3> SUFFICES ASSUME NEW n \in 2..N, u[n] = i
                 PROVE  FALSE
      BY <2>6
    <3>1. n - 1 \in 1..N /\ N \in 1..N /\ n - 1 # N
      BY <1>2, <2>3
    <3>2. q[n - 1] = q[N]
      BY <2>1, <2>6, <2>7
    <3> QED BY <1>2, <3>1, <3>2
  <2>9. Takes(c, q, i, l, d, u)
    BY <1>1, <1>4, <1>2, <2>1, <2>5, <2>6, <2>7, <2>8, CacheAssumption DEF Takes, N
  <2>10. ~CommitFails(c, i)
    BY <2>1 DEF CommitFails
  <2> QED BY <1>1, <2>1, <2>9, <2>10 DEF d, i
<1> QED BY <1>2, <1>3, <1>4, CacheAssumption

\* What the cache e has after sector l was read into the entry i of c and then
\* committed: l first, then the sectors of c, as far as the capacity allows.
Brings(c, q, i, l, e, u) ==
  /\ Shape(e, u) /\ i \in Idx /\ e.valid = c.valid \cup {i} /\ e.lba[i] = l /\ e.data[i] = l
  /\ \A x \in Idx \ {i} : e.data[x] = c.data[x]
  /\ Len(u) = (IF Len(q) < Capacity THEN Len(q) + 1 ELSE Capacity)
  /\ e.lba[u[1]] = l /\ \A n \in 2..Len(u) : e.lba[u[n]] = c.lba[q[n - 1]]
  /\ (Holds(c) => Holds(e)) /\ Kept(c, e)
  /\ i \in c.valid => e.moved

\* Reading into the reserved entry before it is committed is safe.
LEMMA Brought ==
  ASSUME NEW c, NEW q, Shape(c, q), NEW l \in Lbas, \A x \in c.valid : c.lba[x] # l,
         NEW b \in CacheType, SameLinks(c, b), b.data[Reserve(c)] = l,
         \A x \in Idx \ {Reserve(c)} : b.data[x] = c.data[x]
  PROVE  /\ Reserve(c) \in Idx /\ Reserve(b) = Reserve(c) /\ ~CommitFails(b, Reserve(c))
         /\ Commit(b, Reserve(c), l).lastMiss = b.lastMiss
         /\ \E u : Brings(c, q, Reserve(c), l, Commit(b, Reserve(c), l), u)
<1> DEFINE i == Reserve(c)
           e == Commit(b, i, l)
<1>1. Reserve(b) = i
  BY DEF Reserve, SameLinks
<1>2. Shape(b, q)
  BY ShapeKept
<1>3. \A x \in b.valid : b.lba[x] # l
  BY DEF SameLinks
<1>4. i \in Idx /\ ~CommitFails(b, i) /\ \E u : Takes(b, q, i, l, e, u)
  BY <1>1, <1>2, <1>3, Committed
<1>5. PICK u : Takes(b, q, i, l, e, u)
  BY <1>4
<1> HIDE DEF i, e
<1>6. /\ Shape(e, u) /\ i \in Idx /\ e.valid = b.valid \cup {i}
      /\ e.lba[i] = l /\ \A x \in Idx \ {i} : e.lba[x] = b.lba[x]
      /\ e.data = b.data /\ e.lastMiss = b.lastMiss
      /\ Len(u) = (IF Len(q) < Capacity THEN Len(q) + 1 ELSE Capacity)
      /\ u[1] = i /\ \A n \in 2..Len(u) : u[n] = q[n - 1] /\ u[n] # i
      /\ i \in b.valid => e.moved
  BY <1>5 DEF Takes
<1>7. b.valid = c.valid /\ b.lba = c.lba /\ c.valid \subseteq Idx
  BY DEF SameLinks, Shape, CacheType
<1>8. e.data[i] = l /\ \A x \in Idx \ {i} : e.data[x] = c.data[x]
  BY <1>6 DEF i
<1>9. (Holds(c) => Holds(e)) /\ Kept(c, e)
  BY <1>6, <1>7, <1>8 DEF Holds, Kept
<1>10. \A n \in 2..Len(u) : e.lba[u[n]] = c.lba[q[n - 1]]
  <2>1. Enumerates(u, e.valid) /\ e.valid \subseteq Idx
    BY <1>6 DEF Shape, Recent, CacheType
  <2>2. Len(u) \in Nat /\ \A n \in 1..Len(u) : u[n] \in Idx
    BY <2>1, Enumeration
  <2>3. \A n \in 2..Len(u) : u[n] \in Idx
    BY <2>2
  <2> QED BY <1>6, <1>7, <2>3
<1>11. Brings(c, q, i, l, e, u)
  BY <1>6, <1>7, <1>8, <1>9, <1>10 DEF Brings
<1> QED BY <1>1, <1>4, <1>6, <1>11 DEF e, i

\* cache_install() of one sector.
LEMMA InstalledOne ==
  ASSUME NEW c, NEW q, Shape(c, q), NEW l \in Lbas, \A x \in c.valid : c.lba[x] # l, NEW p
  PROVE  /\ InstallStep(c, l, p).lastMiss = c.lastMiss
         /\ \E u : Brings(c, q, Reserve(c), l, InstallStep(c, l, p), u)
<1> DEFINE i == Reserve(c)
           dt == [c.data EXCEPT ![i] = l]
           b == [c EXCEPT !.data = dt]
<1>1. c \in CacheType
  BY DEF Shape
<1>2. i \in Idx
  BY Committed
<1>3. /\ dt \in [Idx -> Lbas \cup {Garbage}]
      /\ dt[i] = l /\ \A x \in Idx \ {i} : dt[x] = c.data[x]
  BY <1>1, <1>2 DEF CacheType
<1>4. InstallStep(c, l, p) = Commit(b, i, l)
  BY DEF InstallStep
<1> HIDE DEF dt, i
<1>5. b \in CacheType /\ SameLinks(c, b) /\ b.data = dt /\ b.lastMiss = c.lastMiss
  BY <1>1, <1>3 DEF CacheType, SameLinks
<1> HIDE DEF b
<1>6. b.data[Reserve(c)] = l /\ \A x \in Idx \ {Reserve(c)} : b.data[x] = c.data[x]
  BY <1>3, <1>5 DEF i
<1>7. /\ Commit(b, Reserve(c), l).lastMiss = b.lastMiss
      /\ \E u : Brings(c, q, Reserve(c), l, Commit(b, Reserve(c), l), u)
  BY <1>5, <1>6, Brought
<1> QED BY <1>4, <1>5, <1>7 DEF i

\* One sector of a run.
LEMMA FilledStep ==
  ASSUME NEW c, NEW q, Shape(c, q), NEW l \in Lbas, NEW run \in Nat, l + run - 1 <= MaxLba,
         \A x \in c.valid : \A k \in 0..(run - 1) : c.lba[x] # l + k,
         NEW p, NEW d, NEW j \in 1..run, Filled(c, q, l, run, d, j - 1)
  PROVE  Filled(c, q, l, run, InstallStep(d, l + run - j, p), j)
<1> DEFINE N == Len(q)
           m == l + run - j
           g == j - 1
           e == InstallStep(d, m, p)
<1>1. /\ l \in Nat /\ m \in Nat /\ m \in Lbas /\ g \in Nat /\ j = g + 1 /\ MaxLba \in Nat
      /\ Capacity \in Nat /\ Capacity > 0 /\ j \in Nat
  BY CacheAssumption DEF Lbas
<1>2. PICK u : /\ Shape(d, u) /\ d.lastMiss = c.lastMiss /\ (Holds(c) => Holds(d)) /\ Kept(c, d)
               /\ Len(u) = IF N + g < Capacity THEN N + g ELSE Capacity
               /\ \A n \in 1..Len(u) : d.lba[u[n]] = IF n <= g THEN (l + run - g) + n - 1
                                                     ELSE c.lba[q[n - g]]
  BY DEF Filled
<1>3. /\ Enumerates(q, c.valid) /\ Enumerates(u, d.valid)
  BY <1>2 DEF Shape, Recent
<1>4. /\ N \in Nat /\ N <= Capacity /\ \A n \in 1..N : q[n] \in c.valid
      /\ Len(u) \in Nat /\ \A x \in d.valid : \E n \in 1..Len(u) : u[n] = x
  BY <1>3, Enumeration, EnumerationLength
<1> HIDE DEF N
<1>5. ASSUME NEW x \in d.valid
      PROVE  d.lba[x] # m
  <2>1. PICK n \in 1..Len(u) : u[n] = x
    BY <1>4
  <2>2. CASE n <= g
    <3>1. d.lba[x] = (l + run - g) + n - 1
      BY <1>2, <2>1, <2>2
    <3> QED BY <1>1, <1>4, <3>1
  <2>3. CASE ~(n <= g)
    <3>1. d.lba[x] = c.lba[q[n - g]]
      BY <1>2, <2>1, <2>3
    <3>2. n - g \in 1..N
      BY <1>1, <1>2, <1>4, <2>3, SMTT(40)
    <3>3. run - j \in 0..(run - 1) /\ m = l + (run - j)
      BY <1>1, SMTT(40)
    <3>4. q[n - g] \in c.valid
      BY <1>4, <3>2
    <3>5. c.lba[q[n - g]] # l + (run - j)
      BY <3>3, <3>4
    <3> QED BY <3>1, <3>3, <3>5
  <2> QED BY <2>2, <2>3
<1> HIDE DEF m, g
<1>6. /\ e.lastMiss = d.lastMiss /\ \E v : Brings(d, u, Reserve(d), m, e, v)
  BY <1>1, <1>2, <1>5, InstalledOne
<1> HIDE DEF e
<1>7. PICK v : Brings(d, u, Reserve(d), m, e, v)
  BY <1>6
<1>8. /\ Shape(e, v) /\ Len(v) = (IF Len(u) < Capacity THEN Len(u) + 1 ELSE Capacity)
      /\ e.lba[v[1]] = m /\ \A n \in 2..Len(v) : e.lba[v[n]] = d.lba[u[n - 1]]
      /\ (Holds(d) => Holds(e)) /\ Kept(d, e)
  BY <1>7 DEF Brings
<1> DEFINE U == Len(u)
           V == Len(v)
<1>a. /\ U \in Nat /\ U = IF N + g < Capacity THEN N + g ELSE Capacity
      /\ V = (IF U < Capacity THEN U + 1 ELSE Capacity)
  BY <1>2, <1>4, <1>8
<1>9. V = IF N + j < Capacity THEN N + j ELSE Capacity
  BY <1>1, <1>4, <1>a, SMTT(40)
<1>10. ASSUME NEW n \in 1..V
       PROVE  e.lba[v[n]] = IF n <= j THEN (l + run - j) + n - 1 ELSE c.lba[q[n - j]]
  <2>1. CASE n = 1
    <3>1. n <= j /\ (l + run - j) + n - 1 = m
      BY <1>1, <2>1 DEF m
    <3> QED BY <1>8, <2>1, <3>1
  <2>2. CASE n # 1
    <3>1. n \in 2..V /\ n - 1 \in 1..U
      BY <1>a, <1>1, <2>2
    <3>2. e.lba[v[n]] = d.lba[u[n - 1]]
      BY <1>8, <3>1
    <3>3. d.lba[u[n - 1]] = IF n - 1 <= g THEN (l + run - g) + (n - 1) - 1 ELSE c.lba[q[(n - 1) - g]]
      BY <1>2, <3>1
    <3>4. /\ (n - 1 <= g <=> n <= j)
          /\ (n - 1) - g = n - j
          /\ (l + run - g) + (n - 1) - 1 = (l + run - j) + n - 1
      <4>1. n \in Int /\ g \in Int /\ j = g + 1 /\ l \in Int /\ run \in Int
        BY <1>1
      <4> QED BY <4>1
    <3> QED BY <3>2, <3>3, <3>4
  <2> QED BY <2>1, <2>2
<1>11. Filled(c, q, l, run, e, j)
  <2>1. e.lastMiss = c.lastMiss /\ (Holds(c) => Holds(e))
    BY <1>2, <1>6, <1>8
  <2>2. Kept(c, e)
    BY <1>2, <1>8 DEF Kept
  <2> QED BY <1>8, <1>9, <1>10, <2>1, <2>2 DEF Filled, N
<1> QED BY <1>11 DEF e, m

\* cache_install() of a whole run, last sector first.
LEMMA InstalledRun ==
  ASSUME NEW c, NEW q, Shape(c, q), NEW l \in Lbas, NEW run \in Nat, l + run - 1 <= MaxLba,
         \A x \in c.valid : \A k \in 0..(run - 1) : c.lba[x] # l + k
  PROVE  Filled(c, q, l, run, Install(c, [k \in 1..run |-> l + run - k]), run)
<1> DEFINE ls == [k \in 1..run |-> l + run - k]
           p == [c |-> c, q |-> q, l |-> l, run |-> run]
<1>1. DOMAIN ls = 1..run /\ \A k \in 1..run : ls[k] = l + run - k
  OBVIOUS
<1>2. p.c = c /\ p.q = q /\ p.l = l /\ p.run = run
  OBVIOUS
<1> HIDE DEF ls, p
<1>3. Install(c, ls) = Installing!Fold(c, ls, p)
  BY DEF Install, FoldLeft, MapThenFoldSet, Installing!Fold, Max, Installing!Max, InstallStep
<1>4. InstallGood(c, 0, p)
  <2>1. Enumerates(q, c.valid)
    BY DEF Shape, Recent
  <2>2. Len(q) \in Nat /\ Len(q) <= Capacity /\ Capacity \in Nat
    BY <2>1, Enumeration, EnumerationLength, CacheAssumption
  <2>3. Len(q) = IF Len(q) + 0 < Capacity THEN Len(q) + 0 ELSE Capacity
    BY <2>2
  <2>4. \A n \in 1..Len(q) : c.lba[q[n]] = IF n <= 0 THEN (l + run - 0) + n - 1 ELSE c.lba[q[n - 0]]
    BY <2>2
  <2>5. Filled(c, q, l, run, c, 0)
    BY <2>3, <2>4 DEF Filled, Kept
  <2> QED BY <1>2, <2>5 DEF InstallGood
<1>5. ASSUME NEW w, NEW j \in 1..run, InstallGood(w, j - 1, p)
      PROVE  InstallGood(InstallStep(w, ls[j], p), j, p)
  <2>1. Filled(c, q, l, run, w, j - 1)
    BY <1>2, <1>5 DEF InstallGood
  <2>2. Filled(c, q, l, run, InstallStep(w, l + run - j, p), j)
    BY <2>1, FilledStep
  <2> QED BY <1>1, <1>2, <2>2 DEF InstallGood
<1>6. InstallGood(Installing!Fold(c, ls, p), run, p)
  BY <1>1, <1>4, <1>5, Installing!FoldGood
<1>7. Filled(c, q, l, run, Install(c, ls), run)
  BY <1>2, <1>3, <1>6 DEF InstallGood
<1> QED BY <1>7 DEF ls

\* cache_install() of a sequence of one sector is one step.
LEMMA InstallSingle ==
  ASSUME NEW c, NEW l
  PROVE  Install(c, <<l>>) = InstallStep(c, l, 0)
<1> DEFINE ls == <<l>>
           p == 0
<1>1. DOMAIN ls = 1..1 /\ ls[1] = l
  OBVIOUS
<1> HIDE DEF ls, p
<1>2. Install(c, ls) = Installing!Fold(c, ls, p)
  BY DEF Install, FoldLeft, MapThenFoldSet, Installing!Fold, Max, Installing!Max, InstallStep
<1>3. Installing!Fold(c, ls, p) = InstallStep(c, ls[1], p)
  BY <1>1, Installing!FoldOne
<1> QED BY <1>1, <1>2, <1>3 DEF ls, p

\* The run a miss fetches: it has the sector asked for, does not wrap, and no
\* sector of it is cached.
LEMMA RunIs ==
  ASSUME NEW c, NEW q, Shape(c, q), NEW l \in Lbas, FindIndex(c, l) = Nil
  PROVE  LET run == RunLength(c, l)
         IN  /\ run \in 1..ReadAhead /\ l + run - 1 <= MaxLba
             /\ \A x \in c.valid : \A k \in 0..(run - 1) : c.lba[x] # l + k
<1> DEFINE stops == {r \in 1..ReadAhead :
                       r = ReadAhead \/ l + r > MaxLba \/ FindIndex(c, l + r) # Nil}
           run == RunLength(c, l)
<1>1. /\ ReadAhead \in Nat \ {0} /\ MaxLba \in Nat /\ l \in Nat /\ l <= MaxLba
  BY CacheAssumption DEF Lbas
<1>2. run = Min(stops)
  BY DEF RunLength
<1>3. stops \subseteq Nat /\ stops # {}
  <2>1. ReadAhead \in stops
    BY <1>1
  <2> QED BY <2>1
<1>4. run \in stops /\ \A r \in stops : run <= r
  <2> HIDE DEF stops, run
  <2>1. \E x \in stops : \A y \in stops : x <= y
    BY <1>3, Installing!LeastElement
  <2> QED BY <1>2, <2>1 DEF Min
<1>5. run \in 1..ReadAhead
  BY <1>4
<1> HIDE DEF run
<1>6. \A r \in 1..(run - 1) : l + r <= MaxLba /\ FindIndex(c, l + r) = Nil
  <2> SUFFICES ASSUME NEW r \in 1..(run - 1)
               PROVE  l + r <= MaxLba /\ FindIndex(c, l + r) = Nil
    OBVIOUS
  <2>1. r \in 1..ReadAhead /\ ~(run <= r)
    BY <1>1, <1>5
  <2>2. r \notin stops
    BY <1>4, <2>1
  <2>3. ~(r = ReadAhead \/ l + r > MaxLba \/ FindIndex(c, l + r) # Nil)
    BY <2>1, <2>2
  <2> QED BY <1>1, <2>3
<1>7. l + run - 1 <= MaxLba
  <2>1. CASE run = 1
    BY <1>1, <2>1
  <2>2. CASE run # 1
    <3>1. run - 1 \in 1..(run - 1)
      BY <1>1, <1>5, <2>2
    <3>2. l + (run - 1) <= MaxLba
      BY <1>6, <3>1
    <3> QED BY <1>1, <1>5, <3>2
  <2> QED BY <2>1, <2>2
<1>8. ASSUME NEW x \in c.valid, NEW k \in 0..(run - 1)
      PROVE  c.lba[x] # l + k
  <2>1. c \in CacheType /\ Filed(c, c.valid)
    BY DEF Shape
  <2>2. FindIndex(c, l + k) = Nil
    <3>1. CASE k = 0
      <4>1. l + k = l
        BY <1>1, <3>1
      <4> QED BY <4>1
    <3>2. CASE k # 0
      <4>1. k \in 1..(run - 1)
        BY <1>5, <3>2
      <4> QED BY <1>6, <4>1
    <3> QED BY <3>1, <3>2
  <2>3. l + k \in Lbas
    BY <1>1, <1>5, <1>7 DEF Lbas
  <2>4. FindIndex(c, l + k) \notin c.valid
    BY <2>1, <2>2, NilIsNone DEF CacheType
  <2> QED BY <2>1, <2>3, <2>4, Found
<1> QED BY <1>5, <1>7, <1>8 DEF run

\* lru_make_mru() of any entry, the first one too.
LEMMA MadeRecent ==
  ASSUME NEW c, NEW q, Shape(c, q), NEW k \in 1..Len(q)
  PROVE  LET d == LruMakeMru(c, q[k])
         IN  /\ OnlyLru(c, d)
             /\ \E u : /\ Shape(d, u) /\ Len(u) = Len(q) /\ u[1] = q[k]
                       /\ \A n \in 2..Len(q) : u[n] = IF n <= k THEN q[n - 1] ELSE q[n]
<1> DEFINE N == Len(q)
           d == LruMakeMru(c, q[k])
           t == Without(q, k)
           u == <<q[k]>> \o t
<1>1. Enumerates(q, c.valid) /\ Runs(c.head, c.lnext, q)
  BY DEF Shape, Recent
<1>2. /\ N \in Nat /\ k \in 1..N /\ \A n \in 1..N : q[n] \in Idx
      /\ \A n, j \in 1..N : q[n] = q[j] => n = j
  BY <1>1, Enumeration
<1>3. CASE c.head = q[k]
  <2>1. d = c
    BY <1>3 DEF LruMakeMru
  <2>2. c.head = q[1] /\ 1 \in 1..N
    BY <1>1, <1>2 DEF Runs
  <2>3. k = 1
    BY <1>2, <1>3, <2>2
  <2>4. \A n \in 2..N : q[n] = IF n <= k THEN q[n - 1] ELSE q[n]
    BY <1>2, <2>3
  <2>5. OnlyLru(c, d)
    BY <2>1 DEF OnlyLru
  <2> HIDE DEF d
  <2> QED BY <2>1, <2>3, <2>4, <2>5 DEF d
<1>4. CASE c.head # q[k]
  <2>1. d \in CacheType /\ OnlyLru(c, d) /\ Shape(d, u)
    BY <1>4, Moved
  <2>2. /\ Enumerates(t, c.valid \ {q[k]}) /\ Len(t) = N - 1
        /\ \A j \in 1..(N - 1) : t[j] = IF j < k THEN q[j] ELSE q[j + 1]
    BY <1>1, WithoutIs
  <2> HIDE DEF t, N, d
  <2>3. /\ Len(u) = N /\ u[1] = q[k] /\ \A n \in 2..N : u[n] = t[n - 1]
    <3>1. t \in Seq(Idx) /\ <<q[k]>> \in Seq(Idx)
      BY <1>2, <2>2 DEF Enumerates
    <3>2. Len(<<q[k]>>) = 1 /\ <<q[k]>>[1] = q[k]
      OBVIOUS
    <3> QED BY <1>2, <2>2, <3>1, <3>2
  <2>4. \A n \in 2..N : u[n] = IF n <= k THEN q[n - 1] ELSE q[n]
    <3> SUFFICES ASSUME NEW n \in 2..N
                 PROVE  u[n] = IF n <= k THEN q[n - 1] ELSE q[n]
      OBVIOUS
    <3>1. n - 1 \in 1..(N - 1) /\ (n - 1) + 1 = n /\ (n - 1 < k <=> n <= k)
      BY <1>2
    <3>2. u[n] = IF n - 1 < k THEN q[n - 1] ELSE q[(n - 1) + 1]
      BY <2>2, <2>3, <3>1
    <3> QED BY <3>1, <3>2
  <2> HIDE DEF u
  <2> QED BY <2>1, <2>3, <2>4 DEF N, d
<1> QED BY <1>3, <1>4

-----------------------------------------------------------------------------
(* The order of the sectors.                                               *)

\* The sectors of a cache, most recently used first.
OrderOf(c) ==
  LET at == Follow(c.head, c.lnext)
  IN  [n \in 1..Cardinality(c.valid) |-> c.lba[at[n - 1]]]

\* It follows the LRU list.
LEMMA Ordered ==
  ASSUME NEW c, NEW q, Shape(c, q)
  PROVE  /\ OrderOf(c) \in Seq(Lbas) /\ Len(OrderOf(c)) = Len(q) /\ Len(q) \in 0..Capacity
         /\ DOMAIN OrderOf(c) = 1..Len(q)
         /\ \A n \in 1..Len(q) : OrderOf(c)[n] = c.lba[q[n]]
         /\ \A y : y \in ToSet(OrderOf(c)) <=> \E x \in c.valid : c.lba[x] = y
<1> DEFINE N == Len(q)
           at == Follow(c.head, c.lnext)
           s == OrderOf(c)
<1>1. c \in CacheType /\ Enumerates(q, c.valid) /\ Runs(c.head, c.lnext, q)
  BY DEF Shape, Recent
<1>2. /\ N \in Nat /\ N \in 0..Capacity /\ Cardinality(c.valid) = N
      /\ \A n \in 1..N : q[n] \in c.valid
      /\ \A x \in c.valid : \E n \in 1..N : q[n] = x
  BY <1>1, Enumeration, EnumerationLength
<1>3. \A n \in 0..Capacity : at[n] = IF n < N THEN q[n + 1] ELSE Nil
  BY <1>1, FollowIs
<1>4. s = [n \in 1..N |-> c.lba[at[n - 1]]]
  BY <1>2 DEF OrderOf
<1> HIDE DEF at, N, s
<1>5. \A n \in 1..N : at[n - 1] = q[n]
  <2> SUFFICES ASSUME NEW n \in 1..N
               PROVE  at[n - 1] = q[n]
    OBVIOUS
  <2>1. n - 1 \in 0..Capacity /\ n - 1 < N /\ (n - 1) + 1 = n
    BY <1>2, CacheAssumption
  <2> QED BY <1>3, <2>1
<1>6. \A n \in 1..N : c.lba[q[n]] \in Lbas
  BY <1>1, <1>2 DEF CacheType
<1>7. s \in [1..N -> Lbas] /\ \A n \in 1..N : s[n] = c.lba[q[n]]
  BY <1>4, <1>5, <1>6
<1>8. s \in Seq(Lbas) /\ Len(s) = N /\ DOMAIN s = 1..N
  BY <1>2, <1>7
<1>9. \A y : y \in ToSet(s) <=> \E x \in c.valid : c.lba[x] = y
  <2>1. \A y : y \in ToSet(s) <=> \E n \in 1..N : s[n] = y
    BY <1>8, InToSet
  <2> QED BY <1>2, <1>7, <2>1, SMTT(40)
<1> QED BY <1>2, <1>7, <1>8, <1>9 DEF N, s

\* What LruCache keeps of new sectors before the old ones.
LEMMA KeepIs ==
  ASSUME NEW s \in Seq(Lbas), NEW t \in Seq(Lbas), NEW run \in Seq(Lbas),
         Len(t) = IF Len(s) + Len(run) < Capacity THEN Len(s) + Len(run) ELSE Capacity,
         \A k \in 1..Len(t) : t[k] = IF k <= Len(run) THEN run[k] ELSE s[k - Len(run)]
  PROVE  t = Lru!Keep(run \o s)
<1> DEFINE a == run \o s
           L == Len(run)
           m == IF Len(a) > Capacity THEN Capacity ELSE Len(a)
           b == SubSeq(a, 1, m)
<1>1. a \in Seq(Lbas) /\ Len(a) = L + Len(s) /\ L \in Nat /\ Len(s) \in Nat /\ Capacity \in Nat
  BY CacheAssumption
<1>2. \A k \in 1..Len(a) : a[k] = IF k <= L THEN run[k] ELSE s[k - L]
  OBVIOUS
<1>3. Lru!Keep(run \o s) = b
  BY DEF Lru!Keep
<1> HIDE DEF a, L
<1>4. m \in 0..Len(a) /\ m \in Nat
  BY <1>1
<1>5. m = Len(t)
  BY <1>1 DEF L
<1> HIDE DEF m
<1>6. b \in Seq(Lbas) /\ Len(b) = m /\ \A k \in 1..m : b[k] = a[k]
  BY <1>1, <1>4
<1>7. \A k \in 1..m : b[k] = t[k]
  <2>1. \A k \in 1..m : k \in 1..Len(a) /\ k \in 1..Len(t)
    BY <1>1, <1>4, <1>5
  <2>2. \A k \in 1..m : t[k] = IF k <= L THEN run[k] ELSE s[k - L]
    BY <2>1 DEF L
  <2> QED BY <1>2, <1>6, <2>1, <2>2
<1> HIDE DEF b
<1>8. b = t
  BY <1>5, <1>6, <1>7, SeqEqual
<1> QED BY <1>3, <1>8

\* What a hit makes of the order.
LEMMA ToFrontIs ==
  ASSUME NEW s \in Seq(Lbas), NEW t \in Seq(Lbas), NEW k \in 1..Len(s), Len(t) = Len(s),
         t[1] = s[k], \A n \in 2..Len(s) : t[n] = IF n <= k THEN s[n - 1] ELSE s[n]
  PROVE  t = <<s[k]>> \o RemoveAt(s, k)
<1> DEFINE N == Len(s)
           a == SubSeq(s, 1, k - 1)
           b == SubSeq(s, k + 1, N)
           r == <<s[k]>> \o (a \o b)
<1>1. N \in Nat /\ k \in 1..N /\ k - 1 \in 0..N /\ k \in Nat
  OBVIOUS
<1>2. a \in Seq(Lbas) /\ Len(a) = k - 1 /\ \A n \in 1..(k - 1) : a[n] = s[n]
  BY <1>1
<1>3. b \in Seq(Lbas) /\ Len(b) = N - k /\ \A n \in 1..(N - k) : b[n] = s[n + k]
  BY <1>1
<1> HIDE DEF a, b, N
<1>4. /\ a \o b \in Seq(Lbas) /\ Len(a \o b) = N - 1
      /\ \A n \in 1..(N - 1) : (a \o b)[n] = IF n < k THEN s[n] ELSE s[n + 1]
  <2>1. /\ a \o b \in Seq(Lbas) /\ Len(a \o b) = Len(a) + Len(b)
        /\ \A n \in 1..(Len(a) + Len(b)) :
             (a \o b)[n] = IF n <= Len(a) THEN a[n] ELSE b[n - Len(a)]
    <3>1. a \in Seq(Lbas) /\ b \in Seq(Lbas)
      BY <1>2, <1>3
    <3> QED BY <3>1, ConcatProperties, Zenon
  <2>2. Len(a) + Len(b) = N - 1
    BY <1>1, <1>2, <1>3
  <2> SUFFICES ASSUME NEW n \in 1..(N - 1)
               PROVE  (a \o b)[n] = IF n < k THEN s[n] ELSE s[n + 1]
    BY <2>1, <2>2
  <2>3. (a \o b)[n] = IF n <= k - 1 THEN a[n] ELSE b[n - (k - 1)]
    BY <1>2, <2>1, <2>2
  <2>4. CASE n <= k - 1
    <3>1. n \in 1..(k - 1) /\ n < k
      BY <1>1, <2>4
    <3> QED BY <1>2, <2>3, <2>4, <3>1
  <2>5. CASE ~(n <= k - 1)
    <3>1. n - (k - 1) \in 1..(N - k) /\ ~(n < k) /\ (n - (k - 1)) + k = n + 1
      BY <1>1, <2>5
    <3> QED BY <1>3, <2>3, <2>5, <3>1
  <2> QED BY <2>4, <2>5
<1> DEFINE ab == a \o b
           h == <<s[k]>>
<1>5. h \in Seq(Lbas) /\ Len(h) = 1 /\ h[1] = s[k] /\ s[k] \in Lbas
  BY <1>1 DEF N
<1>a. r = h \o ab
  OBVIOUS
<1> HIDE DEF ab, h, r
<1>6. /\ r \in Seq(Lbas) /\ Len(r) = N /\ r[1] = s[k]
      /\ \A n \in 2..N : r[n] = ab[n - 1]
  <2>1. ab \in Seq(Lbas) /\ Len(ab) = N - 1
    BY <1>4 DEF ab
  <2>2. /\ r \in Seq(Lbas) /\ Len(r) = Len(h) + Len(ab)
        /\ \A n \in 1..(Len(h) + Len(ab)) : r[n] = IF n <= Len(h) THEN h[n] ELSE ab[n - Len(h)]
    <3>1. ab \in Seq(Lbas) /\ h \in Seq(Lbas)
      BY <1>5, <2>1
    <3>2. /\ h \o ab \in Seq(Lbas) /\ Len(h \o ab) = Len(h) + Len(ab)
          /\ \A n \in 1..(Len(h) + Len(ab)) :
               (h \o ab)[n] = IF n <= Len(h) THEN h[n] ELSE ab[n - Len(h)]
      BY <3>1, ConcatProperties, Zenon
    <3> QED BY <1>a, <3>2, Zenon
  <2>3. Len(h) + Len(ab) = N
    BY <1>1, <1>5, <2>1
  <2>4. \A n \in 1..N : r[n] = IF n <= 1 THEN h[n] ELSE ab[n - 1]
    BY <1>5, <2>2, <2>3
  <2>5. 1 \in 1..N /\ \A n \in 2..N : n \in 1..N /\ ~(n <= 1)
    BY <1>1
  <2> QED BY <1>5, <2>2, <2>3, <2>4, <2>5
<1>7. \A n \in 1..N : r[n] = t[n]
  <2> SUFFICES ASSUME NEW n \in 1..N
               PROVE  r[n] = t[n]
    OBVIOUS
  <2>1. CASE n = 1
    BY <1>6, <2>1
  <2>2. CASE n # 1
    <3>1. n \in 2..N /\ n - 1 \in 1..(N - 1) /\ (n - 1) + 1 = n /\ (n - 1 < k <=> n <= k)
      BY <1>1, <2>2
    <3>2. r[n] = IF n - 1 < k THEN s[n - 1] ELSE s[(n - 1) + 1]
      BY <1>4, <1>6, <3>1 DEF ab
    <3>3. t[n] = IF n <= k THEN s[n - 1] ELSE s[n]
      BY <3>1 DEF N
    <3> QED BY <3>1, <3>2, <3>3
  <2> QED BY <2>1, <2>2
<1>8. r = t
  <2>1. Len(t) = N
    BY DEF N
  <2> QED BY <1>6, <1>7, <2>1, SeqEqual
<1> QED BY <1>8 DEF RemoveAt, a, b, N, r

-----------------------------------------------------------------------------
(* The invariant.                                                          *)

\* The links have their shape and, unless a failing device read may spoil a
\* buffer, entries and the kept pointer hold their sectors.
Inv ==
  /\ \E q : Shape(cache, q)
  /\ cache.moved = FALSE
  /\ ~PartialReads => Holds(cache) /\ PointerStable

\* A cache with nothing but a free list.
Bare(c) ==
  /\ c \in CacheType /\ c.bucket = EmptyCache.bucket /\ c.lnext = EmptyCache.lnext
  /\ c.free = 0 /\ c.head = Nil /\ c.tail = Nil /\ c.valid = {} /\ c.count = 0

\* It has the shape, with no entry in LRU order.
LEMMA BareShape ==
  ASSUME NEW c, Bare(c)
  PROVE  Shape(c, <<>>) /\ OrderOf(c) = <<>>
<1> DEFINE n == Capacity
           f == [k \in 1..n |-> k - 1]
<1>1. n \in Nat /\ n > 0 /\ n - 1 \in Nat
  BY CacheAssumption
<1>2. /\ c \in CacheType /\ c.free = 0 /\ c.head = Nil /\ c.tail = Nil /\ c.valid = {}
      /\ c.count = 0 /\ \A b \in Buckets : c.bucket[b] = Nil
      /\ \A i \in Idx : c.lnext[i] = IF i + 1 < Capacity THEN i + 1 ELSE Nil
  BY DEF Bare, EmptyCache, Buckets
<1>3. Enumerates(<<>>, {})
  <2> DEFINE e == <<>>
             z == 0
             E == {}
  <2>1. /\ e \in [1..z -> E] /\ z \in Nat /\ E \subseteq Idx
        /\ \A x \in E : \E i \in 1..z : e[i] = x
        /\ \A i, j \in 1..z : e[i] = e[j] => i = j
    OBVIOUS
  <2> HIDE DEF e, z, E
  <2>2. Enumerates(e, E)
    BY <2>1, IsEnumeration
  <2> QED BY <2>2 DEF e, E
<1>4. \A link : Runs(Nil, link, <<>>)
  BY DEF Runs
<1>5. Recent(c, c.valid, <<>>)
  <2>1. Mirror(<<>>, <<>>)
    BY DEF Mirror
  <2> QED BY <1>2, <1>3, <1>4, <2>1 DEF Recent
<1>6. Free(c, Idx \ c.valid)
  <2>1. f \in [1..n -> Idx] /\ \A k \in 1..n : f[k] = k - 1
    BY <1>1 DEF Idx
  <2>2. \A x \in Idx : \E k \in 1..n : f[k] = x
    <3> SUFFICES ASSUME NEW x \in Idx
                 PROVE  \E k \in 1..n : f[k] = x
      OBVIOUS
    <3>1. x + 1 \in 1..n /\ (x + 1) - 1 = x
      BY <1>1 DEF Idx
    <3> QED BY <2>1, <3>1
  <2>3. \A k, j \in 1..n : f[k] = f[j] => k = j
    BY <1>1, <2>1
  <2> HIDE DEF f, n
  <2>4. Enumerates(f, Idx) /\ Len(f) = n
    BY <1>1, <2>1, <2>2, <2>3, IsEnumeration
  <2>5. f # <<>> /\ f[1] = 0
    BY <1>1, <2>1, <2>4
  <2>6. ASSUME NEW k \in 1..Len(f)
        PROVE  c.lnext[f[k]] = IF k = Len(f) THEN Nil ELSE f[k + 1]
    <3>1. k \in 1..n /\ k \in Nat /\ f[k] = k - 1 /\ f[k] \in Idx
      BY <1>1, <2>1, <2>4
    <3>2. c.lnext[f[k]] = IF (k - 1) + 1 < n THEN (k - 1) + 1 ELSE Nil
      BY <1>2, <3>1 DEF n
    <3>3. CASE k = n
      BY <1>1, <2>4, <3>1, <3>2, <3>3
    <3>4. CASE k # n
      <4>1. k + 1 \in 1..n /\ (k - 1) + 1 = k /\ k < n /\ (k + 1) - 1 = k
        BY <1>1, <3>1, <3>4
      <4>2. f[k + 1] = k
        BY <2>1, <4>1
      <4> QED BY <2>4, <3>2, <3>4, <4>1, <4>2
    <3> QED BY <3>3, <3>4
  <2>7. Runs(c.free, c.lnext, f)
    BY <1>2, <2>5, <2>6 DEF Runs
  <2>8. Idx \ c.valid = Idx
    BY <1>2
  <2> QED BY <2>4, <2>7, <2>8 DEF Free
<1>7. Filed(c, c.valid)
  <2> SUFFICES ASSUME NEW b \in Buckets
               PROVE  \E q : Enumerates(q, Hashed(c, c.valid, b)) /\ Runs(c.bucket[b], c.next, q)
    BY FiledIs
  <2>1. Hashed(c, c.valid, b) = {}
    BY <1>2 DEF Hashed
  <2> QED BY <1>2, <1>3, <1>4, <2>1
<1>8. c.count = Cardinality(c.valid) /\ Distinct(c)
  BY <1>2, FS_EmptySet DEF Distinct
<1>9. Shape(c, <<>>)
  BY <1>2, <1>5, <1>6, <1>7, <1>8 DEF Shape
<1>10. OrderOf(c) = <<>>
  <2>1. OrderOf(c) \in Seq(Lbas) /\ Len(OrderOf(c)) = Len(<<>>)
    BY <1>9, Ordered
  <2> QED BY <2>1
<1> QED BY <1>9, <1>10

\* The generation is a matter of one call.
Still(c) == [c EXCEPT !.moved = FALSE]

\* It does not concern the links.
LEMMA StillIs ==
  ASSUME NEW c, NEW q, Shape(c, q), NEW e, e = Still(c)
  PROVE  /\ Shape(e, q) /\ e.moved = FALSE /\ e.valid = c.valid /\ e.lba = c.lba
         /\ e.data = c.data /\ e.lastMiss = c.lastMiss
<1>1. c \in CacheType
  BY DEF Shape
<1>2. e \in CacheType /\ SameLinks(c, e)
  BY <1>1 DEF CacheType, SameLinks, Still
<1>3. /\ e.moved = FALSE /\ e.valid = c.valid /\ e.lba = c.lba
      /\ e.data = c.data /\ e.lastMiss = c.lastMiss
  BY <1>1 DEF CacheType, Still
<1>4. Shape(e, q)
  BY <1>2, ShapeKept
<1> QED BY <1>3, <1>4

\* An answer from an entry that has the sector.
LEMMA Answered ==
  ASSUME NEW c, NEW u, Shape(c, u), NEW l, NEW i \in c.valid, c.lba[i] = l, Answer(c, i, l),
         ~PartialReads => Holds(c), Kept(cache, c)
  PROVE  /\ Inv' /\ Shape(cache', u) /\ cache'.lba = c.lba /\ ContentsFollowFiling
         /\ ~PartialReads => reply' = [ok |-> TRUE, asked |-> l, got |-> l]
<1>1. /\ cache' = Still(c) /\ reply' = [ok |-> TRUE, asked |-> l, got |-> c.data[i]]
      /\ ptr' = [idx |-> i, lba |-> l]
  BY DEF Answer, Still
<1>2. /\ Shape(cache', u) /\ cache'.moved = FALSE /\ cache'.valid = c.valid
      /\ cache'.lba = c.lba /\ cache'.data = c.data
  BY <1>1, StillIs
<1>3. ASSUME ~PartialReads
      PROVE  /\ Holds(cache)' /\ PointerStable'
             /\ reply' = [ok |-> TRUE, asked |-> l, got |-> l]
  <2>1. Holds(c)
    BY <1>3
  <2>2. Holds(cache)'
    BY <1>2, <2>1 DEF Holds
  <2>3. c.data[i] = l
    BY <2>1 DEF Holds
  <2>4. ptr'.idx = i /\ ptr'.lba = l
    BY <1>1
  <2>5. PointerStable'
    BY <1>2, <2>3, <2>4 DEF PointerStable
  <2> QED BY <1>1, <2>2, <2>3, <2>5
<1>4. (\E q : Shape(cache, q))'
  BY <1>2
<1>5. Inv'
  BY <1>2, <1>3, <1>4 DEF Inv
<1>6. ContentsFollowFiling
  BY <1>2 DEF ContentsFollowFiling, Kept
<1> QED BY <1>2, <1>3, <1>5, <1>6

\* LruOrder is the order of the cache.
LEMMA LruOrderIs ==
  LruOrder = OrderOf(cache) /\ LruOrder' = OrderOf(cache')
BY DEF LruOrder, OrderOf

\* A run of new sectors before the old ones is what LruCache calls a miss.
LEMMA MissIs ==
  ASSUME NEW l \in Lbas, NEW n \in 1..(IF HasStreamBuf THEN ReadAhead ELSE 1),
         l + n - 1 <= MaxLba, NEW q, NEW u, Shape(cache, q), Shape(cache', u),
         \A x \in cache.valid : \A k \in 0..(n - 1) : cache.lba[x] # l + k,
         Len(u) = IF Len(q) + n < Capacity THEN Len(q) + n ELSE Capacity,
         \A k \in 1..Len(u) : cache'.lba[u[k]] = IF k <= n THEN l + k - 1 ELSE cache.lba[q[k - n]],
         reply' = [ok |-> TRUE, asked |-> l, got |-> l]
  PROVE  Lru!Miss(l)
<1> DEFINE s == OrderOf(cache)
           t == OrderOf(cache')
           run == [i \in 1..n |-> l + i - 1]
<1>0. Len(q) \in 0..Capacity
  BY Ordered
<1>1. /\ s \in Seq(Lbas) /\ Len(s) = Len(q) /\ Len(q) \in Nat
      /\ \A k \in 1..Len(q) : s[k] = cache.lba[q[k]]
      /\ \A y : y \in ToSet(s) <=> \E x \in cache.valid : cache.lba[x] = y
  <2>1. Len(q) \in Nat
    BY <1>0, CacheAssumption
  <2>2. s \in Seq(Lbas) /\ Len(s) = Len(q) /\ \A k \in 1..Len(q) : s[k] = cache.lba[q[k]]
    BY Ordered
  <2>3. \A y : y \in ToSet(s) <=> \E x \in cache.valid : cache.lba[x] = y
    BY Ordered
  <2> QED BY <2>1, <2>2, <2>3
<1>2. /\ t \in Seq(Lbas) /\ Len(t) = Len(u) /\ \A k \in 1..Len(u) : t[k] = cache'.lba[u[k]]
  BY Ordered
<1>3. l \in Nat /\ n \in Nat /\ MaxLba \in Nat /\ n >= 1 /\ Capacity \in Nat
  BY CacheAssumption DEF Lbas
<1>4. /\ run \in Seq(Lbas) /\ Len(run) = n /\ DOMAIN run = 1..n
      /\ \A k \in 1..n : run[k] = l + k - 1
  BY <1>3 DEF Lbas
<1> HIDE DEF s, t
<1>5. ASSUME NEW k \in 1..Len(t)
      PROVE  t[k] = IF k <= Len(run) THEN run[k] ELSE s[k - Len(run)]
  <2>1. k \in 1..Len(u) /\ t[k] = IF k <= n THEN l + k - 1 ELSE cache.lba[q[k - n]]
    BY <1>2
  <2>2. CASE k <= n
    <3>1. k \in 1..n
      BY <1>3, <2>2
    <3> QED BY <1>4, <2>1, <2>2, <3>1
  <2>3. CASE ~(k <= n)
    <3>1. k - n \in 1..Len(q)
      BY <1>1, <1>3, <2>1, <2>3
    <3> QED BY <1>1, <1>4, <2>1, <2>3, <3>1
  <2> QED BY <2>2, <2>3
<1>6. Len(t) = IF Len(s) + Len(run) < Capacity THEN Len(s) + Len(run) ELSE Capacity
  BY <1>1, <1>2, <1>4
<1>7. ToSet(run) \subseteq Lbas \ ToSet(s)
  <2> SUFFICES ASSUME NEW y \in ToSet(run)
               PROVE  y \in Lbas /\ y \notin ToSet(s)
    OBVIOUS
  <2>1. PICK k \in 1..n : run[k] = y
    BY <1>4, InToSet
  <2>2. k - 1 \in 0..(n - 1) /\ y = l + (k - 1) /\ y \in Lbas
    BY <1>3, <1>4, <2>1 DEF Lbas
  <2>3. ASSUME y \in ToSet(s)
        PROVE  FALSE
    <3>1. PICK x \in cache.valid : cache.lba[x] = y
      BY <1>1, <2>3
    <3>2. cache.lba[x] # l + (k - 1)
      BY <2>2, <3>1
    <3> QED BY <2>2, <3>1, <3>2
  <2> QED BY <2>2, <2>3
<1> HIDE DEF run
<1>8. t = Lru!Keep(run \o s)
  BY <1>1, <1>2, <1>4, <1>5, <1>6, KeepIs, ZenonT(40)
<1>9. ToSet(run) \subseteq Lbas \ ToSet(LruOrder) /\ LruOrder' = Lru!Keep(run \o LruOrder)
  BY <1>7, <1>8, LruOrderIs DEF s, t
<1>10. Lru!ToSet(run) \subseteq Lbas \ Lru!ToSet(LruOrder)
  BY <1>9 DEF ToSet, Lru!ToSet
<1> QED BY <1>9, <1>10 DEF run, Lru!Miss, Lru!Cached, Lru!Answers

\* odfs_cache_read() of a cached sector.
LEMMA HitStep ==
  ASSUME Inv, NEW l \in Lbas, ReadHit(l)
  PROVE  Inv' /\ ContentsFollowFiling /\ (~PartialReads => Lru!Hit(l))
<1> DEFINE i == FindIndex(cache, l)
           c == LruMakeMru(cache, i)
           s == OrderOf(cache)
           t == OrderOf(cache')
<1>1. PICK q : Shape(cache, q)
  BY DEF Inv
<1>2. i # Nil /\ Answer(c, i, l)
  BY DEF ReadHit
<1>3. i \in cache.valid /\ cache.lba[i] = l
  <2>1. cache \in CacheType /\ Filed(cache, cache.valid)
    BY <1>1 DEF Shape
  <2> QED BY <1>2, <2>1, Found
<1>4. PICK k \in 1..Len(q) : q[k] = i
  <2>1. Enumerates(q, cache.valid)
    BY <1>1 DEF Shape, Recent
  <2> QED BY <1>3, <2>1, Enumeration
<1> HIDE DEF i
<1>5. /\ OnlyLru(cache, c)
      /\ \E u : /\ Shape(c, u) /\ Len(u) = Len(q) /\ u[1] = q[k]
                /\ \A n \in 2..Len(q) : u[n] = IF n <= k THEN q[n - 1] ELSE q[n]
  BY <1>1, <1>4, MadeRecent
<1>6. PICK u : /\ Shape(c, u) /\ Len(u) = Len(q) /\ u[1] = q[k]
               /\ \A n \in 2..Len(q) : u[n] = IF n <= k THEN q[n - 1] ELSE q[n]
  BY <1>5
<1> HIDE DEF c
<1>7. i \in c.valid /\ c.lba = cache.lba /\ c.lba[i] = l /\ (~PartialReads => Holds(c))
      /\ Kept(cache, c)
  BY <1>3, <1>5 DEF OnlyLru, Inv, Holds, Kept
<1>8. /\ Inv' /\ Shape(cache', u) /\ cache'.lba = c.lba /\ ContentsFollowFiling
      /\ ~PartialReads => reply' = [ok |-> TRUE, asked |-> l, got |-> l]
  BY <1>2, <1>6, <1>7, Answered
<1>9. /\ s \in Seq(Lbas) /\ Len(s) = Len(q) /\ DOMAIN s = 1..Len(q) /\ Len(q) \in Nat
      /\ \A n \in 1..Len(q) : s[n] = cache.lba[q[n]]
  BY <1>1, Ordered, CacheAssumption
<1>10. t \in Seq(Lbas) /\ Len(t) = Len(u) /\ \A n \in 1..Len(u) : t[n] = cache'.lba[u[n]]
  BY <1>8, Ordered
<1> HIDE DEF s, t
<1>11. s[k] = l /\ k \in 1..Len(s)
  BY <1>3, <1>4, <1>9
<1>12. t[1] = s[k] /\ Len(t) = Len(s)
  <2>1. 1 \in 1..Len(u)
    BY <1>6, <1>9
  <2> QED BY <1>6, <1>7, <1>8, <1>9, <1>10, <2>1
<1>13. ASSUME NEW n \in 2..Len(s)
       PROVE  t[n] = IF n <= k THEN s[n - 1] ELSE s[n]
  <2>1. n \in 1..Len(u) /\ n \in 2..Len(q) /\ n \in 1..Len(q) /\ n - 1 \in 1..Len(q)
    BY <1>6, <1>9
  <2>2. t[n] = cache.lba[IF n <= k THEN q[n - 1] ELSE q[n]]
    BY <1>6, <1>7, <1>8, <1>10, <2>1
  <2> QED BY <1>9, <2>1, <2>2
<1>14. t = <<s[k]>> \o RemoveAt(s, k)
  BY <1>9, <1>10, <1>11, <1>12, <1>13, ToFrontIs
<1>15. /\ k \in DOMAIN LruOrder /\ LruOrder[k] = l
       /\ LruOrder' = <<l>> \o RemoveAt(LruOrder, k)
  BY <1>9, <1>11, <1>14, LruOrderIs DEF s, t
<1>16. LruOrder' = <<l>> \o Lru!RemoveAt(LruOrder, k)
  BY <1>15 DEF RemoveAt, Lru!RemoveAt
<1> QED BY <1>8, <1>15, <1>16 DEF Lru!Hit, Lru!Answers

\* A miss that fetches a run.
LEMMA ClusterStep ==
  ASSUME Inv, NEW l \in Lbas, ReadCluster(l)
  PROVE  Inv' /\ ContentsFollowFiling /\ (~PartialReads => Lru!Miss(l))
<1> DEFINE run == RunLength(cache, l)
           c == Install(cache, [k \in 1..run |-> l + run - k])
           m == l + run - 1
           b == [c EXCEPT !.lastMiss = m]
           i == FindIndex(c, l)
<1>1. PICK q : Shape(cache, q)
  BY DEF Inv
<1>2. FindIndex(cache, l) = Nil /\ HasStreamBuf /\ Answer(b, i, l)
  BY DEF ReadCluster, Sequential
<1>3. /\ run \in 1..ReadAhead /\ l + run - 1 <= MaxLba
      /\ \A x \in cache.valid : \A k \in 0..(run - 1) : cache.lba[x] # l + k
  BY <1>1, <1>2, RunIs
<1>4. run \in Nat /\ run >= 1 /\ l \in Nat /\ m \in Lbas /\ Capacity \in Nat /\ Capacity >= 1
  BY <1>3, CacheAssumption DEF Lbas
<1> HIDE DEF run, i
<1>5. Filled(cache, q, l, run, c, run)
  BY <1>1, <1>3, <1>4, InstalledRun
<1> HIDE DEF c
<1>6. PICK u : /\ Shape(c, u) /\ c.lastMiss = cache.lastMiss
               /\ (Holds(cache) => Holds(c)) /\ Kept(cache, c)
               /\ Len(u) = IF Len(q) + run < Capacity THEN Len(q) + run ELSE Capacity
               /\ \A n \in 1..Len(u) : c.lba[u[n]] = IF n <= run THEN (l + run - run) + n - 1
                                                     ELSE cache.lba[q[n - run]]
  BY <1>5 DEF Filled
<1>7. c \in CacheType /\ Filed(c, c.valid) /\ Enumerates(u, c.valid)
  BY <1>6 DEF Shape, Recent
<1>8. Len(q) \in Nat /\ Len(u) \in Nat /\ \A n \in 1..Len(u) : u[n] \in c.valid
  <2>1. Enumerates(q, cache.valid)
    BY <1>1 DEF Shape, Recent
  <2> QED BY <1>7, <2>1, Enumeration
<1>9. 1 \in 1..Len(u) /\ c.lba[u[1]] = l
  BY <1>4, <1>6, <1>8
<1>10. i \in c.valid /\ c.lba[i] = l
  BY <1>7, <1>8, <1>9, Found DEF i
<1> HIDE DEF m
<1>11. /\ b \in CacheType /\ SameLinks(c, b) /\ b.data = c.data /\ b.valid = c.valid /\ b.lba = c.lba
  BY <1>4, <1>7 DEF CacheType, SameLinks
<1> HIDE DEF b
<1>12. Shape(b, u)
  BY <1>6, <1>11, ShapeKept
<1>13. (~PartialReads => Holds(b)) /\ Kept(cache, b)
  BY <1>6, <1>11 DEF Inv, Holds, Kept
<1>14. /\ Inv' /\ Shape(cache', u) /\ cache'.lba = b.lba /\ ContentsFollowFiling
       /\ ~PartialReads => reply' = [ok |-> TRUE, asked |-> l, got |-> l]
  BY <1>2, <1>10, <1>11, <1>12, <1>13, Answered
<1>15. ~PartialReads => Lru!Miss(l)
  <2>1. run \in 1..(IF HasStreamBuf THEN ReadAhead ELSE 1)
    BY <1>2, <1>3
  <2>2. \A n \in 1..Len(u) : cache'.lba[u[n]] = IF n <= run THEN l + n - 1 ELSE cache.lba[q[n - run]]
    <3>1. l + run - run = l
      BY <1>4
    <3> QED BY <1>6, <1>11, <1>14, <3>1
  <2> QED BY <1>1, <1>3, <1>6, <1>14, <2>1, <2>2, MissIs
<1> QED BY <1>14, <1>15

\* A sector that no lookup finds is filed under no entry.
LEMMA NotFound ==
  ASSUME NEW c, NEW q, Shape(c, q), NEW l \in Lbas, FindIndex(c, l) = Nil
  PROVE  \A x \in c.valid : c.lba[x] # l
<1>1. c \in CacheType /\ Filed(c, c.valid) /\ Nil \notin c.valid
  BY NilIsNone DEF Shape, CacheType
<1> QED BY <1>1, Found

\* The order after a run of one sector.
OneMore(c, q, l, e, u) ==
  /\ Len(u) = IF Len(q) + 1 < Capacity THEN Len(q) + 1 ELSE Capacity
  /\ \A k \in 1..Len(u) : e.lba[u[k]] = IF k <= 1 THEN l + k - 1 ELSE c.lba[q[k - 1]]

\* Brings says the same of it.
LEMMA BringsOrder ==
  ASSUME NEW c, NEW q, Shape(c, q), NEW i, NEW l \in Lbas, NEW e, NEW u, Brings(c, q, i, l, e, u)
  PROVE  OneMore(c, q, l, e, u)
<1>1. Enumerates(q, c.valid)
  BY DEF Shape, Recent
<1>2. Len(q) \in Nat /\ Len(q) <= Capacity /\ Capacity \in Nat
  BY <1>1, EnumerationLength, CacheAssumption
<1>3. /\ Len(u) = (IF Len(q) < Capacity THEN Len(q) + 1 ELSE Capacity)
      /\ e.lba[u[1]] = l /\ \A n \in 2..Len(u) : e.lba[u[n]] = c.lba[q[n - 1]]
  BY DEF Brings
<1>4. l \in Nat /\ l + 1 - 1 = l
  BY CacheAssumption DEF Lbas
<1>5. Len(u) = IF Len(q) + 1 < Capacity THEN Len(q) + 1 ELSE Capacity
  BY <1>2, <1>3
<1>6. ASSUME NEW k \in 1..Len(u)
      PROVE  e.lba[u[k]] = IF k <= 1 THEN l + k - 1 ELSE c.lba[q[k - 1]]
  <2>1. CASE k = 1
    BY <1>3, <1>4, <2>1
  <2>2. CASE k # 1
    <3>1. k \in 2..Len(u) /\ ~(k <= 1)
      BY <2>2
    <3> QED BY <1>3, <3>1
  <2> QED BY <2>1, <2>2
<1> QED BY <1>5, <1>6 DEF OneMore

\* A miss that fetches one sector: cache_commit() never gives up.
LEMMA SingleStep ==
  ASSUME Inv, NEW l \in Lbas, ReadSingle(l)
  PROVE  Inv' /\ ContentsFollowFiling /\ (~PartialReads => Lru!Miss(l))
<1> DEFINE i == Reserve(cache)
           dt == [cache.data EXCEPT ![i] = l]
           c == [cache EXCEPT !.data = dt, !.lastMiss = l]
           e == Commit(c, i, l)
<1>1. PICK q : Shape(cache, q)
  BY DEF Inv
<1>2. FindIndex(cache, l) = Nil /\ (IF CommitFails(c, i) THEN Fails(c, l) ELSE Answer(e, i, l))
  BY DEF ReadSingle
<1>3. \A x \in cache.valid : cache.lba[x] # l
  BY <1>1, <1>2, NotFound
<1>4. i \in Idx /\ cache \in CacheType
  BY <1>1, <1>3, Committed DEF Shape
<1>5. dt \in [Idx -> Lbas \cup {Garbage}] /\ dt[i] = l /\ \A x \in Idx \ {i} : dt[x] = cache.data[x]
  BY <1>4 DEF CacheType
<1> HIDE DEF dt, i
<1>6. c \in CacheType /\ SameLinks(cache, c) /\ c.data = dt
  BY <1>4, <1>5 DEF CacheType, SameLinks
<1> HIDE DEF c
<1>7. /\ ~CommitFails(c, i) /\ \E u : Brings(cache, q, i, l, e, u)
  <2>1. c.data[Reserve(cache)] = l /\ \A x \in Idx \ {Reserve(cache)} : c.data[x] = cache.data[x]
    BY <1>5, <1>6 DEF i
  <2> QED BY <1>1, <1>3, <1>6, <2>1, Brought DEF i
<1> HIDE DEF e
<1>8. PICK u : Brings(cache, q, i, l, e, u)
  BY <1>7
<1>9. Answer(e, i, l)
  BY <1>2, <1>7
<1>10. /\ Shape(e, u) /\ i \in e.valid /\ e.lba[i] = l /\ (~PartialReads => Holds(e))
       /\ Kept(cache, e)
  BY <1>8 DEF Brings, Inv
<1>11. /\ Inv' /\ Shape(cache', u) /\ cache'.lba = e.lba /\ ContentsFollowFiling
       /\ ~PartialReads => reply' = [ok |-> TRUE, asked |-> l, got |-> l]
  BY <1>9, <1>10, Answered
<1>a. /\ Len(u) = IF Len(q) + 1 < Capacity THEN Len(q) + 1 ELSE Capacity
      /\ \A k \in 1..Len(u) : e.lba[u[k]] = IF k <= 1 THEN l + k - 1 ELSE cache.lba[q[k - 1]]
  <2>1. OneMore(cache, q, l, e, u)
    BY <1>1, <1>8, BringsOrder
  <2> QED BY <2>1 DEF OneMore
<1>12. ~PartialReads => Lru!Miss(l)
  <2> DEFINE n == 1
  <2>1. /\ n \in 1..(IF HasStreamBuf THEN ReadAhead ELSE 1) /\ l + n - 1 <= MaxLba
        /\ \A x \in cache.valid : \A k \in 0..(n - 1) : cache.lba[x] # l + k
    <3>1. l \in Nat /\ l <= MaxLba /\ MaxLba \in Nat /\ ReadAhead \in Nat \ {0}
      BY CacheAssumption DEF Lbas
    <3>2. \A k \in 0..(n - 1) : l + k = l
      BY <3>1
    <3> QED BY <1>3, <3>1, <3>2
  <2>2. /\ Len(u) = IF Len(q) + n < Capacity THEN Len(q) + n ELSE Capacity
        /\ \A k \in 1..Len(u) : cache'.lba[u[k]] = IF k <= n THEN l + k - 1 ELSE cache.lba[q[k - n]]
    BY <1>11, <1>a
  <2> HIDE DEF n
  <2> QED BY <1>1, <1>11, <2>1, <2>2, MissIs
<1> QED BY <1>11, <1>12

\* The cache after a read that failed: the links are as they were.
LEMMA Unharmed ==
  ASSUME Inv, NEW l, NEW c, NEW q, Shape(cache, q), c \in CacheType, SameLinks(cache, c),
         c.moved = FALSE, ~PartialReads => c.data = cache.data, Fails(c, l),
         \A x \in Idx \ {Reserve(cache)} : c.data[x] = cache.data[x]
  PROVE  Inv' /\ ContentsFollowFiling /\ LruOrder' = LruOrder
<1>1. Shape(c, q)
  BY ShapeKept
<1>2. cache' = Still(c) /\ ptr' = ptr
  BY DEF Fails, Still
<1>3. /\ Shape(cache', q) /\ cache'.moved = FALSE /\ cache'.valid = c.valid
      /\ cache'.lba = c.lba /\ cache'.data = c.data
  BY <1>1, <1>2, StillIs
<1>4. cache'.valid = cache.valid /\ cache'.lba = cache.lba
  BY <1>3 DEF SameLinks
<1>5. ~PartialReads => (Holds(cache) /\ PointerStable)'
  BY <1>2, <1>3, <1>4 DEF Inv, Holds, PointerStable
<1>6. (\E u : Shape(cache, u))'
  BY <1>3
<1>7. Inv'
  BY <1>3, <1>5, <1>6 DEF Inv
<1> DEFINE s == OrderOf(cache)
           t == OrderOf(cache')
<1>8. /\ s \in Seq(Lbas) /\ Len(s) = Len(q) /\ \A n \in 1..Len(q) : s[n] = cache.lba[q[n]]
  BY Ordered
<1>9. /\ t \in Seq(Lbas) /\ Len(t) = Len(q) /\ \A n \in 1..Len(q) : t[n] = cache'.lba[q[n]]
  BY <1>3, Ordered
<1> HIDE DEF s, t
<1>10. t = s
  <2>1. \A n \in 1..Len(s) : s[n] = t[n]
    BY <1>4, <1>8, <1>9
  <2> QED BY <1>8, <1>9, <2>1, SeqEqual
<1>11. ContentsFollowFiling
  <2>1. reply'.ok = FALSE
    BY DEF Fails
  <2>2. cache.valid \subseteq Idx
    BY DEF Shape, CacheType
  <2> QED BY <1>3, <1>4, <2>1, <2>2 DEF ContentsFollowFiling
<1> QED BY <1>7, <1>10, <1>11, LruOrderIs DEF s, t

\* A sector that cannot be read.
LEMMA FailStep ==
  ASSUME Inv, NEW l \in Lbas, ReadFails(l)
  PROVE  Inv' /\ ContentsFollowFiling /\ (~PartialReads => Lru!Fail(l))
<1> DEFINE c == [cache EXCEPT !.lastMiss = l]
           dt == [c.data EXCEPT ![Reserve(cache)] = Garbage]
           b == [c EXCEPT !.data = dt]
<1>1. PICK q : Shape(cache, q)
  BY DEF Inv
<1>2. FindIndex(cache, l) = Nil /\ (Fails(c, l) \/ (PartialReads /\ Fails(b, l)))
  BY DEF ReadFails
<1>3. cache \in CacheType /\ cache.moved = FALSE
  BY <1>1 DEF Shape, Inv
<1>4. c \in CacheType /\ SameLinks(cache, c) /\ c.moved = FALSE /\ c.data = cache.data
  BY <1>3 DEF CacheType, SameLinks
<1> HIDE DEF c
<1>5. /\ dt \in [Idx -> Lbas \cup {Garbage}]
      /\ \A x \in Idx \ {Reserve(cache)} : dt[x] = cache.data[x]
  BY <1>4 DEF CacheType
<1> HIDE DEF dt
<1>6. b \in CacheType /\ SameLinks(cache, b) /\ b.moved = FALSE /\ b.data = dt
  BY <1>4, <1>5 DEF CacheType, SameLinks
<1> HIDE DEF b
<1>7. Inv' /\ ContentsFollowFiling /\ LruOrder' = LruOrder
  <2>1. CASE Fails(c, l)
    BY <1>1, <1>4, <2>1, Unharmed
  <2>2. CASE PartialReads /\ Fails(b, l)
    BY <1>1, <1>5, <1>6, <2>2, Unharmed
  <2> QED BY <1>2, <2>1, <2>2
<1>8. reply' = [ok |-> FALSE, asked |-> l, got |-> 0]
  BY <1>2 DEF Fails
<1>9. l \notin ToSet(LruOrder)
  <2>1. \A y : y \in ToSet(OrderOf(cache)) <=> \E x \in cache.valid : cache.lba[x] = y
    BY <1>1, Ordered
  <2>2. \A x \in cache.valid : cache.lba[x] # l
    BY <1>1, <1>2, NotFound
  <2> QED BY <2>1, <2>2, LruOrderIs
<1>10. l \notin Lru!Cached
  BY <1>9 DEF Lru!Cached, ToSet, Lru!ToSet
<1> QED BY <1>7, <1>8, <1>10 DEF Lru!Fail

\* A sector that read-ahead has fetched.
LEMMA RetainStep ==
  ASSUME Inv, NEW l \in Lbas, Retain(l)
  PROVE  Inv' /\ ContentsFollowFiling /\ (~PartialReads => Lru!Retain(l))
<1> DEFINE e == InstallStep(cache, l, 0)
           s == OrderOf(cache)
           t == OrderOf(cache')
<1>1. PICK q : Shape(cache, q)
  BY DEF Inv
<1>2. cache \in CacheType /\ Filed(cache, cache.valid) /\ cache.moved = FALSE
  BY <1>1 DEF Shape, Inv
<1>3. /\ s \in Seq(Lbas) /\ Len(s) = Len(q) /\ Len(q) \in Nat
      /\ \A n \in 1..Len(q) : s[n] = cache.lba[q[n]]
      /\ \A y : y \in ToSet(s) <=> \E x \in cache.valid : cache.lba[x] = y
  BY <1>1, Ordered, CacheAssumption
<1> HIDE DEF s
<1>4. Lru!Cached = ToSet(s)
  BY LruOrderIs DEF Lru!Cached, ToSet, Lru!ToSet, s
<1>5. CASE FindIndex(cache, l) # Nil
  <2>1. cache' = [cache EXCEPT !.moved = FALSE] /\ ptr' = ptr /\ reply' = reply
    BY <1>2, <1>5 DEF Retain
  <2>2. cache' = cache
    BY <1>2, <2>1 DEF CacheType
  <2>3. Inv' /\ ContentsFollowFiling
    BY <2>1, <2>2 DEF Inv, Holds, PointerStable, ContentsFollowFiling
  <2>4. l \in Lru!Cached
    BY <1>2, <1>3, <1>4, <1>5, Found
  <2>5. LruOrder' = LruOrder
    BY <2>2, LruOrderIs
  <2> QED BY <2>1, <2>3, <2>4, <2>5 DEF Lru!Retain
<1>6. CASE FindIndex(cache, l) = Nil
  <2> DEFINE i == Reserve(cache)
             h == <<l>>
  <2>1. /\ cache' = Still(e) /\ reply' = reply
        /\ ptr' = IF e.moved THEN [idx |-> Nil, lba |-> 0] ELSE ptr
    BY <1>6, InstallSingle DEF Retain, Still
  <2>2. \A x \in cache.valid : cache.lba[x] # l
    BY <1>1, <1>6, NotFound
  <2> HIDE DEF i
  <2>3. PICK u : Brings(cache, q, i, l, e, u)
    BY <1>1, <2>2, InstalledOne DEF i
  <2> HIDE DEF e
  <2>4. /\ Shape(e, u) /\ e.valid = cache.valid \cup {i} /\ i \in Idx
        /\ \A x \in Idx \ {i} : e.data[x] = cache.data[x]
        /\ (Holds(cache) => Holds(e)) /\ Kept(cache, e)
        /\ i \in cache.valid => e.moved
    BY <2>3 DEF Brings
  <2>5. /\ Shape(cache', u) /\ cache'.moved = FALSE /\ cache'.valid = e.valid
        /\ cache'.lba = e.lba /\ cache'.data = e.data
    BY <2>1, <2>4, StillIs
  <2>6. ASSUME ~PartialReads
        PROVE  Holds(cache)' /\ PointerStable'
    <3>1. Holds(e) /\ PointerStable
      BY <2>4, <2>6 DEF Inv
    <3>2. Holds(cache)'
      BY <2>5, <3>1 DEF Holds
    <3>3. CASE e.moved
      <4>1. ptr'.idx = Nil
        BY <2>1, <3>3
      <4> QED BY <3>2, <4>1 DEF PointerStable
    <3>4. CASE ~e.moved
      <4>1. ptr' = ptr /\ i \notin cache.valid
        BY <2>1, <2>4, <3>4
      <4>2. \A x \in cache.valid : x \in cache'.valid /\ cache'.data[x] = cache.data[x]
        <5>1. cache.valid \subseteq Idx
          BY <1>2 DEF CacheType
        <5> QED BY <2>4, <2>5, <4>1, <5>1
      <4>3. PointerStable'
        BY <3>1, <4>1, <4>2 DEF PointerStable
      <4> QED BY <3>2, <4>3
    <3> QED BY <3>3, <3>4
  <2>7. (\E v : Shape(cache, v))'
    BY <2>5
  <2>8. Inv' /\ ContentsFollowFiling
    BY <2>4, <2>5, <2>6, <2>7 DEF Inv, Kept, ContentsFollowFiling
  <2>9. /\ Len(u) = IF Len(q) + 1 < Capacity THEN Len(q) + 1 ELSE Capacity
        /\ \A k \in 1..Len(u) : e.lba[u[k]] = IF k <= 1 THEN l + k - 1 ELSE cache.lba[q[k - 1]]
    <3>1. OneMore(cache, q, l, e, u)
      BY <1>1, <2>3, BringsOrder
    <3> QED BY <3>1 DEF OneMore
  <2>10. t \in Seq(Lbas) /\ Len(t) = Len(u) /\ \A k \in 1..Len(u) : t[k] = cache'.lba[u[k]]
    BY <2>5, Ordered
  <2> HIDE DEF t
  <2>11. h \in Seq(Lbas) /\ Len(h) = 1 /\ h[1] = l
    OBVIOUS
  <2> HIDE DEF h
  <2>12. ASSUME NEW k \in 1..Len(t)
         PROVE  t[k] = IF k <= Len(h) THEN h[k] ELSE s[k - Len(h)]
    <3>1. /\ k \in 1..Len(u) /\ k \in Nat /\ l \in Nat
          /\ t[k] = IF k <= 1 THEN l + k - 1 ELSE cache.lba[q[k - 1]]
      BY <2>5, <2>9, <2>10, CacheAssumption DEF Lbas
    <3>2. CASE k = 1
      <4>1. l + 1 - 1 = l
        BY <3>1
      <4> QED BY <2>11, <3>1, <3>2, <4>1
    <3>3. CASE k # 1
      <4>1. k - 1 \in 1..Len(q) /\ ~(k <= 1)
        BY <1>3, <2>9, <2>10, <3>1, <3>3, CacheAssumption
      <4> QED BY <1>3, <2>11, <3>1, <4>1
    <3> QED BY <3>2, <3>3
  <2>13. Len(t) = IF Len(s) + Len(h) < Capacity THEN Len(s) + Len(h) ELSE Capacity
    BY <1>3, <2>9, <2>10, <2>11
  <2>14. t = Lru!Keep(h \o s)
    BY <1>3, <2>10, <2>11, <2>12, <2>13, KeepIs, ZenonT(40)
  <2>15. l \notin Lru!Cached
    BY <1>3, <1>4, <2>2
  <2>16. LruOrder' = Lru!Keep(<<l>> \o LruOrder)
    BY <2>14, LruOrderIs DEF s, t, h
  <2> QED BY <2>1, <2>8, <2>15, <2>16 DEF Lru!Retain
<1> QED BY <1>5, <1>6

\* odfs_cache_flush().
LEMMA FlushStep ==
  ASSUME Inv, Flush
  PROVE  Inv' /\ ContentsFollowFiling /\ Lru!Flush
<1> DEFINE bk == [b \in 0..(HashSize - 1) |-> Nil]
           no == [i \in Idx |-> Nil]
           ln == [i \in Idx |-> IF i + 1 < Capacity THEN i + 1 ELSE Nil]
           d == cache'
<1>1. cache \in CacheType
  BY DEF Inv, Shape
<1>2. /\ d = [bucket |-> bk, next |-> no, prev |-> no, lnext |-> ln, free |-> 0, head |-> Nil,
              tail |-> Nil, valid |-> {}, lba |-> cache.lba, data |-> cache.data, count |-> 0,
              lastMiss |-> cache.lastMiss, moved |-> FALSE]
      /\ ptr' = [idx |-> Nil, lba |-> 0] /\ reply' = reply
  BY DEF Flush, EmptyCache
<1>3. /\ bk \in [Buckets -> Links] /\ no \in [Idx -> Links] /\ ln \in [Idx -> Links]
      /\ 0 \in Links /\ Nil \in Links
  BY CacheAssumption DEF Buckets, Links, Idx
<1>4. EmptyCache.bucket = bk /\ EmptyCache.lnext = ln
  BY DEF EmptyCache
<1> HIDE DEF bk, no, ln
<1>5. Bare(d) /\ d.moved = FALSE /\ d.valid = {}
  <2>1. d \in CacheType
    BY <1>1, <1>2, <1>3 DEF CacheType
  <2> QED BY <1>2, <1>4, <2>1 DEF Bare
<1>6. Shape(d, <<>>) /\ OrderOf(d) = <<>>
  BY <1>5, BareShape
<1>7. Holds(cache)' /\ PointerStable'
  BY <1>2, <1>5 DEF Holds, PointerStable
<1>8. (\E v : Shape(cache, v))'
  BY <1>6
<1>9. Inv' /\ ContentsFollowFiling
  BY <1>5, <1>7, <1>8 DEF Inv, ContentsFollowFiling
<1>10. LruOrder' = <<>>
  BY <1>6, LruOrderIs
<1> QED BY <1>2, <1>9, <1>10 DEF Lru!Flush

\* The cache odfs_cache_init() makes.
LEMMA InitStep ==
  ASSUME Init
  PROVE  Inv /\ Lru!Init
<1> DEFINE bk == [b \in 0..(HashSize - 1) |-> Nil]
           no == [i \in Idx |-> Nil]
           ln == [i \in Idx |-> IF i + 1 < Capacity THEN i + 1 ELSE Nil]
           lb == [i \in Idx |-> 0]
           dt == [i \in Idx |-> Garbage]
<1>1. /\ cache = [bucket |-> bk, next |-> no, prev |-> no, lnext |-> ln, free |-> 0, head |-> Nil,
                  tail |-> Nil, valid |-> {}, lba |-> lb, data |-> dt, count |-> 0,
                  lastMiss |-> 0, moved |-> FALSE]
      /\ ptr = [idx |-> Nil, lba |-> 0] /\ reply = [ok |-> FALSE, asked |-> 0, got |-> 0]
  BY DEF Init, EmptyCache
<1>2. /\ bk \in [Buckets -> Links] /\ no \in [Idx -> Links] /\ ln \in [Idx -> Links]
      /\ 0 \in Links /\ Nil \in Links /\ lb \in [Idx -> Lbas] /\ 0 \in Lbas
      /\ dt \in [Idx -> Lbas \cup {Garbage}]
  BY CacheAssumption DEF Buckets, Links, Idx, Lbas
<1>3. EmptyCache.bucket = bk /\ EmptyCache.lnext = ln
  BY DEF EmptyCache
<1> HIDE DEF bk, no, ln, lb, dt
<1>4. Bare(cache) /\ cache.moved = FALSE /\ cache.valid = {}
  <2>1. cache \in CacheType
    BY <1>1, <1>2 DEF CacheType
  <2> QED BY <1>1, <1>3, <2>1 DEF Bare
<1>5. Shape(cache, <<>>) /\ OrderOf(cache) = <<>>
  BY <1>4, BareShape
<1>6. Holds(cache) /\ PointerStable
  BY <1>1, <1>4 DEF Holds, PointerStable
<1>7. Inv
  BY <1>4, <1>5, <1>6 DEF Inv
<1> QED BY <1>1, <1>5, <1>7, LruOrderIs DEF Lru!Init

\* Every call keeps the invariant and is a step of LruCache, or none.
LEMMA NextStep ==
  ASSUME Inv, [Next]_vars
  PROVE  Inv' /\ [ContentsFollowFiling]_vars /\ (~PartialReads => [Lru!Next]_Lru!vars)
<1>1. CASE UNCHANGED vars
  <2>1. UNCHANGED <<cache, reply, ptr>>
    BY <1>1 DEF vars
  <2>2. Inv'
    BY <2>1 DEF Inv, Holds, PointerStable
  <2>3. UNCHANGED Lru!vars
    BY <2>1, LruOrderIs DEF Lru!vars
  <2> QED BY <1>1, <2>2, <2>3
<1>2. ASSUME NEW l \in Wanted, ReadHit(l) \/ ReadCluster(l) \/ ReadSingle(l) \/ ReadFails(l) \/ Retain(l)
      PROVE  Inv' /\ [ContentsFollowFiling]_vars /\ (~PartialReads => [Lru!Next]_Lru!vars)
  <2>1. l \in Lbas
    BY CacheAssumption
  <2>2. CASE ReadHit(l)
    BY <2>1, <2>2, HitStep DEF Lru!Next
  <2>3. CASE ReadCluster(l)
    BY <2>1, <2>3, ClusterStep DEF Lru!Next
  <2>4. CASE ReadSingle(l)
    BY <2>1, <2>4, SingleStep DEF Lru!Next
  <2>5. CASE ReadFails(l)
    BY <2>1, <2>5, FailStep DEF Lru!Next
  <2>6. CASE Retain(l)
    BY <2>1, <2>6, RetainStep DEF Lru!Next
  <2> QED BY <1>2, <2>2, <2>3, <2>4, <2>5, <2>6
<1>3. CASE Flush
  BY <1>3, FlushStep DEF Lru!Next
<1> QED BY <1>1, <1>2, <1>3 DEF Next

\* The invariant holds throughout.
THEOREM InvCorrect == Spec => []Inv
<1>1. Init => Inv
  BY InitStep
<1>2. Inv /\ [Next]_vars => Inv'
  BY NextStep
<1> QED BY <1>1, <1>2, PTL DEF Spec

\* The shape is what LinksConsistent and the type invariant ask for.
LEMMA ShapeSays ==
  ASSUME Inv
  PROVE  LinksConsistent /\ TypeOK
<1>1. PICK q : Shape(cache, q)
  BY DEF Inv
<1>2. /\ cache \in CacheType /\ Enumerates(q, cache.valid) /\ Runs(cache.head, cache.lnext, q)
      /\ Free(cache, Idx \ cache.valid) /\ Filed(cache, cache.valid)
      /\ cache.count = Cardinality(cache.valid)
  BY <1>1 DEF Shape, Recent
<1>3. PICK r : Mirror(q, r) /\ Runs(cache.tail, cache.prev, r)
  BY <1>1 DEF Shape, Recent
<1>4. Enumerates(r, cache.valid) /\ \A i \in 1..Len(q) : q[i] = r[Len(q) + 1 - i]
  BY <1>2, <1>3, MirrorIs
<1>5. PICK f : Enumerates(f, Idx \ cache.valid) /\ Runs(cache.free, cache.lnext, f)
  BY <1>2 DEF Free
<1>6. /\ Elements(cache.head, cache.lnext) = cache.valid /\ Terminated(cache.head, cache.lnext)
      /\ Elements(cache.tail, cache.prev) = cache.valid
      /\ Elements(cache.free, cache.lnext) = Idx \ cache.valid
      /\ Terminated(cache.free, cache.lnext)
  BY <1>2, <1>3, <1>4, <1>5, ElementsAre
<1>7. ASSUME NEW b \in Buckets
      PROVE  /\ Terminated(cache.bucket[b], cache.next)
             /\ Elements(cache.bucket[b], cache.next) = {i \in cache.valid : Hash(cache.lba[i]) = b}
  <2>1. PICK h : Enumerates(h, Hashed(cache, cache.valid, b)) /\ Runs(cache.bucket[b], cache.next, h)
    BY <1>2, FiledIs
  <2>2. /\ Elements(cache.bucket[b], cache.next) = Hashed(cache, cache.valid, b)
        /\ Terminated(cache.bucket[b], cache.next)
    BY <2>1, ElementsAre
  <2> QED BY <2>2 DEF Hashed
<1>8. ASSUME NEW i \in cache.valid, NEW j \in cache.valid
      PROVE  cache.lnext[i] = j <=> cache.prev[j] = i
  <2> DEFINE N == Len(q)
  <2>1. /\ N \in Nat /\ \A x \in cache.valid : \E k \in 1..N : q[k] = x
        /\ \A k, m \in 1..N : q[k] = q[m] => k = m
        /\ cache.valid \subseteq Idx
    BY <1>2, Enumeration
  <2>2. PICK k \in 1..N : q[k] = i
    BY <2>1
  <2>3. PICK m \in 1..N : q[m] = j
    BY <2>1
  <2>4. cache.lnext[i] = IF k = N THEN Nil ELSE q[k + 1]
    BY <1>2, <2>2 DEF Runs
  <2>5. Nil # i /\ Nil # j
    BY <2>1, NilIsNone
  <2>6. cache.prev[j] = IF m = 1 THEN Nil ELSE q[m - 1]
    <3> DEFINE y == N + 1 - m
    <3>1. y \in 1..N /\ Len(r) = N /\ N + 1 - y = m
      BY <1>3, <2>1, SMTT(40) DEF Mirror
    <3>2. \A x \in 1..N : r[x] = q[N + 1 - x]
      BY <1>3 DEF Mirror
    <3>3. r[y] = j
      BY <2>3, <3>1, <3>2
    <3>4. cache.prev[r[y]] = IF y = N THEN Nil ELSE r[y + 1]
      BY <1>3, <3>1 DEF Runs
    <3>5. CASE m = 1
      <4>1. y = N
        BY <2>1, <3>5
      <4> QED BY <3>3, <3>4, <3>5, <4>1
    <3>6. CASE m # 1
      <4>1. y # N /\ y + 1 \in 1..N /\ N + 1 - (y + 1) = m - 1
        BY <2>1, <3>6
      <4>2. r[y + 1] = q[m - 1]
        BY <3>2, <4>1
      <4> QED BY <3>3, <3>4, <3>6, <4>1, <4>2
    <3> QED BY <3>5, <3>6
  <2> HIDE DEF N
  <2>7. ASSUME cache.lnext[i] = j PROVE cache.prev[j] = i
    <3>1. k # N /\ q[k + 1] = j
      BY <2>4, <2>5, <2>7
    <3>2. k + 1 \in 1..N
      BY <2>1, <3>1
    <3>3. k + 1 = m
      BY <2>1, <2>3, <3>1, <3>2
    <3>4. m # 1 /\ m - 1 = k
      BY <2>1, <3>3
    <3> QED BY <2>2, <2>6, <3>4
  <2>8. ASSUME cache.prev[j] = i PROVE cache.lnext[i] = j
    <3>1. m # 1 /\ q[m - 1] = i
      BY <2>5, <2>6, <2>8
    <3>2. m - 1 \in 1..N
      BY <2>1, <3>1
    <3>3. m - 1 = k
      BY <2>1, <2>2, <3>1, <3>2
    <3>4. k # N /\ k + 1 = m
      BY <2>1, <3>3
    <3> QED BY <2>3, <2>4, <3>4
  <2> QED BY <2>7, <2>8
<1>9. LinksConsistent
  BY <1>2, <1>6, <1>7, <1>8 DEF LinksConsistent, Buckets
<1>10. cache.count \in 0..Capacity
  BY <1>2, EnumerationLength
<1>11. TypeOK
  BY <1>2, <1>10 DEF TypeOK, CacheType, Buckets, Links
<1> QED BY <1>9, <1>11

\* The links that lru_remove(), lru_insert_head(), cache_pop_free() and the
\* index functions splice are one structure after every call, whatever the
\* capacity, and also when a failing read spoils a buffer.
THEOREM LinksCorrect == Spec => []LinksConsistent
<1>1. Inv => LinksConsistent
  BY ShapeSays
<1> QED BY <1>1, InvCorrect, PTL

\* The fields of the cache stay in their ranges.
THEOREM TypeCorrect == Spec => []TypeOK
<1>1. Inv => TypeOK
  BY ShapeSays
<1> QED BY <1>1, InvCorrect, PTL

\* The contents of a valid entry follow its filing, whichever reads fail and
\* whatever they leave in the buffer: all a failed read can spoil is the entry
\* that cache_reserve() named for it.
THEOREM ContentsCorrect == Spec => SpoilsOnlyVictim
<1>1. Inv /\ [Next]_vars => [ContentsFollowFiling]_vars
  BY NextStep
<1> QED BY <1>1, InvCorrect, PTL DEF Spec, SpoilsOnlyVictim

\* If a device read that fails leaves its buffer alone, a pointer that was kept while the generation
\* stood still points to the sector it was got for.
THEOREM PointerCorrect ==
  ASSUME ~PartialReads
  PROVE  Spec => []PointerStable
<1>1. Inv => PointerStable
  BY DEF Inv
<1> QED BY <1>1, InvCorrect, PTL

\* Under the same assumption the cache implements LruCache: its list, read as sectors, is the order
\* of a bounded LRU cache, and every answer is the sector asked for.
THEOREM Refinement ==
  ASSUME ~PartialReads
  PROVE  Spec => ImplementsLru
<1>1. Init => Lru!Init
  BY InitStep
<1>2. Inv /\ [Next]_vars => [Lru!Next]_Lru!vars
  BY NextStep
<1> QED BY <1>1, <1>2, InvCorrect, PTL DEF Spec, ImplementsLru, Lru!Spec

-----------------------------------------------------------------------------
(* odfs_cache_read_bytes(), the reader above the cache, delivers the bytes *)
(* asked for, in order, for every sector size, width of sector numbers,    *)
(* offset, length and smallest run, wherever a read fails.                 *)
(*                                                                         *)
(* The bytes are right because the next sector is always the one that      *)
(* holds the next byte: First + done = lba * SectorSize.  That equation is *)
(* lost in one case only, when all bytes are delivered and the number of   *)
(* the next sector has wrapped; then nothing more is read.                 *)

\* Between the entry and the return.
Reading == pc \in {"head", "stream", "full"}

\* Nothing has been read before the loops begin, *len is the caller's, and the
\* first byte can be addressed.
ReadBeforeEnd ==
  /\ pc = "enter" => done = 0
  /\ pc # "end" => err = "none" /\ len = want
  /\ Reading => First < Limit

\* A partial first sector begins before the first byte asked for; from then on the
\* next sector begins with the next byte, as long as there is one.
ReadPosition ==
  /\ pc = "head" => done = 0 /\ lba * SectorSize + (offset % SectorSize) = First
  /\ pc \in {"stream", "full"} /\ done < want => lba * SectorSize = First + done

ReadInv == ReadTypeOK /\ BytesExact /\ ResultExact /\ ReadBeforeEnd /\ ReadPosition

-----------------------------------------------------------------------------
(* Arithmetic of byte ranges.                                              *)

\* Quotient and remainder.
LEMMA DivMod ==
  ASSUME NEW a \in Nat, NEW b \in Nat \ {0}
  PROVE  /\ a \div b \in Nat /\ a % b \in 0..(b - 1)
         /\ a = (a \div b) * b + (a % b)
OBVIOUS

\* Products of naturals are naturals that grow with their factors.
LEMMA Products ==
  ASSUME NEW a \in Nat, NEW b \in Nat, NEW c \in Nat
  PROVE  /\ a * c \in Nat
         /\ (a + b) * c = a * c + b * c
         /\ a <= b => a * c <= b * c
<1>1. a * c \in Nat /\ (a + b) * c = a * c + b * c
  OBVIOUS
<1>2. ASSUME a <= b PROVE a * c <= b * c
  <2>1. PICK d \in Nat : b = a + d
    BY <1>2
  <2>2. b * c = a * c + d * c /\ d * c \in Nat /\ a * c \in Nat
    BY <2>1
  <2> QED
    BY <2>2
<1> QED
  BY <1>1, <1>2

-----------------------------------------------------------------------------
(* Byte strings.                                                           *)

\* A run of addresses is a sequence.
LEMMA BytesType ==
  ASSUME NEW f \in Nat, NEW n \in Nat
  PROVE  Bytes(f, n) \in Seq(Nat)
<1>1. Bytes(f, n) \in [1..n -> Nat]
  BY DEF Bytes
<1> QED
  BY <1>1, SeqDef

-----------------------------------------------------------------------------
(* The steps.                                                              *)

\* Addresses are naturals, and the sector of the first byte is its quotient.
LEMMA Addresses ==
  ASSUME ReadTypeOK
  PROVE  /\ First \in Nat /\ Limit \in Nat /\ lba * SectorSize \in Nat
         /\ Limit = LastLba * SectorSize + SectorSize
<1> USE ReadAssumption DEF ReadTypeOK
<1>1. start_lba * SectorSize \in Nat /\ lba * SectorSize \in Nat
  BY Products
<1>2. (LastLba + 1) * SectorSize = LastLba * SectorSize + SectorSize /\ LastLba * SectorSize \in Nat
  BY Products
<1> QED
  BY <1>1, <1>2 DEF First, Limit

\* The checks at the entry: a range that begins behind the last sector is refused,
\* any other begins in the sector computed.
LEMMA EnterSafe == ReadInv /\ Enter => ReadInv'
<1> SUFFICES ASSUME ReadInv, Enter PROVE ReadInv'
  OBVIOUS
<1> DEFINE q == offset \div SectorSize
           r == offset % SectorSize
<1>1. q \in Nat /\ r \in 0..(SectorSize - 1) /\ offset = q * SectorSize + r
  BY DivMod, ReadAssumption DEF ReadInv, ReadTypeOK
<1>2. (start_lba + q) * SectorSize = start_lba * SectorSize + q * SectorSize
  BY <1>1, Products, ReadAssumption DEF ReadInv, ReadTypeOK
<1>3. First = (start_lba + q) * SectorSize + r
  <2>1. start_lba * SectorSize \in Nat /\ q * SectorSize \in Nat
    BY <1>1, Products, ReadAssumption DEF ReadInv, ReadTypeOK
  <2> QED
    BY <1>1, <1>2, <2>1 DEF First
<1> HIDE DEF q, r
<1>4. First \in Nat /\ Limit \in Nat /\ Limit = LastLba * SectorSize + SectorSize
  BY Addresses DEF ReadInv
<1>5. (start_lba + q) * SectorSize \in Nat /\ LastLba * SectorSize \in Nat
  BY <1>1, Products, ReadAssumption DEF ReadInv, ReadTypeOK
<1>6. UNCHANGED <<First, Limit>>
  BY DEF Enter, args, First, Limit
<1>7. CASE want = 0
  BY <1>7, <1>4, <1>6 DEF Enter, Return, ReadInv, ReadTypeOK, BytesExact, ResultExact, ReadBeforeEnd,
     ReadPosition, Reading, args
<1>8. CASE want # 0 /\ start_lba + q > LastLba
  <2>1. (LastLba + 1) * SectorSize <= (start_lba + q) * SectorSize
    BY <1>8, <1>1, Products, ReadAssumption DEF ReadInv, ReadTypeOK
  <2>2. First >= Limit
    BY <2>1, <1>1, <1>3, <1>4, <1>5 DEF Limit
  <2>3. pc' = "end" /\ err' = "range" /\ len' = len /\ UNCHANGED <<lba, args, done, out>>
    BY <1>8 DEF Enter, Return, q
  <2> QED
    BY <2>2, <2>3, <1>8, <1>4, <1>6 DEF ReadInv, ReadTypeOK, BytesExact, ResultExact, ReadBeforeEnd, ReadPosition,
       Reading, args
<1>9. CASE want # 0 /\ start_lba + q <= LastLba
  <2>1. (start_lba + q) * SectorSize <= LastLba * SectorSize
    BY <1>9, <1>1, Products, ReadAssumption DEF ReadInv, ReadTypeOK
  <2>2. First < Limit
    BY <2>1, <1>1, <1>3, <1>4, <1>5, ReadAssumption
  <2>3. /\ lba' = start_lba + q /\ pc' = (IF r # 0 THEN "head" ELSE "stream")
        /\ UNCHANGED <<len, err, args, done, out>>
    BY <1>9, <1>1, ReadAssumption DEF Enter, q, r, ReadInv, ReadTypeOK
  <2>4. lba' * SectorSize + (offset % SectorSize) = First /\ r = offset % SectorSize
    BY <2>3, <1>3 DEF r
  <2>5. ReadTypeOK'
    BY <2>3, <1>9, <1>1 DEF ReadInv, ReadTypeOK, args
  <2>6. ReadPosition'
    BY <2>3, <2>4, <1>1, <1>4, <1>5, <1>6 DEF ReadInv, ReadPosition, ReadBeforeEnd, Enter, args
  <2> QED
    BY <2>2, <2>3, <2>5, <2>6, <1>6 DEF ReadInv, BytesExact, ResultExact, ReadBeforeEnd, Reading, args, Enter
<1> QED
  BY <1>1, <1>7, <1>8, <1>9, ReadAssumption DEF ReadInv, ReadTypeOK

\* Delivering bytes that begin with the next one, up to the end of a sector or of
\* the range, keeps the position; where the sector numbers end, the call returns
\* with exactly the bytes that can be addressed.
LEMMA DeliverSafe ==
  ASSUME ReadInv, Reading, NEW from \in Nat, NEW n \in Nat, NEW count \in Nat,
         NEW then \in {"stream", "full"}, Deliver(from, n, count, then),
         lba * SectorSize + from = First + done,
         done + n <= want,
         done + n = want \/ from + n = count * SectorSize,
         lba + count <= LastLba + 1
  PROVE  ReadInv'
<1>1. /\ First \in Nat /\ Limit \in Nat /\ lba * SectorSize \in Nat
      /\ Limit = LastLba * SectorSize + SectorSize
  BY Addresses DEF ReadInv
<1>2. UNCHANGED <<First, Limit>> /\ UNCHANGED args
  BY DEF Deliver, args, First, Limit
<1>. done \in Nat /\ done + n \in Nat
  BY DEF ReadInv, ReadTypeOK
<1>3. BytesExact'
  <2>1. out' = Bytes(First, done) \o Bytes(First + done, n)
    BY DEF Deliver, ReadInv, BytesExact
  <2>2. out' = Bytes(First, done + n)
    BY <2>1, <1>1 DEF Bytes
  <2> QED
    BY <2>2, <1>2 DEF Deliver, BytesExact
<1>4. out' \in Seq(Nat)
  BY <1>1, <1>2, <1>3, BytesType DEF BytesExact, Deliver
<1>5. (lba + count) * SectorSize = lba * SectorSize + count * SectorSize
      /\ count * SectorSize \in Nat
  BY Products, ReadAssumption DEF ReadInv, ReadTypeOK
<1>6. CASE Beyond(n, count)
  <2>1. /\ pc' = "end" /\ err' = "range" /\ len' = done + n /\ done' = done + n
        /\ lba' = lba
    BY <1>6 DEF Deliver, Return
  <2>2. lba + count = LastLba + 1 /\ done + n < want
    BY <1>6, ReadAssumption DEF Beyond, ReadInv, ReadTypeOK
  <2>3. First + done + n = Limit
    BY <2>2, <1>1, <1>5, ReadAssumption DEF Limit, ReadInv, ReadTypeOK
  <2>4. ReadTypeOK'
    BY <2>1, <2>2, <1>2, <1>4 DEF ReadInv, ReadTypeOK, args
  <2>5. ResultExact'
    BY <2>1, <2>2, <2>3, <1>1, <1>2 DEF ReadInv, ReadTypeOK, ResultExact, ReadBeforeEnd, args
  <2> QED
    BY <1>3, <2>1, <2>4, <2>5 DEF ReadInv, ReadBeforeEnd, ReadPosition, Reading
<1>7. CASE ~Beyond(n, count)
  <2>1. /\ pc' = then /\ done' = done + n /\ UNCHANGED <<len, err>>
        /\ lba' = (lba + count) % (LastLba + 1)
    BY <1>7 DEF Deliver
  <2>2. lba' \in 0..LastLba
    BY <2>1, ReadAssumption DEF ReadInv, ReadTypeOK
  <2>3. ReadTypeOK'
    BY <2>1, <2>2, <1>2, <1>4 DEF ReadInv, ReadTypeOK, args
  <2>4. ASSUME done' < want PROVE lba' * SectorSize = First + done'
    <3>1. lba + count <= LastLba /\ from + n = count * SectorSize
      BY <1>7, <2>1, <2>4, ReadAssumption DEF Beyond, ReadInv, ReadTypeOK
    <3>2. lba' = lba + count
      BY <2>1, <3>1, ReadAssumption, SMTT(40) DEF ReadInv, ReadTypeOK
    <3>3. lba' * SectorSize = lba * SectorSize + count * SectorSize
      BY <3>2, <1>5
    <3> QED
      BY <2>1, <3>1, <3>3, <1>1, <1>5
  <2>5. ReadBeforeEnd'
    BY <2>1, <1>2 DEF ReadInv, ReadBeforeEnd, Reading, args
  <2>6. ReadPosition'
    BY <2>1, <2>4, <1>2 DEF ReadPosition, args
  <2>7. ResultExact'
    BY <2>1, <2>5 DEF ResultExact, ReadBeforeEnd
  <2> QED
    BY <1>3, <2>3, <2>5, <2>6, <2>7 DEF ReadInv
<1> QED
  BY <1>6, <1>7

\* The partial first sector.
LEMMA HeadSafe == ReadInv /\ HeadSector => ReadInv'
<1> SUFFICES ASSUME ReadInv, HeadSector PROVE ReadInv'
  OBVIOUS
<1> DEFINE off == offset % SectorSize
           n == Least(SectorSize - off, want)
<1>1. off \in 0..(SectorSize - 1)
  BY DivMod, ReadAssumption DEF ReadInv, ReadTypeOK
<1>2. Deliver(off, n, 1, "stream") /\ pc = "head"
  BY DEF HeadSector
<1>3. done = 0 /\ lba * SectorSize + off = First
  BY <1>2 DEF ReadInv, ReadPosition
<1>4. n \in Nat /\ n <= want /\ (n = want \/ off + n = SectorSize)
  BY <1>1, ReadAssumption DEF Least, ReadInv, ReadTypeOK
<1>5. First \in Nat /\ 1 * SectorSize = SectorSize
  BY Addresses, ReadAssumption DEF ReadInv
<1> HIDE DEF off, n
<1>6. lba * SectorSize + off = First + done /\ done + n = n /\ lba + 1 <= LastLba + 1
  BY <1>3, <1>4, <1>5, ReadAssumption DEF ReadInv, ReadTypeOK
<1> QED
  BY <1>1, <1>2, <1>4, <1>5, <1>6, DeliverSafe DEF Reading

\* What is left divides into whole sectors and a rest.
LEMMA SectorsLeft ==
  ASSUME ReadTypeOK
  PROVE  /\ Sectors \in Nat /\ Sectors * SectorSize <= want - done
         /\ Sectors >= 1 => done < want
         /\ Sectors = 0 => want - done < SectorSize
<1>1. want - done \in Nat
  BY DEF ReadTypeOK
<1>2. /\ Sectors \in Nat /\ (want - done) % SectorSize \in 0..(SectorSize - 1)
      /\ want - done = Sectors * SectorSize + ((want - done) % SectorSize)
  BY <1>1, DivMod, ReadAssumption DEF Sectors
<1>3. Sectors * SectorSize \in Nat /\ (Sectors >= 1 => 1 * SectorSize <= Sectors * SectorSize)
  BY <1>2, Products, ReadAssumption
<1> QED
  BY <1>1, <1>2, <1>3, ReadAssumption DEF ReadTypeOK

\* A run of whole sectors.
LEMMA StreamSafe == ReadInv /\ Stream => ReadInv'
<1> SUFFICES ASSUME ReadInv, Stream PROVE ReadInv'
  OBVIOUS
<1>1. /\ Sectors \in Nat /\ Sectors >= 1 /\ done < want
      /\ Sectors * SectorSize <= want - done /\ Sectors * SectorSize \in Nat
  BY SectorsLeft, Products, ReadAssumption DEF ReadInv, Stream
<1>2. Run \in Nat /\ Run <= Sectors /\ lba + Run <= LastLba + 1
  BY <1>1, ReadAssumption DEF Run, Least, ReadInv, ReadTypeOK
<1>3. Run * SectorSize \in Nat /\ Run * SectorSize <= Sectors * SectorSize
  BY <1>1, <1>2, Products, ReadAssumption
<1>4. done + Run * SectorSize <= want /\ 0 + Run * SectorSize = Run * SectorSize
  BY <1>1, <1>3 DEF ReadInv, ReadTypeOK
<1>5. lba * SectorSize + 0 = First + done
  BY <1>1, Addresses DEF Stream, ReadInv, ReadPosition
<1>6. Deliver(0, Run * SectorSize, Run, "stream") /\ Reading
  BY DEF Stream, Reading
<1> QED
  BY <1>2, <1>3, <1>4, <1>5, <1>6, DeliverSafe

\* A whole sector.
LEMMA FullSafe == ReadInv /\ Full => ReadInv'
<1> SUFFICES ASSUME ReadInv, Full PROVE ReadInv'
  OBVIOUS
<1>1. /\ Sectors \in Nat /\ Sectors >= 1 /\ done < want
      /\ Sectors * SectorSize <= want - done /\ Sectors * SectorSize \in Nat
  BY SectorsLeft, Products, ReadAssumption DEF ReadInv, Full
<1>2. 1 * SectorSize = SectorSize /\ 1 * SectorSize <= Sectors * SectorSize
  BY <1>1, Products, ReadAssumption
<1>3. done + SectorSize <= want /\ 0 + SectorSize = 1 * SectorSize /\ lba + 1 <= LastLba + 1
  BY <1>1, <1>2, ReadAssumption DEF ReadInv, ReadTypeOK
<1>4. lba * SectorSize + 0 = First + done
  BY <1>1, Addresses DEF Full, ReadInv, ReadPosition
<1>5. Deliver(0, SectorSize, 1, "full") /\ Reading
  BY DEF Full, Reading
<1> QED
  BY <1>3, <1>4, <1>5, DeliverSafe, ReadAssumption

\* The partial last sector, which may be empty: then its number does not matter.
LEMMA TailSafe == ReadInv /\ TailSector => ReadInv'
<1> SUFFICES ASSUME ReadInv, TailSector PROVE ReadInv'
  OBVIOUS
<1>1. First \in Nat /\ Limit \in Nat /\ lba * SectorSize \in Nat
  BY Addresses DEF ReadInv
<1>2. UNCHANGED <<First, Limit>> /\ UNCHANGED <<args, lba>>
  BY DEF TailSector, args, First, Limit
<1>3. /\ pc' = "end" /\ err' = "ok" /\ len' = want /\ done' = want
      /\ out' = out \o Bytes(lba * SectorSize, want - done)
  BY DEF TailSector, Return
<1>4. Bytes(lba * SectorSize, want - done) = Bytes(First + done, want - done)
  <2>1. CASE done < want
    BY <2>1 DEF TailSector, ReadInv, ReadPosition
  <2>2. CASE done = want
    BY <2>2 DEF Bytes, ReadInv, ReadTypeOK
  <2> QED
    BY <2>1, <2>2 DEF ReadInv, ReadTypeOK
<1>5. out' = Bytes(First, want)
  <2>1. done \in Nat /\ want - done \in Nat /\ done + (want - done) = want
    BY DEF ReadInv, ReadTypeOK
  <2>2. out' = Bytes(First, done) \o Bytes(First + done, want - done)
    BY <1>3, <1>4 DEF ReadInv, BytesExact
  <2> QED
    BY <1>1, <2>1, <2>2 DEF Bytes
<1>6. out' \in Seq(Nat)
  BY <1>1, <1>5, BytesType DEF ReadInv, ReadTypeOK
<1>7. ReadTypeOK'
  BY <1>2, <1>3, <1>6 DEF ReadInv, ReadTypeOK, args
<1>8. First < Limit
  BY DEF TailSector, ReadInv, ReadBeforeEnd, Reading
<1> QED
  BY <1>2, <1>3, <1>5, <1>7, <1>8 DEF ReadInv, BytesExact, ResultExact, ReadBeforeEnd, ReadPosition, Reading, args

\* A failing read returns what has been delivered before it.
LEMMA ErrorSafe == ReadInv /\ ReadError => ReadInv'
<1> SUFFICES ASSUME ReadInv, ReadError PROVE ReadInv'
  OBVIOUS
<1>1. /\ pc' = "end" /\ err' = "io" /\ len' = done
      /\ UNCHANGED <<args, lba, done, out>> /\ UNCHANGED <<First, Limit>>
  BY DEF ReadError, Return, First, Limit, args
<1>2. First < Limit
  BY DEF ReadError, ReadInv, ReadBeforeEnd, Reading
<1> QED
  BY <1>1, <1>2 DEF ReadInv, ReadTypeOK, BytesExact, ResultExact, ReadBeforeEnd, ReadPosition, Reading, args

\* Leaving the loop over long runs.
LEMMA StreamDoneSafe == ReadInv /\ StreamDone => ReadInv'
<1> SUFFICES ASSUME ReadInv, StreamDone PROVE ReadInv'
  OBVIOUS
<1>1. pc = "stream" /\ pc' = "full" /\ UNCHANGED <<args, lba, done, out, len, err>>
      /\ UNCHANGED <<First, Limit>>
  BY DEF StreamDone, First, Limit, args
<1> QED
  BY <1>1 DEF ReadInv, ReadTypeOK, BytesExact, ResultExact, ReadBeforeEnd, ReadPosition, Reading, args

\* The invariant holds at the call and after every step of it.
THEOREM ReadInvariant == ReadSpec => []ReadInv
<1>1. ReadInit => ReadInv
  <2> SUFFICES ASSUME ReadInit PROVE ReadInv
    OBVIOUS
  <2>1. ReadTypeOK
    BY ReadAssumption DEF ReadInit, ReadTypeOK
  <2>2. BytesExact
    BY Addresses, <2>1 DEF ReadInit, BytesExact, Bytes
  <2> QED
    BY <2>1, <2>2 DEF ReadInit, ReadInv, ResultExact, ReadBeforeEnd, ReadPosition, Reading
<1>2. ReadInv /\ [ReadNext]_readVars => ReadInv'
  <2>1. ReadInv /\ ReadNext => ReadInv'
    BY EnterSafe, HeadSafe, StreamSafe, StreamDoneSafe, FullSafe, TailSafe, ErrorSafe DEF ReadNext, ReadStep
  <2>2. ReadInv /\ UNCHANGED readVars => ReadInv'
    BY DEF readVars, args, ReadInv, ReadTypeOK, BytesExact, ResultExact, ReadBeforeEnd, ReadPosition, Reading, First, Limit
  <2> QED
    BY <2>1, <2>2
<1> QED
  BY <1>1, <1>2, PTL DEF ReadSpec

\* Every variable stays in its range: no sector number leaves its width, and no
\* more is delivered than was asked for.
THEOREM ReadTypeCorrect == ReadSpec => []ReadTypeOK
BY ReadInvariant, PTL DEF ReadInv

\* The caller's buffer holds the bytes asked for, in order, whatever the sizes and
\* alignments and wherever a read fails.
THEOREM BytesCorrect == ReadSpec => []BytesExact
BY ReadInvariant, PTL DEF ReadInv

\* The result and *len tell exactly how far the read got, also at the end of the
\* address space.
THEOREM ResultCorrect == ReadSpec => []ResultExact
BY ReadInvariant, PTL DEF ReadInv
=============================================================================
