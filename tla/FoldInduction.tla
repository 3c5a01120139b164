---------------------------- MODULE FoldInduction ----------------------------
(***************************************************************************)
(* Induction for the proofs: over the naturals, in the form of a set, and  *)
(* along a FoldLeft, whose step and invariant are the module's parameters. *)
(* A proof about a fold instantiates the module with the fold's step and   *)
(* the property the step keeps, and cites FoldGood.  The last argument of  *)
(* both carries whatever else the step depends on.                         *)
(***************************************************************************)
EXTENDS Integers, SequencesExt, WellFoundedInduction, NaturalsInduction, TLAPS

CONSTANTS
  Step(_, _, _),  \* the state after an element of the sequence
  Good(_, _, _)   \* what holds of the state after a number of elements

-----------------------------------------------------------------------------
(* Naturals.                                                               *)

\* A set of naturals that is not empty has a least element.
LEMMA LeastElement ==
  ASSUME NEW T, T \subseteq Nat, T # {}
  PROVE  \E n \in T : \A m \in T : n <= m
<1>1. \E x \in T : \A y \in T : ~(<<y, x>> \in OpToRel(<, Nat))
  BY NatLessThanWellFounded, WFMin
<1>2. PICK x \in T : \A y \in T : ~(<<y, x>> \in OpToRel(<, Nat))
  BY <1>1
<1>3. \A y \in T : ~(y < x)
  BY <1>2 DEF OpToRel
<1> QED BY <1>3

\* A set with 0 that has the successor of all it has is the naturals.
LEMMA NatInd ==
  ASSUME NEW P \in SUBSET Nat, 0 \in P, \A n \in P : n + 1 \in P
  PROVE  P = Nat
<1>1. SUFFICES ASSUME P # Nat
               PROVE  FALSE
  OBVIOUS
<1> DEFINE T == Nat \ P
<1>2. T \subseteq Nat /\ T # {}
  BY <1>1
<1> HIDE DEF T
<1>3. PICK n \in T : \A m \in T : n <= m
  BY <1>2, LeastElement
<1>4. n # 0 /\ n - 1 \in Nat
  BY <1>2, <1>3 DEF T
<1>5. n - 1 \notin T
  BY <1>3, <1>4, <1>2
<1>6. n - 1 \in P
  BY <1>4, <1>5 DEF T
<1>7. n \in P
  BY <1>2, <1>3, <1>4, <1>6
<1> QED BY <1>7, <1>3 DEF T

\* The greatest element of a subset of 1..m that has m.
LEMMA MaxTop ==
  ASSUME NEW m \in Nat, NEW s \in SUBSET (1..m), m \in s
  PROVE  Max(s) = m
<1>1. \A y \in s : m >= y /\ y \in Nat
  OBVIOUS
<1>2. \E x \in s : \A y \in s : x >= y
  BY <1>1
<1>3. Max(s) \in s /\ \A y \in s : Max(s) >= y
  BY <1>2 DEF Max
<1>4. Max(s) >= m /\ m >= Max(s) /\ Max(s) \in Nat
  BY <1>1, <1>3
<1> QED BY <1>4

-----------------------------------------------------------------------------
(* Folds.                                                                  *)

\* What FoldLeft builds on the way, for the subsets of the first m indices.
IsFold(it, m, b, seq, p) ==
  it = [s \in SUBSET (1..m) |->
          IF s = {} THEN b ELSE Step(it[s \ {Max(s)}], seq[Max(s)], p)]

\* FoldLeft of the step, by its definition in SequencesExt.
Fold(b, seq, p) ==
  (CHOOSE it : it = [s \in SUBSET (DOMAIN seq) |->
     IF s = {} THEN b ELSE Step(it[s \ {Max(s)}], seq[Max(s)], p)])[DOMAIN seq]

\* A function that meets the recursion exists for every length.
LEMMA FoldExists ==
  ASSUME NEW seq, NEW b, NEW p
  PROVE  \A m \in Nat : \E it : IsFold(it, m, b, seq, p)
<1> DEFINE P == {m \in Nat : \E it : IsFold(it, m, b, seq, p)}
<1>1. 0 \in P
  <2>1. IsFold([s \in SUBSET (1..0) |-> b], 0, b, seq, p)
    BY DEF IsFold
  <2> QED BY <2>1
<1>2. ASSUME NEW m \in P
      PROVE  m + 1 \in P
  <2>1. PICK it : IsFold(it, m, b, seq, p)
    OBVIOUS
  <2> DEFINE jt == [s \in SUBSET (1..(m + 1)) |->
                      IF m + 1 \in s THEN Step(it[s \ {m + 1}], seq[m + 1], p) ELSE it[s]]
  <2>2. ASSUME NEW s \in SUBSET (1..(m + 1))
        PROVE  jt[s] = IF s = {} THEN b ELSE Step(jt[s \ {Max(s)}], seq[Max(s)], p)
    <3>1. CASE m + 1 \in s
      <4>1. Max(s) = m + 1
        BY MaxTop, <3>1
      <4>2. s \ {m + 1} \in SUBSET (1..m)
        OBVIOUS
      <4>3. jt[s \ {m + 1}] = it[s \ {m + 1}]
        BY <4>2
      <4> QED BY <3>1, <4>1, <4>3
    <3>2. CASE m + 1 \notin s
      <4>1. s \in SUBSET (1..m)
        BY <3>2
      <4>2. it[s] = IF s = {} THEN b ELSE Step(it[s \ {Max(s)}], seq[Max(s)], p)
        BY <4>1, <2>1 DEF IsFold
      <4>3. m + 1 \notin s \ {Max(s)} /\ s \ {Max(s)} \in SUBSET (1..(m + 1))
        BY <3>2
      <4>4. jt[s \ {Max(s)}] = it[s \ {Max(s)}]
        BY <4>3
      <4> QED BY <3>2, <4>2, <4>4
    <3> QED BY <3>1, <3>2
  <2>3. IsFold(jt, m + 1, b, seq, p)
    BY <2>2, Zenon DEF IsFold
  <2> QED BY <2>3
<1> HIDE DEF P
<1>3. P \in SUBSET Nat
  BY DEF P
<1>4. P = Nat
  BY <1>1, <1>2, <1>3, NatInd
<1> QED BY <1>4 DEF P

\* So the one FoldLeft chooses meets it.
LEMMA FoldIs ==
  ASSUME NEW seq, NEW b, NEW p, NEW n \in Nat, DOMAIN seq = 1..n
  PROVE  \E it : IsFold(it, n, b, seq, p) /\ Fold(b, seq, p) = it[1..n]
<1> DEFINE iter == CHOOSE g : g = [s \in SUBSET (DOMAIN seq) |->
                     IF s = {} THEN b ELSE Step(g[s \ {Max(s)}], seq[Max(s)], p)]
<1>1. PICK it : IsFold(it, n, b, seq, p)
  BY FoldExists
<1>2. it = [s \in SUBSET (DOMAIN seq) |->
              IF s = {} THEN b ELSE Step(it[s \ {Max(s)}], seq[Max(s)], p)]
  BY <1>1 DEF IsFold
<1>3. iter = [s \in SUBSET (DOMAIN seq) |->
                IF s = {} THEN b ELSE Step(iter[s \ {Max(s)}], seq[Max(s)], p)]
  BY <1>2
<1>4. Fold(b, seq, p) = iter[DOMAIN seq]
  BY DEF Fold
<1> HIDE DEF iter
<1>5. IsFold(iter, n, b, seq, p)
  BY <1>3 DEF IsFold
<1> QED BY <1>4, <1>5

\* The states of a fold: f[i] after the first i elements.
States(f, b, seq, n, p) == f[0] = b /\ \A i \in 1..n : f[i] = Step(f[i - 1], seq[i], p)
LEMMA FoldRun ==
  ASSUME NEW seq, NEW b, NEW p, NEW n \in Nat, DOMAIN seq = 1..n
  PROVE  \E f : States(f, b, seq, n, p) /\ Fold(b, seq, p) = f[n]
<1>1. PICK it : IsFold(it, n, b, seq, p) /\ Fold(b, seq, p) = it[1..n]
  BY FoldIs
<1> DEFINE f == [i \in 0..n |-> it[1..i]]
<1>2. f[0] = b
  <2>1. 1..0 = {} /\ {} \in SUBSET (1..n)
    OBVIOUS
  <2>2. it[1..0] = b
    BY <1>1, <2>1 DEF IsFold
  <2> QED BY <2>2
<1>3. f[n] = Fold(b, seq, p)
  BY <1>1
<1>4. ASSUME NEW i \in 1..n
      PROVE  f[i] = Step(f[i - 1], seq[i], p)
  <2>1. Max(1..i) = i
    BY MaxTop
  <2>2. (1..i) \ {i} = 1..(i - 1) /\ i - 1 \in 0..n /\ i \in 0..n
    OBVIOUS
  <2>3. 1..i \in SUBSET (1..n) /\ 1..i # {}
    OBVIOUS
  <2>4. it[1..i] = Step(it[1..(i - 1)], seq[i], p)
    BY <1>1, <2>1, <2>2, <2>3 DEF IsFold
  <2> QED BY <2>2, <2>4
<1> HIDE DEF f
<1>5. States(f, b, seq, n, p)
  BY <1>2, <1>4 DEF States
<1> QED BY <1>3, <1>5

\* The same, spelt out.
LEMMA FoldStates ==
  ASSUME NEW seq, NEW b, NEW p, NEW n \in Nat, DOMAIN seq = 1..n
  PROVE  \E f : /\ f[0] = b /\ Fold(b, seq, p) = f[n]
                /\ \A i \in 1..n : f[i] = Step(f[i - 1], seq[i], p)
<1>1. PICK f : States(f, b, seq, n, p) /\ Fold(b, seq, p) = f[n]
  BY FoldRun
<1>2. f[0] = b /\ \A i \in 1..n : f[i] = Step(f[i - 1], seq[i], p)
  BY <1>1 DEF States
<1> QED BY <1>1, <1>2

\* A fold over one element is one step.
LEMMA FoldOne ==
  ASSUME NEW seq, NEW b, NEW p, DOMAIN seq = 1..1
  PROVE  Fold(b, seq, p) = Step(b, seq[1], p)
<1> DEFINE n == 1
<1>1. n \in Nat /\ DOMAIN seq = 1..n
  OBVIOUS
<1> HIDE DEF n
<1>2. PICK f : /\ f[0] = b /\ Fold(b, seq, p) = f[n]
               /\ \A i \in 1..n : f[i] = Step(f[i - 1], seq[i], p)
  BY <1>1, FoldStates
<1>3. n = 1 /\ 1 \in 1..n /\ 1 - 1 = 0
  BY DEF n
<1> QED BY <1>2, <1>3

\* What holds at first and is kept by every step holds in the end.
LEMMA FoldGood ==
  ASSUME NEW seq, NEW b, NEW p, NEW n \in Nat, DOMAIN seq = 1..n, Good(b, 0, p),
         \A w : \A i \in 1..n : Good(w, i - 1, p) => Good(Step(w, seq[i], p), i, p)
  PROVE  Good(Fold(b, seq, p), n, p)
<1>1. PICK f : /\ f[0] = b /\ Fold(b, seq, p) = f[n]
               /\ \A i \in 1..n : f[i] = Step(f[i - 1], seq[i], p)
  BY FoldStates, SMTT(40)
<1> DEFINE P == {m \in Nat : m <= n => Good(f[m], m, p)}
<1>2. 0 \in P
  BY <1>1
<1>3. ASSUME NEW m \in P, m + 1 <= n
      PROVE  Good(f[m + 1], m + 1, p)
  <2>1. Good(f[m], m, p) /\ m + 1 \in 1..n /\ (m + 1) - 1 = m
    BY <1>3
  <2>2. f[m + 1] = Step(f[m], seq[m + 1], p)
    BY <1>1, <2>1
  <2>3. Good(f[m], (m + 1) - 1, p)
    BY <2>1
  <2>4. Good(Step(f[m], seq[m + 1], p), m + 1, p)
    BY <2>1, <2>3
  <2> QED BY <2>2, <2>4
<1>4. \A m \in P : m + 1 \in P
  BY <1>3
<1> HIDE DEF P
<1>5. P = Nat
  BY <1>2, <1>4, NatInd DEF P
<1>6. Good(f[n], n, p)
  BY <1>5 DEF P
<1> QED BY <1>1, <1>6
=============================================================================
