--------------------------- MODULE FileReadProofs ---------------------------
(***************************************************************************)
(* Reads of open files are exact, for every sector size, file, driver,     *)
(* transfer limit and cache size, whatever the device fails at and         *)
(* whenever the read-ahead completes.                                      *)
(*                                                                         *)
(* A transfer is a fold over its chunks and a read a fold over the pieces  *)
(* of its range; both go along FoldInduction.  A run of sectors or bytes   *)
(* is Run(d, a, n): the n data of disc d from address a on.                *)
(***************************************************************************)
EXTENDS FileRead, SequenceTheorems, TLAPS

Named == [disc : Discs, at : Nat]
Run(d, a, n) == [k \in 1..n |-> [disc |-> d, at |-> a + k - 1]]

-----------------------------------------------------------------------------
(* Arithmetic.                                                             *)

\* The smaller of two naturals.
LEMMA LeastIs ==
  ASSUME NEW a \in Nat, NEW b \in Nat
  PROVE  /\ Least(a, b) \in Nat /\ Least(a, b) <= a /\ Least(a, b) <= b
         /\ Least(a, b) = a \/ Least(a, b) = b
BY DEF Least

\* Quotient and remainder.
LEMMA Quotient ==
  ASSUME NEW a \in Nat, NEW b \in Nat \ {0}
  PROVE  /\ a \div b \in Nat /\ a % b \in 0..(b - 1) /\ a % b \in Nat
         /\ a = (a \div b) * b + (a % b)
OBVIOUS

\* A quotient is told by what is left.
LEMMA QuotientIs ==
  ASSUME NEW q \in Nat, NEW b \in Nat \ {0}, NEW r \in 0..(b - 1)
  PROVE  (q * b + r) \div b = q /\ (q * b + r) % b = r
OBVIOUS

\* Products of naturals are naturals that grow with their factors.
LEMMA Growing ==
  ASSUME NEW a \in Nat, NEW b \in Nat, NEW c \in Nat
  PROVE  /\ a * c \in Nat
         /\ (a + b) * c = a * c + b * c
         /\ a <= b => a * c <= b * c
<1>1. a * c \in Nat /\ (a + b) * c = a * c + b * c
  OBVIOUS
<1>2. ASSUME a <= b PROVE a * c <= b * c
  <2>1. PICK d \in Nat : b = a + d
    BY <1>2
  <2>2. b * c = a * c + d * c /\ d * c \in Nat /\ a * c \in Nat
    BY <2>1
  <2> QED
    BY <2>2
<1> QED
  BY <1>1, <1>2

\* Multiples of a sector compare like their numbers.
LEMMA Multiples ==
  ASSUME NEW a \in Nat, NEW b \in Nat, NEW c \in Nat \ {0}
  PROVE  /\ a * c <= b * c => a <= b
         /\ a * c < b * c => a < b
<1>1. ASSUME ~(a <= b) PROVE b * c + c <= a * c
  <2>1. b + 1 <= a /\ b + 1 \in Nat
    BY <1>1
  <2>2. (b + 1) * c <= a * c /\ (b + 1) * c = b * c + 1 * c
    BY <2>1, Growing
  <2> QED BY <2>2
<1>2. ASSUME ~(a < b) PROVE b * c <= a * c
  BY <1>2, Growing
<1>3. a * c \in Nat /\ b * c \in Nat
  BY Growing
<1> QED BY <1>1, <1>2, <1>3

-----------------------------------------------------------------------------
(* Runs.                                                                   *)

\* Sequences with the same elements are equal.
LEMMA SameSeq ==
  ASSUME NEW S, NEW s \in Seq(S), NEW t \in Seq(S), Len(s) = Len(t),
         \A k \in 1..Len(s) : s[k] = t[k]
  PROVE  s = t
<1>1. DOMAIN s = 1..Len(s) /\ DOMAIN t = 1..Len(s) /\ s \in [1..Len(s) -> S] /\ t \in [1..Len(s) -> S]
  BY LenProperties
<1> QED BY <1>1

\* A run is a sequence.
LEMMA RunIs ==
  ASSUME NEW d \in Discs, NEW a \in Nat, NEW n \in Nat
  PROVE  /\ Run(d, a, n) \in Seq(Named) /\ Len(Run(d, a, n)) = n
         /\ DOMAIN Run(d, a, n) = 1..n
         /\ \A k \in 1..n : Run(d, a, n)[k] = [disc |-> d, at |-> a + k - 1]
<1>1. Run(d, a, n) \in [1..n -> Named]
  BY DEF Run, Named
<1>2. Run(d, a, n) \in Seq(Named)
  BY <1>1, SeqDef
<1> QED BY <1>1, <1>2 DEF Run

\* Two runs, the second where the first ends, are one.
LEMMA RunJoin ==
  ASSUME NEW d \in Discs, NEW a \in Nat, NEW n \in Nat, NEW m \in Nat
  PROVE  Run(d, a, n) \o Run(d, a + n, m) = Run(d, a, n + m)
<1> DEFINE s == Run(d, a, n)
           t == Run(d, a + n, m)
           u == Run(d, a, n + m)
<1>0. a + n \in Nat /\ n + m \in Nat
  OBVIOUS
<1>1. /\ s \in Seq(Named) /\ t \in Seq(Named) /\ u \in Seq(Named)
      /\ Len(s) = n /\ Len(t) = m /\ Len(u) = n + m
      /\ \A k \in 1..n : s[k] = [disc |-> d, at |-> a + k - 1]
      /\ \A k \in 1..m : t[k] = [disc |-> d, at |-> (a + n) + k - 1]
      /\ \A k \in 1..(n + m) : u[k] = [disc |-> d, at |-> a + k - 1]
  <2>1. s \in Seq(Named) /\ Len(s) = n /\ \A k \in 1..n : s[k] = [disc |-> d, at |-> a + k - 1]
    BY RunIs
  <2>2. /\ t \in Seq(Named) /\ Len(t) = m
        /\ \A k \in 1..m : t[k] = [disc |-> d, at |-> (a + n) + k - 1]
    BY <1>0, RunIs
  <2>3. /\ u \in Seq(Named) /\ Len(u) = n + m
        /\ \A k \in 1..(n + m) : u[k] = [disc |-> d, at |-> a + k - 1]
    BY <1>0, RunIs
  <2> QED BY <2>1, <2>2, <2>3
<1> HIDE DEF s, t, u
<1>2. /\ s \o t \in Seq(Named) /\ Len(s \o t) = n + m
      /\ \A k \in 1..(n + m) : (s \o t)[k] = IF k <= n THEN s[k] ELSE t[k - n]
  BY <1>1, ConcatProperties, ZenonT(40)
<1>3. ASSUME NEW k \in 1..(n + m) PROVE (s \o t)[k] = u[k]
  <2>1. CASE k <= n
    <3>1. k \in 1..n
      BY <2>1
    <3> QED BY <1>1, <1>2, <2>1, <3>1
  <2>2. CASE ~(k <= n)
    <3>1. k - n \in 1..m /\ (a + n) + (k - n) - 1 = a + k - 1
      BY <2>2
    <3> QED BY <1>1, <1>2, <2>2, <3>1
  <2> QED BY <2>1, <2>2
<1>4. s \o t = u
  BY <1>1, <1>2, <1>3, SameSeq
<1> QED BY <1>4 DEF s, t, u

\* The beginning of a run is a prefix of it.
LEMMA RunPrefix ==
  ASSUME NEW d \in Discs, NEW a \in Nat, NEW n \in Nat, NEW m \in 0..n
  PROVE  IsPrefix(Run(d, a, m), Run(d, a, n))
<1> DEFINE s == Run(d, a, m)
           t == Run(d, a, n)
<1>1. /\ s \in Seq(Named) /\ t \in Seq(Named) /\ Len(s) = m /\ Len(t) = n /\ m \in Nat
      /\ \A k \in 1..m : s[k] = [disc |-> d, at |-> a + k - 1]
      /\ \A k \in 1..n : t[k] = [disc |-> d, at |-> a + k - 1]
  BY RunIs
<1>2. \A k \in 1..m : s[k] \in Named /\ t[k] \in Named /\ s[k] = t[k]
  BY <1>1 DEF Named
<1> HIDE DEF s, t
<1>3. /\ SubSeq(s, 1, m) \in Seq(Named) /\ Len(SubSeq(s, 1, m)) = (IF 1 <= m THEN m - 1 + 1 ELSE 0)
      /\ \A k \in 1..(m - 1 + 1) : SubSeq(s, 1, m)[k] = s[1 + k - 1]
  BY <1>1, <1>2, SubSeqProperties
<1>4. /\ SubSeq(t, 1, m) \in Seq(Named) /\ Len(SubSeq(t, 1, m)) = (IF 1 <= m THEN m - 1 + 1 ELSE 0)
      /\ \A k \in 1..(m - 1 + 1) : SubSeq(t, 1, m)[k] = t[1 + k - 1]
  BY <1>1, <1>2, SubSeqProperties
<1>5. (IF 1 <= m THEN m - 1 + 1 ELSE 0) = m
  BY <1>1
<1>6. \A k \in 1..m : SubSeq(s, 1, m)[k] = SubSeq(t, 1, m)[k]
  BY <1>1, <1>2, <1>3, <1>4
<1>7. SubSeq(s, 1, m) = SubSeq(t, 1, m)
  BY <1>3, <1>4, <1>5, <1>6, SameSeq
<1>8. IsPrefix(s, t)
  BY <1>1, <1>7 DEF IsPrefix
<1> QED BY <1>8 DEF s, t

\* Bytes inside a sequence of sectors are that many bytes.
LEMMA CutType ==
  ASSUME NEW s \in Seq(Named), NEW from \in Nat, NEW n \in Nat, from + n <= Len(s) * SectorSize
  PROVE  /\ Cut(s, from, n) \in Seq(Named) /\ Len(Cut(s, from, n)) = n
         /\ DOMAIN Cut(s, from, n) = 1..n
         /\ \A k \in 1..n :
              /\ (from + k - 1) \div SectorSize + 1 \in 1..Len(s)
              /\ Cut(s, from, n)[k] =
                   [disc |-> s[(from + k - 1) \div SectorSize + 1].disc,
                    at |-> s[(from + k - 1) \div SectorSize + 1].at * SectorSize
                           + ((from + k - 1) % SectorSize)]
<1>1. Len(s) \in Nat /\ DOMAIN s = 1..Len(s) /\ SectorSize \in Nat \ {0}
  BY LenProperties, FileReadAssumption
<1>2. ASSUME NEW k \in 1..n
      PROVE  /\ (from + k - 1) \div SectorSize + 1 \in 1..Len(s)
             /\ (from + k - 1) % SectorSize \in Nat
  <2> DEFINE p == from + k - 1
             q == p \div SectorSize
             r == p % SectorSize
  <2>1. p \in Nat /\ p < from + n
    OBVIOUS
  <2>2. q \in Nat /\ r \in Nat /\ p = q * SectorSize + r
    BY <1>1, <2>1, Quotient
  <2> HIDE DEF p, q, r
  <2>3. q * SectorSize \in Nat /\ Len(s) * SectorSize \in Nat
    BY <1>1, <2>2, Growing
  <2>4. q * SectorSize < Len(s) * SectorSize
    BY <2>1, <2>2, <2>3
  <2>5. q < Len(s)
    BY <1>1, <2>2, <2>4, Multiples
  <2> QED BY <1>1, <2>2, <2>5 DEF p, q, r
<1>3. ASSUME NEW k \in 1..n
      PROVE  [disc |-> s[(from + k - 1) \div SectorSize + 1].disc,
              at |-> s[(from + k - 1) \div SectorSize + 1].at * SectorSize
                     + ((from + k - 1) % SectorSize)] \in Named
  <2> DEFINE e == s[(from + k - 1) \div SectorSize + 1]
  <2>1. e \in Named /\ (from + k - 1) % SectorSize \in Nat
    BY <1>1, <1>2
  <2> HIDE DEF e
  <2>2. e.disc \in Discs /\ e.at \in Nat
    BY <2>1 DEF Named
  <2>3. e.at * SectorSize \in Nat
    BY <1>1, <2>2, Growing
  <2>4. [disc |-> e.disc, at |-> e.at * SectorSize + ((from + k - 1) % SectorSize)] \in Named
    BY <2>1, <2>2, <2>3 DEF Named
  <2> QED BY <2>4 DEF e
<1>4. Cut(s, from, n) \in [1..n -> Named]
  BY <1>3 DEF Cut
<1>5. Cut(s, from, n) \in Seq(Named) /\ DOMAIN Cut(s, from, n) = 1..n
  BY <1>4, SeqDef
<1>6. Len(Cut(s, from, n)) = n
  BY <1>5, LenProperties
<1>7. \A k \in 1..n : Cut(s, from, n)[k] =
        [disc |-> s[(from + k - 1) \div SectorSize + 1].disc,
         at |-> s[(from + k - 1) \div SectorSize + 1].at * SectorSize
                + ((from + k - 1) % SectorSize)]
  BY DEF Cut
<1> QED BY <1>2, <1>5, <1>6, <1>7

\* Bytes cut out of a run of sectors are a run of bytes.
LEMMA CutRun ==
  ASSUME NEW d \in Discs, NEW l \in Nat, NEW m \in Nat, NEW from \in Nat, NEW n \in Nat,
         from + n <= m * SectorSize
  PROVE  Cut(Run(d, l, m), from, n) = Run(d, l * SectorSize + from, n)
<1> DEFINE s == Run(d, l, m)
           u == Run(d, l * SectorSize + from, n)
<1>1. SectorSize \in Nat \ {0} /\ l * SectorSize \in Nat /\ l * SectorSize + from \in Nat
  BY Growing, FileReadAssumption
<1>2. /\ s \in Seq(Named) /\ Len(s) = m
      /\ \A k \in 1..m : s[k] = [disc |-> d, at |-> l + k - 1]
  BY RunIs
<1>3. /\ u \in Seq(Named) /\ Len(u) = n
      /\ \A k \in 1..n : u[k] = [disc |-> d, at |-> (l * SectorSize + from) + k - 1]
  BY <1>1, RunIs
<1> HIDE DEF s, u
<1>4. /\ Cut(s, from, n) \in Seq(Named) /\ Len(Cut(s, from, n)) = n
      /\ \A k \in 1..n :
           /\ (from + k - 1) \div SectorSize + 1 \in 1..m
           /\ Cut(s, from, n)[k] =
                [disc |-> s[(from + k - 1) \div SectorSize + 1].disc,
                 at |-> s[(from + k - 1) \div SectorSize + 1].at * SectorSize
                        + ((from + k - 1) % SectorSize)]
  BY <1>2, CutType, ZenonT(40)
<1>5. ASSUME NEW k \in 1..n PROVE Cut(s, from, n)[k] = u[k]
  <2> DEFINE p == from + k - 1
             q == p \div SectorSize
             r == p % SectorSize
  <2>1. p \in Nat
    OBVIOUS
  <2>2. q \in Nat /\ r \in Nat /\ p = q * SectorSize + r
    BY <1>1, <2>1, Quotient
  <2>3. q + 1 \in 1..m /\ Cut(s, from, n)[k] =
          [disc |-> s[q + 1].disc, at |-> s[q + 1].at * SectorSize + r]
    BY <1>4
  <2>4. u[k] = [disc |-> d, at |-> (l * SectorSize + from) + k - 1]
    BY <1>3
  <2>5. p = from + k - 1
    OBVIOUS
  <2> HIDE DEF p, q, r
  <2>6. s[q + 1] = [disc |-> d, at |-> l + (q + 1) - 1]
    BY <1>2, <2>3
  <2>7. l + (q + 1) - 1 = l + q
    BY <2>2
  <2>8. (l + q) * SectorSize = l * SectorSize + q * SectorSize /\ q * SectorSize \in Nat
    BY <1>1, <2>2, Growing
  <2>9. (l + q) * SectorSize + r = (l * SectorSize + from) + k - 1
    BY <1>1, <2>2, <2>5, <2>8
  <2> QED BY <2>3, <2>4, <2>6, <2>7, <2>9
<1>6. Cut(s, from, n) = u
  BY <1>3, <1>4, <1>5, SameSeq
<1> QED BY <1>6 DEF s, u

-----------------------------------------------------------------------------
(* Device requests.                                                        *)

\* What is known of the drive: READ(10) counts in sectors, or in less and is refused.
\* A drive of larger blocks has not passed the probe and has a 64-bit command, so
\* that READ(10) is not the method kept for sectors beyond the limit.
Counts == drive.block \div SectorSize <= 1 \/ drive.scsi = "none"
Has64 == \E m \in {"td64", "nsd"} : m \in drive.read64
ModeKnown(m) == m = "scsi" => Counts
DriveKnown ==
  /\ disc \in Discs /\ drive \in Drives /\ (scsiReads => Counts) /\ ModeKnown(read64Mode)
  /\ Counts \/ Has64

\* An answer for n sectors, and the answer that the sectors from lba on make.
IsAnswer(a, n) ==
  a.data \in Seq(Named) /\ (a.err = "ok" => Len(a.data) = n)
TrueAnswer(a, lba, n) == a.err = "ok" => a.data = Run(disc, lba, n)

\* Two runs of the disc in the drive.
LEMMA DiscJoin ==
  ASSUME DriveKnown, NEW u \in Nat, NEW v \in Nat, NEW w \in Nat
  PROVE  Run(disc, u, v) \o Run(disc, u + v, w) = Run(disc, u, v + w)
<1>1. \A e \in Discs : Run(e, u, v) \o Run(e, u + v, w) = Run(e, u, v + w)
  BY RunJoin
<1> QED BY <1>1, Zenon DEF DriveKnown

\* What the disc holds is a run.
LEMMA AnswerIs ==
  ASSUME DriveKnown, NEW lba \in Nat, NEW n \in Nat
  PROVE  IsAnswer(Answer(lba, n), n) /\ TrueAnswer(Answer(lba, n), lba, n)
<1>1. Content(lba, n) = Run(disc, lba, n)
  BY DEF Content, Run
<1>2. Run(disc, lba, n) \in Seq(Named) /\ Len(Run(disc, lba, n)) = n
  BY RunIs DEF DriveKnown
<1> QED BY <1>1, <1>2 DEF Answer, IsAnswer, TrueAnswer

\* An error is an answer.
LEMMA ErrorIs ==
  ASSUME NEW e, e # "ok", NEW lba, NEW n
  PROVE  IsAnswer(Error(e), n) /\ TrueAnswer(Error(e), lba, n) /\ Error(e).err = e
BY DEF Error, IsAnswer, TrueAnswer

\* CMD_READ reads the right sectors if their first can be expressed.
LEMMA CmdReadIs ==
  ASSUME DriveKnown, NEW f, NEW lba \in Nat, NEW n \in Nat
  PROVE  /\ IsAnswer(CmdRead(f, lba, n), n)
         /\ lba < Limit => TrueAnswer(CmdRead(f, lba, n), lba, n)
<1>1. lba % Limit \in Nat /\ (lba < Limit => lba % Limit = lba)
  BY FileReadAssumption
<1>2. /\ IsAnswer(Answer(lba % Limit, n), n)
      /\ TrueAnswer(Answer(lba % Limit, n), lba % Limit, n)
  BY <1>1, AnswerIs
<1>3. IsAnswer(Error("io"), n) /\ TrueAnswer(Error("io"), lba, n)
  BY ErrorIs
<1>4. CmdRead(f, lba, n) = Error("io") \/ CmdRead(f, lba, n) = Answer(lba % Limit, n)
  BY DEF CmdRead
<1> QED BY <1>1, <1>2, <1>3, <1>4

\* READ(10) reads the right sectors on a drive that counts them, and fails on one
\* that counts in less, for the sake of scsi_Actual.
LEMMA ScsiReadIs ==
  ASSUME DriveKnown, NEW f, NEW lba \in Nat, NEW n \in Nat
  PROVE  /\ IsAnswer(ScsiRead10(f, lba, n), n)
         /\ Counts => TrueAnswer(ScsiRead10(f, lba, n), lba, n)
<1> DEFINE b == drive.block \div SectorSize
           s == lba * b
<1>1. drive.block \in Nat \ {0} /\ SectorSize \in Nat \ {0}
  BY MediaAssumption, FileReadAssumption DEF DriveKnown
<1>2. b \in Nat
  BY <1>1, Quotient
<1>3. s \in Nat
  BY <1>2, Growing
<1>4. IsAnswer(Answer(s, n), n) /\ TrueAnswer(Answer(s, n), s, n)
  <2> HIDE DEF s
  <2> QED BY <1>3, AnswerIs
<1>5. /\ IsAnswer(Error("io"), n) /\ TrueAnswer(Error("io"), lba, n)
      /\ IsAnswer(Error("nocmd"), n) /\ TrueAnswer(Error("nocmd"), lba, n)
  BY ErrorIs
<1>6. \/ ScsiRead10(f, lba, n) = Error("io") \/ ScsiRead10(f, lba, n) = Error("nocmd")
      \/ /\ ScsiRead10(f, lba, n) = Answer(s, n)
         /\ drive.scsi # "none" /\ ScsiActual(n) = n * SectorSize
  BY DEF ScsiRead10, ScsiSector
<1>7. ASSUME Counts, drive.scsi # "none", ScsiActual(n) = n * SectorSize
      PROVE  TrueAnswer(Answer(s, n), lba, n)
  <2>1. CASE b = 1
    <3>1. s = lba
      BY <2>1
    <3> QED BY <1>4, <3>1
  <2>2. CASE b # 1
    <3>1. b = 0
      BY <1>2, <1>7, <2>2 DEF Counts
    <3>2. drive.block < SectorSize
      BY <1>1, <3>1
    <3>3. n * drive.block = n * SectorSize
      BY <1>1, <1>7, <3>2 DEF ScsiActual, Least
    <3>4. n = 0
      <4> DEFINE d == SectorSize - drive.block
      <4>1. d \in Nat \ {0} /\ SectorSize = drive.block + d
        BY <1>1, <3>2
      <4> HIDE DEF d
      <4>2. n * SectorSize = n * drive.block + n * d /\ n * drive.block \in Nat
        BY <1>1, <4>1
      <4>3. n * d = 0
        BY <1>1, <3>3, <4>1, <4>2
      <4> QED BY <4>1, <4>3
    <3> QED BY <1>4, <3>4 DEF TrueAnswer, Run
  <2> QED BY <2>1, <2>2
<1> HIDE DEF s
<1> QED BY <1>4, <1>5, <1>6, <1>7

\* So do the 64-bit commands, whichever is tried.
LEMMA Read64Is ==
  ASSUME DriveKnown, NEW f, NEW m, NEW lba \in Nat, NEW n \in Nat
  PROVE  /\ IsAnswer(Read64(f, m, lba, n), n)
         /\ ModeKnown(m) => TrueAnswer(Read64(f, m, lba, n), lba, n)
<1>1. \/ m = "scsi" /\ Read64(f, m, lba, n) = ScsiRead10(f, lba, n)
      \/ Read64(f, m, lba, n) = Error("io") \/ Read64(f, m, lba, n) = Error("nocmd")
      \/ Read64(f, m, lba, n) = Answer(lba, n)
  BY DEF Read64
<1>2. /\ IsAnswer(Error("io"), n) /\ TrueAnswer(Error("io"), lba, n)
      /\ IsAnswer(Error("nocmd"), n) /\ TrueAnswer(Error("nocmd"), lba, n)
  BY ErrorIs
<1> QED BY <1>1, <1>2, AnswerIs, ScsiReadIs DEF ModeKnown

\* The method that the chain ends at is one the drive counts right with.
LEMMA ChainEnds ==
  ASSUME DriveKnown, NEW f, NEW lba \in Nat, NEW n \in Nat,
         NEW T, T = {i \in DOMAIN Methods : Read64(f, Methods[i], lba, n).err # "nocmd"}, T # {}
  PROVE  ModeKnown(Methods[Min(T)])
<1>1. /\ DOMAIN Methods = 1..3
      /\ Methods[1] = "td64" /\ Methods[2] = "nsd" /\ Methods[3] = "scsi"
  BY DEF Methods
<1>2. \E x \in T : \A y \in T : x <= y
  <2>1. T \subseteq 1..3
    BY <1>1
  <2>2. 1 \in T \/ 2 \in T \/ 3 \in T
    BY <2>1
  <2>3. CASE 1 \in T
    BY <2>1, <2>3
  <2>4. CASE 1 \notin T /\ 2 \in T
    BY <2>1, <2>4
  <2>5. CASE 1 \notin T /\ 2 \notin T /\ 3 \in T
    BY <2>1, <2>5
  <2> QED BY <2>2, <2>3, <2>4, <2>5
<1>3. Min(T) \in T /\ \A y \in T : Min(T) <= y
  BY <1>2, Zenon DEF Min
<1>4. CASE Counts
  BY <1>4 DEF ModeKnown
<1>5. CASE ~Counts
  <2>1. Has64
    BY <1>5 DEF DriveKnown
  <2>2. ASSUME NEW m \in {"td64", "nsd"}, m \in drive.read64
        PROVE  Read64(f, m, lba, n).err # "nocmd"
    <3>1. Read64(f, m, lba, n) = Error("io") \/ Read64(f, m, lba, n) = Answer(lba, n)
      BY <2>2 DEF Read64
    <3> QED BY <3>1 DEF Error, Answer
  <2>3. 1 \in T \/ 2 \in T
    BY <1>1, <2>1, <2>2 DEF Has64
  <2>4. Min(T) \in 1..3 /\ Min(T) <= 2
    BY <1>1, <1>3, <2>3
  <2>5. Min(T) = 1 \/ Min(T) = 2
    BY <2>4
  <2>6. Methods[Min(T)] # "scsi"
    BY <1>1, <2>5
  <2> QED BY <2>6 DEF ModeKnown
<1> QED BY <1>4, <1>5

\* amiga_read_hi(), whether or not it has to find its method first.
LEMMA ReadHiIs ==
  ASSUME DriveKnown, NEW f, NEW mode, ModeKnown(mode), NEW lba \in Nat, NEW n \in Nat
  PROVE  /\ IsAnswer(ReadHi(f, mode, lba, n).answer, n)
         /\ TrueAnswer(ReadHi(f, mode, lba, n).answer, lba, n)
         /\ ModeKnown(ReadHi(f, mode, lba, n).mode)
<1> DEFINE h == ReadHi(f, mode, lba, n)
           T == {i \in DOMAIN Methods : Read64(f, Methods[i], lba, n).err # "nocmd"}
<1>1. IsAnswer(Error("unsupported"), n) /\ TrueAnswer(Error("unsupported"), lba, n)
  BY ErrorIs
<1>2. CASE mode = "none"
  <2>1. h.answer = Error("unsupported") /\ h.mode = mode
    BY <1>2 DEF ReadHi
  <2> QED BY <1>1, <2>1
<1>3. CASE mode # "none" /\ mode # "unprobed"
  <2>1. h.answer = Read64(f, mode, lba, n) /\ h.mode = mode
    BY <1>3 DEF ReadHi
  <2> HIDE DEF h
  <2>2. IsAnswer(h.answer, n) /\ TrueAnswer(h.answer, lba, n) /\ ModeKnown(h.mode)
    BY <2>1, Read64Is
  <2> QED BY <2>2 DEF h
<1>4. CASE mode = "unprobed"
  <2>1. h = IF T = {} THEN [mode |-> "none", answer |-> Error("unsupported")]
            ELSE [mode |-> IF Read64(f, Methods[Min(T)], lba, n).err = "ok" THEN Methods[Min(T)]
                           ELSE mode,
                  answer |-> Read64(f, Methods[Min(T)], lba, n)]
    BY <1>4, Zenon DEF ReadHi
  <2>2. CASE T = {}
    <3>1. h.answer = Error("unsupported") /\ h.mode = "none"
      BY <2>1, <2>2
    <3> QED BY <1>1, <3>1 DEF ModeKnown
  <2>3. CASE T # {}
    <3> DEFINE m == Methods[Min(T)]
    <3>1. ModeKnown(m)
      <4> HIDE DEF T
      <4>1. T = {i \in DOMAIN Methods : Read64(f, Methods[i], lba, n).err # "nocmd"}
        BY DEF T
      <4> QED BY <2>3, <4>1, ChainEnds
    <3>2. h.answer = Read64(f, m, lba, n) /\ (h.mode = m \/ h.mode = mode)
      BY <2>1, <2>3
    <3> HIDE DEF h, m
    <3>3. IsAnswer(h.answer, n) /\ TrueAnswer(h.answer, lba, n) /\ ModeKnown(h.mode)
      BY <3>1, <3>2, Read64Is
    <3> QED BY <3>3 DEF h
  <2> QED BY <2>2, <2>3
<1> QED BY <1>2, <1>3, <1>4

\* amiga_read_lo(): READ(10) is only used if the drive counts sectors.
LEMMA ReadLoIs ==
  ASSUME DriveKnown, NEW f, NEW scsi, scsi => Counts, NEW lba \in Nat, NEW n \in Nat
  PROVE  /\ IsAnswer(ReadLo(f, scsi, lba, n), n)
         /\ lba < Limit => TrueAnswer(ReadLo(f, scsi, lba, n), lba, n)
<1>1. \/ scsi /\ ReadLo(f, scsi, lba, n) = ScsiRead10(f, lba, n)
      \/ ReadLo(f, scsi, lba, n) = CmdRead(f, lba, n)
  BY DEF ReadLo
<1> QED BY <1>1, CmdReadIs, ScsiReadIs

\* A probe that succeeds tells that the drive counts in sectors.
LEMMA ProbeIs ==
  ASSUME disc \in Discs, drive \in Drives, NEW f, ProbeScsiReads(f)
  PROVE  Counts
<1> DEFINE b == drive.block \div SectorSize
<1>1. ProbeSector \in Nat \ {0} /\ ProbeSector < Limit /\ b \in Nat /\ Limit \in Nat
  BY MediaAssumption, FileReadAssumption, Quotient
<1>2. /\ ReadLo(f, FALSE, ProbeSector, 1).data = Content(ProbeSector % Limit, 1)
      /\ ScsiRead10(f, ProbeSector, 1).data = Content(ProbeSector * b, 1)
  BY DEF ProbeScsiReads, ReadLo, CmdRead, ScsiRead10, ScsiSector, Error, Answer
<1>3. Content(ProbeSector % Limit, 1)[1] = Content(ProbeSector * b, 1)[1]
  BY <1>2 DEF ProbeScsiReads
<1>4. /\ Content(ProbeSector % Limit, 1)[1] = [disc |-> disc, at |-> (ProbeSector % Limit) + 1 - 1]
      /\ Content(ProbeSector * b, 1)[1] = [disc |-> disc, at |-> (ProbeSector * b) + 1 - 1]
  BY DEF Content
<1> HIDE DEF b
<1>5. (ProbeSector % Limit) + 1 - 1 = (ProbeSector * b) + 1 - 1
  BY <1>3, <1>4
<1>6. ProbeSector % Limit = ProbeSector /\ ProbeSector * b \in Nat
  BY <1>1
<1>7. ProbeSector * b = ProbeSector
  BY <1>1, <1>5, <1>6
<1>8. b <= 1
  <2>1. CASE b >= 2
    <3>1. 2 * ProbeSector <= b * ProbeSector /\ b * ProbeSector = ProbeSector * b
      BY <1>1, <2>1, Growing
    <3> QED BY <1>1, <1>7, <3>1
  <2> QED BY <1>1, <2>1
<1> QED BY <1>8 DEF b, Counts

-----------------------------------------------------------------------------
(* Transfers.                                                              *)

\* A transfer of n sectors from lba on, in chunks of max; r has the first i chunks.
ChunkStep(r, c, p) == IF r.err = "ok" THEN ReadChunk(p.f, r, c.lba, c.n) ELSE r
ChunkGood(r, i, p) ==
  /\ r = [err |-> r.err, data |-> r.data, mode |-> r.mode] /\ r.data \in Seq(Named)
  /\ ModeKnown(r.mode)
  /\ r.err = "ok" => Len(r.data) = Least(i * p.max, p.n)
  /\ r.err = "ok" => r.data = Run(disc, p.lba, Least(i * p.max, p.n))
Transfer == INSTANCE FoldInduction WITH Step <- ChunkStep, Good <- ChunkGood

\* The chunks cover the transfer, and each of them begins inside it.
LEMMA ChunkCount ==
  ASSUME NEW n \in Nat, NEW max \in Nat \ {0}
  PROVE  LET N == (n + max - 1) \div max
         IN  /\ N \in Nat /\ N * max \in Nat /\ n <= N * max
             /\ \A i \in 1..N : (i - 1) * max \in Nat /\ (i - 1) * max < n /\ i * max = (i - 1) * max + max
<1> DEFINE N == (n + max - 1) \div max
           r == (n + max - 1) % max
<1>1. n + max - 1 \in Nat
  OBVIOUS
<1>2. N \in Nat /\ r \in 0..(max - 1) /\ r \in Nat /\ n + max - 1 = N * max + r
  BY <1>1, Quotient
<1> HIDE DEF N, r
<1>3. N * max \in Nat
  BY <1>2, Growing
<1>4. n <= N * max
  BY <1>2, <1>3
<1>5. ASSUME NEW i \in 1..N
      PROVE  (i - 1) * max \in Nat /\ (i - 1) * max < n /\ i * max = (i - 1) * max + max
  <2> DEFINE j == i - 1
  <2>1. j \in Nat /\ 1 \in Nat /\ i \in Nat /\ j + 1 = i /\ i <= N
    BY <1>2
  <2> HIDE DEF j
  <2>2. j * max \in Nat /\ (j + 1) * max = j * max + 1 * max
    BY <2>1, Growing
  <2>3. 1 * max = max
    OBVIOUS
  <2>4. i * max <= N * max /\ i * max \in Nat
    BY <1>2, <2>1, Growing
  <2>5. i * max = j * max + max
    BY <2>1, <2>2, <2>3
  <2>6. j * max < n
    BY <1>2, <1>3, <2>2, <2>4, <2>5
  <2> QED BY <2>2, <2>5, <2>6 DEF j
<1> QED BY <1>2, <1>3, <1>4, <1>5 DEF N

\* x is r with the right answer for n sectors added.
Adds(x, r, lba, n) ==
  \E a, m : /\ x = [err |-> a.err, data |-> r.data \o a.data, mode |-> m]
            /\ IsAnswer(a, n) /\ TrueAnswer(a, lba, n) /\ ModeKnown(m)

\* A chunk adds an answer to what there is.
LEMMA ChunkAdds ==
  ASSUME DriveKnown, NEW f, NEW r, r = [err |-> r.err, data |-> r.data, mode |-> r.mode],
         ModeKnown(r.mode), NEW lba \in Nat, NEW n \in Nat
  PROVE  Adds(ReadChunk(f, r, lba, n), r, lba, n)
<1>1. CASE lba >= Limit
  <2> DEFINE h == ReadHi(f, r.mode, lba, n)
  <2>1. IsAnswer(h.answer, n) /\ TrueAnswer(h.answer, lba, n) /\ ModeKnown(h.mode)
    BY ReadHiIs
  <2>2. ReadChunk(f, r, lba, n) = [r EXCEPT !.err = h.answer.err, !.data = @ \o h.answer.data,
                                            !.mode = h.mode]
    BY <1>1 DEF ReadChunk
  <2> HIDE DEF h
  <2>3. ReadChunk(f, r, lba, n) = [err |-> h.answer.err, data |-> r.data \o h.answer.data,
                                   mode |-> h.mode]
    BY <2>2
  <2> QED BY <1>1, <2>1, <2>3 DEF Adds
<1>2. CASE ~(lba >= Limit)
  <2> DEFINE a == ReadLo(f, scsiReads, lba, n)
  <2>1. lba < Limit
    BY <1>2, FileReadAssumption
  <2>2. IsAnswer(a, n) /\ TrueAnswer(a, lba, n)
    BY <2>1, ReadLoIs DEF DriveKnown
  <2>3. ReadChunk(f, r, lba, n) = [r EXCEPT !.err = a.err, !.data = @ \o a.data, !.mode = r.mode]
    BY <1>2 DEF ReadChunk
  <2> HIDE DEF a
  <2>4. ReadChunk(f, r, lba, n) = [err |-> a.err, data |-> r.data \o a.data, mode |-> r.mode]
    BY <2>3
  <2> QED BY <2>2, <2>4 DEF Adds
<1> QED BY <1>1, <1>2

\* A chunk that continues a transfer is a step of it.
LEMMA ChunkKeeps ==
  ASSUME DriveKnown, NEW f, NEW lba \in Nat, NEW n \in Nat, NEW max \in Nat \ {0},
         NEW i \in Nat \ {0}, (i - 1) * max \in Nat, (i - 1) * max < n, i * max = (i - 1) * max + max,
         NEW c, c = [lba |-> lba + (i - 1) * max, n |-> Least(max, n - (i - 1) * max)],
         NEW p, p = [f |-> f, lba |-> lba, n |-> n, max |-> max],
         NEW r, ChunkGood(r, i - 1, p)
  PROVE  ChunkGood(ChunkStep(r, c, p), i, p)
<1> DEFINE x == ChunkStep(r, c, p)
           b == (i - 1) * max
           m == Least(max, n - b)
<1>1. /\ p.f = f /\ p.lba = lba /\ p.n = n /\ p.max = max
      /\ c.lba = lba + b /\ c.n = m /\ b \in Nat /\ b < n /\ i * max = b + max
  OBVIOUS
<1>2. n - b \in Nat /\ n - b # 0
  BY <1>1
<1> HIDE DEF b
<1>3. m \in Nat /\ m # 0 /\ Least(i * max, n) = b + m /\ Least(b, n) = b
  BY <1>1, <1>2 DEF Least
<1> HIDE DEF m
<1>4. CASE r.err # "ok"
  BY <1>4 DEF ChunkStep, ChunkGood
<1>5. CASE r.err = "ok"
  <2>1. /\ r = [err |-> r.err, data |-> r.data, mode |-> r.mode] /\ r.data \in Seq(Named)
        /\ Len(r.data) = b
        /\ r.data = Run(disc, lba, b) /\ ModeKnown(r.mode)
    BY <1>1, <1>3, <1>5 DEF ChunkGood, b
  <2>2. x = ReadChunk(f, r, lba + b, m)
    BY <1>1, <1>5 DEF ChunkStep
  <2> HIDE DEF x
  <2>3. lba + b \in Nat
    BY <1>1
  <2>4. Adds(x, r, lba + b, m)
    BY <1>3, <2>1, <2>2, <2>3, ChunkAdds
  <2>5. PICK a, md : /\ x = [err |-> a.err, data |-> r.data \o a.data, mode |-> md]
                     /\ IsAnswer(a, m) /\ TrueAnswer(a, lba + b, m) /\ ModeKnown(md)
    BY <2>4 DEF Adds
  <2>6. /\ x.err = a.err /\ x.data = r.data \o a.data /\ ModeKnown(x.mode)
        /\ x = [err |-> x.err, data |-> x.data, mode |-> x.mode]
    BY <2>5
  <2>7. x.data \in Seq(Named) /\ Len(x.data) = Len(r.data) + Len(a.data)
    BY <2>1, <2>5, <2>6, ConcatProperties, ZenonT(40) DEF IsAnswer
  <2>8. ASSUME x.err = "ok" PROVE Len(x.data) = Least(i * max, n)
    BY <1>3, <2>1, <2>5, <2>6, <2>7, <2>8 DEF IsAnswer
  <2>9. ASSUME x.err = "ok" PROVE x.data = Run(disc, lba, Least(i * max, n))
    <3>2. a.data = Run(disc, lba + b, m)
      BY <2>5, <2>6, <2>9 DEF TrueAnswer
    <3>3. disc \in Discs /\ b \in Nat /\ m \in Nat
      BY <1>1, <1>3 DEF DriveKnown
    <3>4. Run(disc, lba, b) \o Run(disc, lba + b, m) = Run(disc, lba, b + m)
      BY <3>3, DiscJoin, ZenonT(40)
    <3> QED BY <1>3, <2>1, <2>6, <2>9, <3>2, <3>4
  <2>10. ChunkGood(x, i, p)
    BY <1>1, <2>6, <2>7, <2>8, <2>9 DEF ChunkGood
  <2> QED BY <2>10 DEF x
<1> QED BY <1>4, <1>5

\* amiga_read_sectors() and amiga_read_direct() read what they are asked for, or
\* fail, however the transfer is divided.
LEMMA TransferIs ==
  ASSUME DriveKnown, NEW f, NEW mode, ModeKnown(mode), NEW lba \in Nat, NEW n \in Nat, NEW direct
  PROVE  /\ IsAnswer(ReadSectors(f, mode, lba, n, direct), n)
         /\ TrueAnswer(ReadSectors(f, mode, lba, n, direct), lba, n)
         /\ ModeKnown(ReadSectors(f, mode, lba, n, direct).mode)
<1> DEFINE max == ChunkLength(n, direct)
           p == [f |-> f, lba |-> lba, n |-> n, max |-> max]
           b == [err |-> "ok", data |-> <<>>, mode |-> mode]
           cs == Chunks(lba, n, max)
           N == (n + max - 1) \div max
           x == ReadSectors(f, mode, lba, n, direct)
<1>1. max \in Nat \ {0}
  BY FileReadAssumption DEF ChunkLength, Least
<1>2. x = Transfer!Fold(b, cs, p)
  BY DEF ReadSectors, FoldLeft, MapThenFoldSet, Transfer!Fold, Max, Transfer!Max, ChunkStep
<1> HIDE DEF x, max
<1>3. /\ N \in Nat /\ N * max \in Nat /\ n <= N * max
      /\ \A i \in 1..N : (i - 1) * max \in Nat /\ (i - 1) * max < n /\ i * max = (i - 1) * max + max
  BY <1>1, ChunkCount
<1>4. /\ DOMAIN cs = 1..N
      /\ \A i \in 1..N : cs[i] = [lba |-> lba + (i - 1) * max, n |-> Least(max, n - (i - 1) * max)]
  BY DEF Chunks
<1>5. ChunkGood(b, 0, p)
  <2>1. 0 * max = 0 /\ Least(0, n) = 0
    BY <1>1 DEF Least
  <2>2. Run(disc, lba, 0) = <<>>
    BY DEF Run
  <2>3. b.data \in Seq(Named) /\ Len(b.data) = 0
    OBVIOUS
  <2> QED BY <2>1, <2>2, <2>3 DEF ChunkGood
<1> HIDE DEF cs, N, b
<1>6. \A w : \A i \in 1..N : ChunkGood(w, i - 1, p) => ChunkGood(ChunkStep(w, cs[i], p), i, p)
  <2> SUFFICES ASSUME NEW w, NEW i \in 1..N, ChunkGood(w, i - 1, p)
               PROVE  ChunkGood(ChunkStep(w, cs[i], p), i, p)
    OBVIOUS
  <2>1. i \in Nat \ {0}
    BY <1>3
  <2>2. p = [f |-> f, lba |-> lba, n |-> n, max |-> max]
    OBVIOUS
  <2> HIDE DEF p
  <2> QED BY <1>1, <1>3, <1>4, <2>1, <2>2, ChunkKeeps
<1>7. ChunkGood(x, N, p)
  <2> HIDE DEF p
  <2> QED BY <1>2, <1>3, <1>4, <1>5, <1>6, Transfer!FoldGood
<1>8. Least(N * max, n) = n
  BY <1>3 DEF Least
<1>9. IsAnswer(x, n) /\ TrueAnswer(x, lba, n) /\ ModeKnown(x.mode)
  BY <1>7, <1>8 DEF ChunkGood, IsAnswer, TrueAnswer
<1> QED BY <1>9 DEF x

-----------------------------------------------------------------------------
(* The block cache.                                                        *)

\* A slot holds the sector of the disc in the drive, unless that was changed.
Slot == [lba : Nat, data : Named]
TrueSlot == {s \in Slot : ~changed => s.data = [disc |-> disc, at |-> s.lba]}
TrueSector(lba, s) == s \in Named /\ (~changed => s = [disc |-> disc, at |-> lba])

\* A sector that was right is right in the cache.
LEMMA SlotIs ==
  ASSUME NEW lba \in Nat, NEW s, TrueSector(lba, s)
  PROVE  [lba |-> lba, data |-> s] \in TrueSlot
BY DEF TrueSector, TrueSlot, Slot

\* A sequence without one of its elements.
LEMMA RemoveIs ==
  ASSUME NEW S, NEW c \in Seq(S), NEW k \in DOMAIN c
  PROVE  RemoveAt(c, k) \in Seq(S)
<1>1. Len(c) \in Nat /\ DOMAIN c = 1..Len(c) /\ \A i \in 1..Len(c) : c[i] \in S
  BY LenProperties
<1>2. k \in Int /\ k - 1 \in Int /\ k + 1 \in Int /\ Len(c) \in Int /\ 1 \in Int
  BY <1>1
<1>3. \A i \in 1..(k - 1) : c[i] \in S
  BY <1>1
<1>4. \A i \in (k + 1)..Len(c) : c[i] \in S
  BY <1>1
<1>5. SubSeq(c, 1, k - 1) \in Seq(S)
  BY <1>2, <1>3, SubSeqProperties
<1>6. SubSeq(c, k + 1, Len(c)) \in Seq(S)
  BY <1>2, <1>4, SubSeqProperties
<1>7. SubSeq(c, 1, k - 1) \o SubSeq(c, k + 1, Len(c)) \in Seq(S)
  BY <1>5, <1>6, ConcatProperties
<1> QED BY <1>7 DEF RemoveAt

\* Installing a sector puts nothing else into the cache.
LEMMA InstallIs ==
  ASSUME NEW S, NEW c \in Seq(S), NEW lba, NEW s, [lba |-> lba, data |-> s] \in S
  PROVE  Install(c, lba, s) \in Seq(S)
<1> DEFINE others == IF Cached(c, lba) THEN RemoveAt(c, SlotOf(c, lba)) ELSE c
           all == <<[lba |-> lba, data |-> s]>> \o others
           n == Least(CacheSlots, Len(all))
<1>1. others \in Seq(S)
  <2>1. CASE Cached(c, lba)
    <3>1. SlotOf(c, lba) \in DOMAIN c
      BY <2>1 DEF Cached, SlotOf
    <3> QED BY <2>1, <3>1, RemoveIs
  <2> QED BY <2>1
<1> HIDE DEF others
<1>2. <<[lba |-> lba, data |-> s]>> \in Seq(S)
  OBVIOUS
<1>3. all \in Seq(S)
  BY <1>1, <1>2, ConcatProperties
<1> HIDE DEF all
<1>4. Len(all) \in Nat /\ \A i \in 1..Len(all) : all[i] \in S
  BY <1>3, LenProperties
<1>5. n \in Int /\ 1 \in Int /\ n <= Len(all)
  BY <1>4, FileReadAssumption DEF Least
<1> HIDE DEF n
<1>6. \A i \in 1..n : all[i] \in S
  BY <1>4, <1>5
<1>7. SubSeq(all, 1, n) \in Seq(S)
  BY <1>5, <1>6, SubSeqProperties
<1>8. Install(c, lba, s) = SubSeq(all, 1, n)
  BY DEF Install, others, all, n
<1> QED BY <1>7, <1>8

\* A sector found in the cache is the right one.
LEMMA CachedIs ==
  ASSUME NEW c \in Seq(TrueSlot), NEW lba \in Nat, Cached(c, lba)
  PROVE  TrueSector(lba, c[SlotOf(c, lba)].data)
<1>1. SlotOf(c, lba) \in DOMAIN c /\ c[SlotOf(c, lba)].lba = lba
  BY DEF Cached, SlotOf
<1> DEFINE x == c[SlotOf(c, lba)]
<1>2. x \in TrueSlot
  BY <1>1, LenProperties
<1>3. x.lba = lba
  BY <1>1
<1> HIDE DEF x
<1>4. TrueSector(lba, x.data)
  BY <1>2, <1>3 DEF TrueSlot, Slot, TrueSector
<1> QED BY <1>4 DEF x

\* Touching it keeps the cache true.
LEMMA TouchIs ==
  ASSUME NEW c \in Seq(TrueSlot), NEW lba \in Nat, Cached(c, lba)
  PROVE  Touch(c, lba) \in Seq(TrueSlot)
<1> DEFINE s == c[SlotOf(c, lba)].data
<1>1. TrueSector(lba, s)
  BY CachedIs
<1> HIDE DEF s
<1>2. [lba |-> lba, data |-> s] \in TrueSlot
  BY <1>1, SlotIs
<1>3. Install(c, lba, s) \in Seq(TrueSlot)
  BY <1>2, InstallIs
<1> QED BY <1>3 DEF Touch, s

\* A part of one sector.
LEMMA CutSector ==
  ASSUME DriveKnown, NEW lba \in Nat, NEW s, TrueSector(lba, s),
         NEW from \in Nat, NEW n \in Nat, from + n <= SectorSize
  PROVE  /\ Cut(<<s>>, from, n) \in Seq(Named) /\ Len(Cut(<<s>>, from, n)) = n
         /\ ~changed => Cut(<<s>>, from, n) = Run(disc, lba * SectorSize + from, n)
<1>1. <<s>> \in Seq(Named) /\ Len(<<s>>) = 1
  BY DEF TrueSector
<1>2. from + n <= 1 * SectorSize
  BY FileReadAssumption
<1>3. from + n <= Len(<<s>>) * SectorSize
  BY <1>1, <1>2
<1> DEFINE q == <<s>>
<1>4. q \in Seq(Named) /\ Len(q) = 1 /\ from + n <= Len(q) * SectorSize
  BY <1>1, <1>3
<1>5. ASSUME ~changed PROVE q = Run(disc, lba, 1)
  <2>1. s = [disc |-> disc, at |-> lba]
    BY <1>5 DEF TrueSector
  <2>2. lba + 1 - 1 = lba /\ 1 \in Nat /\ 1 \in 1..1
    OBVIOUS
  <2>3. /\ Run(disc, lba, 1) \in Seq(Named) /\ Len(Run(disc, lba, 1)) = 1
        /\ \A k \in 1..1 : Run(disc, lba, 1)[k] = [disc |-> disc, at |-> lba + k - 1]
    BY <2>2, RunIs, ZenonT(40) DEF DriveKnown
  <2>4. Run(disc, lba, 1)[1] = [disc |-> disc, at |-> lba + 1 - 1]
    BY <2>2, <2>3
  <2>5. q[1] = s
    OBVIOUS
  <2> HIDE DEF q
  <2>6. \A k \in 1..Len(q) : q[k] = Run(disc, lba, 1)[k]
    BY <1>4, <2>1, <2>2, <2>4, <2>5
  <2> QED BY <1>4, <2>3, <2>6, SameSeq
<1> HIDE DEF q
<1>6. Cut(q, from, n) \in Seq(Named) /\ Len(Cut(q, from, n)) = n
  BY <1>4, CutType, ZenonT(40)
<1>7. \A d \in Discs : Cut(Run(d, lba, 1), from, n) = Run(d, lba * SectorSize + from, n)
  BY <1>2, CutRun
<1>8. Cut(Run(disc, lba, 1), from, n) = Run(disc, lba * SectorSize + from, n)
  BY <1>7, Zenon DEF DriveKnown
<1>9. ~changed => Cut(q, from, n) = Run(disc, lba * SectorSize + from, n)
  BY <1>5, <1>8
<1> QED BY <1>6, <1>9 DEF q

-----------------------------------------------------------------------------
(* The pieces of a byte range.                                             *)

\* A piece covers the bytes a..b-1 of the disc: part of a sector, or sectors.
Piece == [lba : Nat, from : Nat, n : Nat \ {0}, stream : BOOLEAN]
Fits(q, a, b) ==
  /\ q.lba * SectorSize + q.from = a /\ a + q.n = b
  /\ q.stream => q.from = 0 /\ q.n = (q.n \div SectorSize) * SectorSize
  /\ ~q.stream => q.from + q.n <= SectorSize

\* The pieces cover a..b-1 one after the other; off has where they meet.
Meets(off, ps, a, b) ==
  /\ off \in [0..Len(ps) -> Nat] /\ off[0] = a /\ off[Len(ps)] = b
  /\ \A i \in 0..Len(ps) : a <= off[i] /\ off[i] <= b
  /\ \A i \in 1..Len(ps) : Fits(ps[i], off[i - 1], off[i])
Tiles(ps, a, b) == ps \in Seq(Piece) /\ \E off : Meets(off, ps, a, b)

\* Nothing covers nothing.
LEMMA TilesNone ==
  ASSUME NEW a \in Nat
  PROVE  Tiles(<<>>, a, a)
<1> DEFINE off == [i \in 0..0 |-> a]
<1>1. Len(<<>>) = 0 /\ <<>> \in Seq(Piece)
  OBVIOUS
<1>2. off \in [0..0 -> Nat] /\ off[0] = a /\ \A i \in 0..0 : a <= off[i] /\ off[i] <= a
  OBVIOUS
<1>3. Meets(off, <<>>, a, a)
  BY <1>1, <1>2 DEF Meets
<1> QED BY <1>1, <1>3 DEF Tiles

\* One piece.
LEMMA TilesOne ==
  ASSUME NEW q \in Piece, NEW a \in Nat, NEW b \in Nat, Fits(q, a, b)
  PROVE  Tiles(<<q>>, a, b)
<1> DEFINE off == [i \in 0..1 |-> IF i = 0 THEN a ELSE b]
           ps == <<q>>
<1>1. Len(ps) = 1 /\ ps \in Seq(Piece) /\ ps[1] = q
  OBVIOUS
<1>2. off \in [0..1 -> Nat] /\ off[0] = a /\ off[1] = b
  OBVIOUS
<1>3. a <= b
  BY DEF Fits, Piece
<1>4. \A i \in 0..1 : a <= off[i] /\ off[i] <= b
  BY <1>3
<1> HIDE DEF off, ps
<1>5. ASSUME NEW i \in 1..1 PROVE Fits(ps[i], off[i - 1], off[i])
  <2>1. i = 1 /\ i - 1 = 0
    OBVIOUS
  <2> QED BY <1>1, <1>2, <2>1
<1>6. Meets(off, ps, a, b)
  BY <1>1, <1>2, <1>4, <1>5 DEF Meets
<1>7. Tiles(ps, a, b)
  BY <1>1, <1>6 DEF Tiles
<1> QED BY <1>7 DEF ps

\* Pieces and more pieces.
LEMMA TilesJoin ==
  ASSUME NEW s, NEW t, NEW a \in Nat, NEW b \in Nat, NEW c \in Nat, Tiles(s, a, b), Tiles(t, b, c)
  PROVE  Tiles(s \o t, a, c)
<1>1. PICK u : Meets(u, s, a, b)
  BY DEF Tiles
<1>2. PICK v : Meets(v, t, b, c)
  BY DEF Tiles
<1>3. s \in Seq(Piece) /\ t \in Seq(Piece)
  BY DEF Tiles
<1> DEFINE m == Len(s)
           n == Len(t)
           x == s \o t
           off == [i \in 0..(m + n) |-> IF i <= m THEN u[i] ELSE v[i - m]]
<1>4. m \in Nat /\ n \in Nat
  BY <1>3, LenProperties
<1>5. /\ x \in Seq(Piece) /\ Len(x) = m + n
      /\ \A i \in 1..(m + n) : x[i] = IF i <= m THEN s[i] ELSE t[i - m]
  BY <1>3, ConcatProperties, Zenon
<1>6. /\ u \in [0..m -> Nat] /\ u[0] = a /\ u[m] = b /\ \A i \in 0..m : a <= u[i] /\ u[i] <= b
      /\ \A i \in 1..m : Fits(s[i], u[i - 1], u[i])
  BY <1>1 DEF Meets
<1>7. /\ v \in [0..n -> Nat] /\ v[0] = b /\ v[n] = c /\ \A i \in 0..n : b <= v[i] /\ v[i] <= c
      /\ \A i \in 1..n : Fits(t[i], v[i - 1], v[i])
  BY <1>2 DEF Meets
<1> HIDE DEF m, n, x
<1>8. a <= b /\ b <= c
  BY <1>4, <1>6, <1>7
<1>9. ASSUME NEW i \in 0..(m + n) PROVE off[i] \in Nat /\ a <= off[i] /\ off[i] <= c
  <2>1. CASE i <= m
    <3>1. i \in 0..m
      BY <1>4, <2>1
    <3>2. off[i] = u[i]
      BY <2>1
    <3>3. u[i] \in Nat /\ a <= u[i] /\ u[i] <= b
      BY <1>6, <3>1
    <3> QED BY <1>8, <3>2, <3>3
  <2>2. CASE ~(i <= m)
    <3>1. i - m \in 0..n
      BY <1>4, <2>2
    <3>2. off[i] = v[i - m]
      BY <2>2
    <3>3. v[i - m] \in Nat /\ b <= v[i - m] /\ v[i - m] <= c
      BY <1>7, <3>1
    <3> QED BY <1>8, <3>2, <3>3
  <2> QED BY <2>1, <2>2
<1>10. off[0] = a
  BY <1>4, <1>6
<1>11. off[m + n] = c
  <2>1. CASE n = 0
    <3>1. m + n = m /\ m + n \in 0..(m + n) /\ m + n <= m
      BY <1>4, <2>1
    <3>2. off[m + n] = u[m]
      BY <3>1
    <3> QED BY <1>6, <1>7, <2>1, <3>2
  <2>2. CASE n # 0
    <3>1. m + n \in 0..(m + n) /\ ~(m + n <= m) /\ (m + n) - m = n
      BY <1>4, <2>2
    <3>2. off[m + n] = v[n]
      BY <3>1
    <3> QED BY <1>7, <3>2
  <2> QED BY <2>1, <2>2
<1>12. ASSUME NEW i \in 1..(m + n) PROVE Fits(x[i], off[i - 1], off[i])
  <2>0. i \in 0..(m + n) /\ i - 1 \in 0..(m + n)
    BY <1>4
  <2>1. CASE i <= m
    <3>1. i \in 1..m /\ i - 1 <= m
      BY <1>4, <2>1
    <3>2. off[i] = u[i] /\ off[i - 1] = u[i - 1] /\ x[i] = s[i]
      BY <1>5, <2>0, <2>1, <3>1
    <3>3. Fits(s[i], u[i - 1], u[i])
      BY <1>6, <3>1
    <3> QED BY <3>2, <3>3, Zenon
  <2>2. CASE ~(i <= m)
    <3>1. i - m \in 1..n
      BY <1>4, <2>2
    <3>2. off[i] = v[i - m] /\ x[i] = t[i - m]
      BY <1>5, <2>0, <2>2
    <3>3. off[i - 1] = v[(i - m) - 1]
      <4>1. CASE i = m + 1
        <5>1. i - 1 = m /\ (i - m) - 1 = 0 /\ i - 1 <= m
          BY <1>4, <4>1
        <5>2. off[i - 1] = u[m]
          BY <2>0, <5>1
        <5> QED BY <1>6, <1>7, <5>1, <5>2
      <4>2. CASE i # m + 1
        <5>1. ~(i - 1 <= m) /\ (i - 1) - m = (i - m) - 1
          BY <1>4, <2>2, <4>2
        <5>2. off[i - 1] = v[(i - 1) - m]
          BY <2>0, <5>1
        <5> QED BY <5>1, <5>2
      <4> QED BY <4>1, <4>2
    <3>4. Fits(t[i - m], v[(i - m) - 1], v[i - m])
      BY <1>7, <3>1
    <3> QED BY <3>2, <3>3, <3>4, Zenon
  <2> QED BY <2>1, <2>2
<1>13. off \in [0..(m + n) -> Nat]
  <2>1. off = [i \in 0..(m + n) |-> off[i]]
    OBVIOUS
  <2>2. \A i \in 0..(m + n) : off[i] \in Nat
    BY <1>9
  <2> HIDE DEF off
  <2> QED BY <2>1, <2>2
<1> HIDE DEF off
<1>14. Meets(off, x, a, c)
  BY <1>5, <1>9, <1>10, <1>11, <1>12, <1>13 DEF Meets
<1>15. Tiles(x, a, c)
  BY <1>5, <1>14 DEF Tiles
<1> QED BY <1>15 DEF x

\* Whole sectors, one by one.
LEMMA TilesSectors ==
  ASSUME NEW l \in Nat, NEW n \in Nat
  PROVE  Tiles([k \in 1..n |-> [lba |-> l + k - 1, from |-> 0, n |-> SectorSize, stream |-> FALSE]],
               l * SectorSize, l * SectorSize + n * SectorSize)
<1> DEFINE ps == [k \in 1..n |-> [lba |-> l + k - 1, from |-> 0, n |-> SectorSize, stream |-> FALSE]]
           off == [i \in 0..n |-> (l + i) * SectorSize]
           b == l * SectorSize + n * SectorSize
<1>1. SectorSize \in Nat \ {0}
  BY FileReadAssumption
<1>2. ps \in [1..n -> Piece]
  BY <1>1 DEF Piece
<1>3. ps \in Seq(Piece)
  BY <1>2, SeqDef
<1>4. Len(ps) = n
  BY <1>2, <1>3, LenProperties
<1>5. ASSUME NEW i \in 0..n PROVE /\ off[i] = l * SectorSize + i * SectorSize /\ off[i] \in Nat
                                   /\ l * SectorSize <= off[i] /\ off[i] <= b
  <2>1. i \in Nat /\ i <= n /\ off[i] = (l + i) * SectorSize
    OBVIOUS
  <2>2. /\ (l + i) * SectorSize = l * SectorSize + i * SectorSize
        /\ l * SectorSize \in Nat /\ i * SectorSize \in Nat
    BY <1>1, <2>1, Growing
  <2>3. i * SectorSize <= n * SectorSize /\ n * SectorSize \in Nat
    BY <1>1, <2>1, Growing
  <2> QED BY <2>1, <2>2, <2>3
<1>6. off[0] = l * SectorSize
  <2>1. 0 * SectorSize = 0 /\ l * SectorSize \in Nat
    BY <1>1, Growing
  <2> QED BY <1>5, <2>1
<1>7. off[n] = b
  BY <1>5
<1>8. ASSUME NEW i \in 1..n PROVE Fits(ps[i], off[i - 1], off[i])
  <2>1. ps[i] = [lba |-> l + i - 1, from |-> 0, n |-> SectorSize, stream |-> FALSE]
    OBVIOUS
  <2>2. i - 1 \in 0..n /\ i \in 0..n /\ i - 1 \in Nat /\ l + i - 1 \in Nat
    OBVIOUS
  <2>3. off[i - 1] = (l + (i - 1)) * SectorSize
    BY <2>2
  <2>4. off[i] = l * SectorSize + i * SectorSize /\ off[i - 1] = l * SectorSize + (i - 1) * SectorSize
    BY <1>5, <2>2
  <2>5. l * SectorSize \in Nat /\ (i - 1) * SectorSize \in Nat
    BY <1>1, <2>2, Growing
  <2>6. ((i - 1) + 1) * SectorSize = (i - 1) * SectorSize + 1 * SectorSize
    BY <1>1, <2>2, Growing
  <2>7. (i - 1) + 1 = i /\ 1 * SectorSize = SectorSize /\ l + (i - 1) = l + i - 1
    BY <1>1, <2>2
  <2>8. off[i] = off[i - 1] + SectorSize /\ off[i - 1] \in Nat
    BY <1>1, <2>4, <2>5, <2>6, <2>7
  <2>9. (l + i - 1) * SectorSize + 0 = off[i - 1]
    <3>1. (l + i - 1) * SectorSize = off[i - 1]
      BY <2>3, <2>7
    <3> QED BY <2>8, <3>1
  <2> HIDE DEF ps, off
  <2> QED BY <1>1, <2>1, <2>8, <2>9 DEF Fits
<1>9. off \in [0..n -> Nat]
  <2>1. \A i \in 0..n : off[i] \in Nat
    BY <1>5
  <2>2. off = [i \in 0..n |-> off[i]]
    OBVIOUS
  <2> HIDE DEF off
  <2> QED BY <2>1, <2>2
<1>10. \A i \in 0..n : l * SectorSize <= off[i] /\ off[i] <= b
  BY <1>5
<1> HIDE DEF off, ps, b
<1>11. Meets(off, ps, l * SectorSize, b)
  BY <1>4, <1>6, <1>7, <1>8, <1>9, <1>10 DEF Meets
<1>12. Tiles(ps, l * SectorSize, b)
  BY <1>3, <1>11 DEF Tiles
<1> QED BY <1>12 DEF ps, b

\* The pieces of a range cover it.
LEMMA PiecesTile ==
  ASSUME NEW start \in Nat, NEW offset \in Nat, NEW want \in Nat
  PROVE  Tiles(Pieces(start, offset, want), start * SectorSize + offset,
               (start * SectorSize + offset) + want)
<1> DEFINE q == offset \div SectorSize
           lba == start + q
           off == offset % SectorSize
           head == IF off = 0 THEN 0 ELSE Least(SectorSize - off, want)
           next == IF off = 0 THEN lba ELSE lba + 1
           full == (want - head) \div SectorSize
           tail == (want - head) % SectorSize
           P(l, from, n, s) == [lba |-> l, from |-> from, n |-> n, stream |-> s]
           A == IF head = 0 THEN <<>> ELSE <<P(lba, off, head, FALSE)>>
           B == IF full >= StreamMin THEN <<P(next, 0, full * SectorSize, TRUE)>>
                ELSE [k \in 1..full |-> P(next + k - 1, 0, SectorSize, FALSE)]
           C == IF tail = 0 THEN <<>> ELSE <<P(next + full, 0, tail, FALSE)>>
           a == start * SectorSize + offset
           b == a + head
           c == b + full * SectorSize
           d == a + want
<1>1. SectorSize \in Nat \ {0} /\ StreamMin \in Nat \ {0} /\ a \in Nat
  BY FileReadAssumption, Growing
<1>2. q \in Nat /\ off \in 0..(SectorSize - 1) /\ off \in Nat /\ offset = q * SectorSize + off
  BY <1>1, Quotient
<1>3. Pieces(start, offset, want) = A \o B \o C
  BY DEF Pieces
<1> HIDE DEF q, off
<1>4. lba \in Nat /\ next \in Nat
  BY <1>2
<1>5. a = lba * SectorSize + off /\ lba * SectorSize \in Nat
  <2>1. (start + q) * SectorSize = start * SectorSize + q * SectorSize
    BY <1>1, <1>2, Growing
  <2>2. start * SectorSize \in Nat /\ q * SectorSize \in Nat
    BY <1>1, <1>2, Growing
  <2> QED BY <1>2, <2>1, <2>2
<1> HIDE DEF lba, a
<1>6. /\ head \in Nat /\ head <= want /\ off + head <= SectorSize
      /\ head # want => IF off = 0 THEN head = 0 ELSE head = SectorSize - off
  BY <1>1, <1>2 DEF Least
<1>7. head # want => next * SectorSize = b
  <2>1. CASE off = 0
    BY <1>1, <1>5, <1>6, <2>1
  <2>2. CASE off # 0
    <3>1. (lba + 1) * SectorSize = lba * SectorSize + 1 * SectorSize /\ 1 * SectorSize = SectorSize
      BY <1>1, <1>4, Growing
    <3> QED BY <1>1, <1>2, <1>5, <1>6, <2>2, <3>1
  <2> QED BY <2>1, <2>2
<1>8. b \in Nat
  BY <1>1, <1>6
<1> HIDE DEF head
<1>9. want - head \in Nat
  BY <1>6
<1>10. full \in Nat /\ tail \in 0..(SectorSize - 1) /\ tail \in Nat /\ want - head = full * SectorSize + tail
  BY <1>1, <1>9, Quotient
<1>11. head = want => full = 0 /\ tail = 0
  <2>1. ASSUME head = want PROVE want - head = 0
    BY <1>6, <2>1
  <2>2. 0 \div SectorSize = 0 /\ 0 % SectorSize = 0
    BY <1>1
  <2> QED BY <2>1, <2>2
<1>12. full * SectorSize \in Nat /\ next * SectorSize \in Nat
  BY <1>1, <1>4, <1>10, Growing
<1> HIDE DEF full, tail, next
<1>13. c \in Nat /\ d \in Nat /\ c + tail = d
  BY <1>1, <1>6, <1>8, <1>10, <1>12
<1>14. Tiles(A, a, b)
  <2>1. CASE head = 0
    <3>1. b = a /\ A = <<>>
      BY <1>1, <2>1
    <3> QED BY <1>1, <3>1, TilesNone
  <2>2. CASE head # 0
    <3> DEFINE x == P(lba, off, head, FALSE)
    <3>1. x \in Piece
      BY <1>2, <1>4, <1>6, <2>2 DEF Piece
    <3>2. Fits(x, a, b)
      BY <1>5, <1>6 DEF Fits
    <3>3. A = <<x>>
      BY <2>2
    <3> HIDE DEF x, A, b
    <3>4. Tiles(<<x>>, a, b)
      BY <1>1, <1>8, <3>1, <3>2, TilesOne
    <3> QED BY <3>3, <3>4
  <2> QED BY <2>1, <2>2
<1>15. Tiles(B, b, c)
  <2>1. CASE full >= StreamMin
    <3> DEFINE x == P(next, 0, full * SectorSize, TRUE)
    <3>1. full # 0 /\ head # want
      BY <1>1, <1>10, <1>11, <2>1
    <3>2. 1 * SectorSize <= full * SectorSize
      BY <1>1, <1>10, <3>1, Growing
    <3>3. full * SectorSize # 0
      BY <1>1, <3>2
    <3>4. x \in Piece
      BY <1>4, <1>12, <3>3 DEF Piece, next
    <3>5. (full * SectorSize + 0) \div SectorSize = full
      BY <1>1, <1>10, QuotientIs
    <3>6. next * SectorSize + 0 = b /\ (full * SectorSize) \div SectorSize = full
      BY <1>7, <1>8, <1>12, <3>1, <3>5
    <3>7. Fits(x, b, c)
      BY <3>6 DEF Fits
    <3>8. B = <<x>>
      BY <2>1
    <3> HIDE DEF x, B, b, c
    <3>9. Tiles(<<x>>, b, c)
      BY <1>8, <1>13, <3>4, <3>7, TilesOne
    <3> QED BY <3>8, <3>9
  <2>2. CASE ~(full >= StreamMin) /\ full # 0
    <3>1. b = next * SectorSize
      BY <1>7, <1>11, <2>2
    <3>2. B = [k \in 1..full |-> [lba |-> next + k - 1, from |-> 0, n |-> SectorSize, stream |-> FALSE]]
      BY <2>2
    <3>3. Tiles([k \in 1..full |-> [lba |-> next + k - 1, from |-> 0, n |-> SectorSize, stream |-> FALSE]],
                next * SectorSize, next * SectorSize + full * SectorSize)
      <4>1. \A l, n \in Nat : Tiles([k \in 1..n |-> [lba |-> l + k - 1, from |-> 0, n |-> SectorSize, stream |-> FALSE]],
               l * SectorSize, l * SectorSize + n * SectorSize)
        BY TilesSectors
      <4>2. next \in Nat /\ full \in Nat
        BY <1>4, <1>10 DEF next
      <4> HIDE DEF next, full
      <4> QED BY <4>1, <4>2, Zenon
    <3> QED BY <3>1, <3>2, <3>3
  <2>3. CASE full = 0
    <3>1. ~(full >= StreamMin) /\ B = <<>> /\ full * SectorSize = 0
      BY <1>1, <2>3
    <3>2. c = b
      BY <1>8, <3>1
    <3> QED BY <1>8, <3>1, <3>2, TilesNone
  <2> QED BY <2>1, <2>2, <2>3
<1>16. Tiles(C, c, d)
  <2>1. CASE tail = 0
    <3>1. c = d /\ C = <<>>
      BY <1>13, <2>1
    <3> QED BY <1>13, <3>1, TilesNone
  <2>2. CASE tail # 0
    <3> DEFINE x == P(next + full, 0, tail, FALSE)
    <3>1. next * SectorSize = b
      BY <1>7, <1>11, <2>2
    <3>2. next \in Nat /\ next + full \in Nat
      BY <1>4, <1>10 DEF next
    <3>3. x \in Piece
      BY <1>10, <2>2, <3>2 DEF Piece
    <3>4. (next + full) * SectorSize = next * SectorSize + full * SectorSize
      BY <1>1, <1>10, <3>2, Growing
    <3>5. (next + full) * SectorSize + 0 = c
      BY <1>13, <3>1, <3>4
    <3>6. Fits(x, c, d)
      BY <1>1, <1>10, <1>13, <3>5 DEF Fits
    <3>7. C = <<x>>
      BY <2>2
    <3> HIDE DEF x, C, c, d
    <3>8. Tiles(<<x>>, c, d)
      BY <1>13, <3>3, <3>6, TilesOne
    <3> QED BY <3>7, <3>8
  <2> QED BY <2>1, <2>2
<1> HIDE DEF A, B, C, b, c, d
<1>17. Tiles(A \o B, a, c)
  BY <1>1, <1>8, <1>13, <1>14, <1>15, TilesJoin
<1>18. Tiles((A \o B) \o C, a, d)
  BY <1>1, <1>13, <1>16, <1>17, TilesJoin
<1> QED BY <1>3, <1>18 DEF a, d

-----------------------------------------------------------------------------
(* The general path.                                                       *)

\* A read so far: what it has is typed, and so is its cache.
IsRead(r) ==
  /\ r = [err |-> r.err, out |-> r.out, cache |-> r.cache, mode |-> r.mode]
  /\ r.out \in Seq(Named) /\ r.cache \in Seq(TrueSlot) /\ ModeKnown(r.mode)

\* x is r with n bytes from address a on added, or with an error.
Fails(x, r) ==
  \E e, m : /\ e # "ok" /\ x = [err |-> e, out |-> r.out, cache |-> r.cache, mode |-> m]
            /\ ModeKnown(m)
Takes(x, r, a, n) ==
  \E t, c, m : /\ x = [err |-> "ok", out |-> r.out \o t, cache |-> c, mode |-> m]
               /\ t \in Seq(Named) /\ Len(t) = n /\ (~changed => t = Run(disc, a, n))
               /\ c \in Seq(TrueSlot) /\ ModeKnown(m)

\* Sectors that a transfer delivered, cut.
LEMMA CutAnswer ==
  ASSUME DriveKnown, NEW a, NEW lba \in Nat, NEW m \in Nat, a.data = Run(disc, lba, m),
         NEW from \in Nat, NEW n \in Nat, from + n <= m * SectorSize
  PROVE  /\ Cut(a.data, from, n) \in Seq(Named) /\ Len(Cut(a.data, from, n)) = n
         /\ Cut(a.data, from, n) = Run(disc, lba * SectorSize + from, n)
<1>1. \A d \in Discs : Cut(Run(d, lba, m), from, n) = Run(d, lba * SectorSize + from, n)
  BY CutRun
<1>2. Cut(Run(disc, lba, m), from, n) = Run(disc, lba * SectorSize + from, n)
  BY <1>1, Zenon DEF DriveKnown
<1>3. lba * SectorSize + from \in Nat
  BY FileReadAssumption, Growing
<1>4. \A d \in Discs : /\ Run(d, lba * SectorSize + from, n) \in Seq(Named)
                       /\ Len(Run(d, lba * SectorSize + from, n)) = n
  BY <1>3, RunIs
<1>5. /\ Run(disc, lba * SectorSize + from, n) \in Seq(Named)
      /\ Len(Run(disc, lba * SectorSize + from, n)) = n
  BY <1>4, Zenon DEF DriveKnown
<1>6. Cut(a.data, from, n) = Run(disc, lba * SectorSize + from, n)
  BY <1>2
<1> QED BY <1>5, <1>6

\* Part of a sector that had to be read.
LEMMA CopyReadIs ==
  ASSUME DriveKnown, NEW r, IsRead(r), r.err = "ok", NEW q \in Piece, q.from + q.n <= SectorSize,
         NEW a, TrueAnswer(a, q.lba, 1), ModeKnown(a.mode)
  PROVE  Fails(CopyRead(r, q, a), r) \/ Takes(CopyRead(r, q, a), r, q.lba * SectorSize + q.from, q.n)
<1> DEFINE x == CopyRead(r, q, a)
<1>0. q.lba \in Nat /\ q.from \in Nat /\ q.n \in Nat
  BY DEF Piece
<1>1. CASE a.err # "ok"
  <2>1. x = [r EXCEPT !.err = a.err, !.mode = a.mode]
    BY <1>1 DEF CopyRead
  <2> HIDE DEF x
  <2>2. x = [err |-> a.err, out |-> r.out, cache |-> r.cache, mode |-> a.mode]
    BY <2>1 DEF IsRead
  <2>3. Fails(x, r)
    BY <1>1, <2>2 DEF Fails
  <2> QED BY <2>3 DEF x
<1>2. CASE a.err = "ok"
  <2> DEFINE t == Cut(a.data, q.from, q.n)
             c == Install(r.cache, q.lba, a.data[1])
  <2>1. a.data = Run(disc, q.lba, 1) /\ 1 \in Nat
    BY <1>2 DEF TrueAnswer
  <2>2. q.from + q.n <= 1 * SectorSize
    BY FileReadAssumption
  <2>3. t \in Seq(Named) /\ Len(t) = q.n /\ t = Run(disc, q.lba * SectorSize + q.from, q.n)
    BY <1>0, <2>1, <2>2, CutAnswer
  <2>4. a.data[1] = [disc |-> disc, at |-> q.lba]
    <3>1. \A k \in 1..1 : Run(disc, q.lba, 1)[k] = [disc |-> disc, at |-> q.lba + k - 1]
      BY DEF Run
    <3>2. 1 \in 1..1 /\ q.lba + 1 - 1 = q.lba
      BY <1>0
    <3> QED BY <2>1, <3>1, <3>2
  <2>5. TrueSector(q.lba, a.data[1])
    BY <1>0, <2>4 DEF TrueSector, Named, DriveKnown
  <2>6. [lba |-> q.lba, data |-> a.data[1]] \in TrueSlot
    BY <1>0, <2>5, SlotIs
  <2>7. c \in Seq(TrueSlot)
    BY <2>6, InstallIs DEF IsRead
  <2>8. x = [r EXCEPT !.out = @ \o t, !.mode = a.mode, !.cache = c]
    BY <1>2 DEF CopyRead
  <2> HIDE DEF x, t, c
  <2>9. x = [err |-> "ok", out |-> r.out \o t, cache |-> c, mode |-> a.mode]
    BY <2>8 DEF IsRead
  <2>10. Takes(x, r, q.lba * SectorSize + q.from, q.n)
    BY <2>3, <2>7, <2>9 DEF Takes
  <2> QED BY <2>10 DEF x
<1> QED BY <1>1, <1>2

\* Part of a sector, read or cached.
LEMMA CopySectorIs ==
  ASSUME DriveKnown, NEW f, NEW r, IsRead(r), r.err = "ok", NEW q \in Piece,
         q.from + q.n <= SectorSize
  PROVE  \/ Fails(CopySector(f, r, q), r)
         \/ Takes(CopySector(f, r, q), r, q.lba * SectorSize + q.from, q.n)
<1> DEFINE x == CopySector(f, r, q)
<1>0. q.lba \in Nat /\ q.from \in Nat /\ q.n \in Nat
  BY DEF Piece
<1>1. CASE ~Cached(r.cache, q.lba)
  <2> DEFINE a == ReadSectors(f, r.mode, q.lba, 1, FALSE)
  <2>1. TrueAnswer(a, q.lba, 1) /\ ModeKnown(a.mode)
    BY <1>0, TransferIs DEF IsRead
  <2>2. x = CopyRead(r, q, a)
    BY <1>1 DEF CopySector
  <2> HIDE DEF a
  <2> QED BY <2>1, <2>2, CopyReadIs
<1>2. CASE Cached(r.cache, q.lba)
  <2> DEFINE s == r.cache[SlotOf(r.cache, q.lba)].data
             t == Cut(<<s>>, q.from, q.n)
             c == Touch(r.cache, q.lba)
  <2>1. r.cache \in Seq(TrueSlot)
    BY DEF IsRead
  <2>2. TrueSector(q.lba, s)
    BY <1>0, <1>2, <2>1, CachedIs
  <2>3. c \in Seq(TrueSlot)
    BY <1>0, <1>2, <2>1, TouchIs
  <2>4. x = [r EXCEPT !.out = @ \o t, !.cache = c]
    BY <1>2 DEF CopySector
  <2> HIDE DEF s, c, x
  <2>5. t \in Seq(Named) /\ Len(t) = q.n /\ (~changed => t = Run(disc, q.lba * SectorSize + q.from, q.n))
    BY <1>0, <2>2, CutSector
  <2> HIDE DEF t
  <2>6. x = [err |-> "ok", out |-> r.out \o t, cache |-> c, mode |-> r.mode]
    BY <2>4 DEF IsRead
  <2>7. Takes(x, r, q.lba * SectorSize + q.from, q.n)
    BY <2>3, <2>5, <2>6 DEF Takes, IsRead
  <2> QED BY <2>7 DEF x
<1> QED BY <1>1, <1>2

\* Whole sectors, past the cache.
LEMMA StreamIs ==
  ASSUME DriveKnown, NEW f, NEW r, IsRead(r), r.err = "ok", NEW q \in Piece,
         q.n = (q.n \div SectorSize) * SectorSize, q.from = 0, NEW direct
  PROVE  \/ Fails(StreamSectors(f, r, q, direct), r)
         \/ Takes(StreamSectors(f, r, q, direct), r, q.lba * SectorSize + q.from, q.n)
<1> DEFINE x == StreamSectors(f, r, q, direct)
           m == q.n \div SectorSize
           a == ReadSectors(f, r.mode, q.lba, m, direct)
<1>0. q.lba \in Nat /\ q.n \in Nat
  BY DEF Piece
<1>1. m \in Nat /\ 0 \in Nat /\ 0 + q.n <= m * SectorSize
  <2>1. m \in Nat /\ q.n = m * SectorSize
    BY <1>0, Quotient, FileReadAssumption
  <2> QED BY <1>0, <2>1
<1>2. TrueAnswer(a, q.lba, m) /\ ModeKnown(a.mode)
  <2> HIDE DEF m
  <2> QED BY <1>0, <1>1, TransferIs DEF IsRead
<1>3. x = IF a.err # "ok" THEN [r EXCEPT !.err = a.err, !.mode = a.mode]
          ELSE [r EXCEPT !.out = @ \o Cut(a.data, 0, q.n), !.mode = a.mode]
  BY DEF StreamSectors
<1> HIDE DEF a, m, x
<1>4. CASE a.err # "ok"
  <2>1. x = [err |-> a.err, out |-> r.out, cache |-> r.cache, mode |-> a.mode]
    BY <1>3, <1>4 DEF IsRead
  <2>2. Fails(x, r)
    BY <1>2, <1>4, <2>1 DEF Fails
  <2> QED BY <2>2 DEF x
<1>5. CASE a.err = "ok"
  <2> DEFINE t == Cut(a.data, 0, q.n)
  <2>1. a.data = Run(disc, q.lba, m)
    BY <1>2, <1>5 DEF TrueAnswer
  <2>2. t \in Seq(Named) /\ Len(t) = q.n /\ t = Run(disc, q.lba * SectorSize + 0, q.n)
    BY <1>0, <1>1, <2>1, CutAnswer
  <2> HIDE DEF t
  <2>3. x = [err |-> "ok", out |-> r.out \o t, cache |-> r.cache, mode |-> a.mode]
    BY <1>3, <1>5 DEF IsRead, t
  <2>4. Takes(x, r, q.lba * SectorSize + q.from, q.n)
    BY <1>2, <2>2, <2>3 DEF Takes, IsRead
  <2> QED BY <2>4 DEF x
<1> QED BY <1>4, <1>5

\* A file's sectors cover it.
LEMMA SectorsCover ==
  ASSUME NEW n \in Nat
  PROVE  SectorsOf(n) \in Nat /\ SectorsOf(n) * SectorSize \in Nat /\ n <= SectorsOf(n) * SectorSize
BY ChunkCount, FileReadAssumption DEF SectorsOf

\* A read that has the n bytes from address a on, or some of them and an error.
HasRead(r, a, n) ==
  /\ IsRead(r) /\ Len(r.out) <= n /\ (r.err = "ok" => Len(r.out) = n)
  /\ ~changed => r.out = Run(disc, a, Len(r.out))

\* A read through the pieces; r has the first i of them.
PieceStep(r, q, p) ==
  IF r.err # "ok" THEN r
  ELSE IF q.stream THEN StreamSectors(p.f, r, q, p.direct)
  ELSE CopySector(p.f, r, q)
PieceGood(r, i, p) == HasRead(r, p.off[0], p.off[i] - p.off[0])
General == INSTANCE FoldInduction WITH Step <- PieceStep, Good <- PieceGood

\* A piece that was read, or that failed, is a step.
LEMMA TakesKeeps ==
  ASSUME DriveKnown, NEW a \in Nat, NEW k \in Nat, NEW n \in Nat, NEW r, HasRead(r, a, k),
         r.err = "ok", NEW x, Fails(x, r) \/ Takes(x, r, a + k, n)
  PROVE  HasRead(x, a, k + n)
<1>0. IsRead(r) /\ Len(r.out) = k /\ (~changed => r.out = Run(disc, a, k))
  BY DEF HasRead
<1>1. CASE Fails(x, r)
  <2>1. PICK e, m : /\ e # "ok" /\ x = [err |-> e, out |-> r.out, cache |-> r.cache, mode |-> m]
                    /\ ModeKnown(m)
    BY <1>1 DEF Fails
  <2>2. IsRead(x) /\ x.out = r.out /\ x.err # "ok"
    BY <1>0, <2>1 DEF IsRead
  <2>3. Len(x.out) <= k + n
    BY <1>0, <2>2
  <2> QED BY <1>0, <2>2, <2>3 DEF HasRead
<1>2. CASE Takes(x, r, a + k, n)
  <2>1. PICK t, c, m :
          /\ x = [err |-> "ok", out |-> r.out \o t, cache |-> c, mode |-> m]
          /\ t \in Seq(Named) /\ Len(t) = n /\ (~changed => t = Run(disc, a + k, n))
          /\ c \in Seq(TrueSlot) /\ ModeKnown(m)
    BY <1>2 DEF Takes
  <2>2. r.out \in Seq(Named)
    BY <1>0 DEF IsRead
  <2>3. r.out \o t \in Seq(Named) /\ Len(r.out \o t) = Len(r.out) + Len(t)
    BY <2>1, <2>2, ConcatProperties
  <2>4. x.out = r.out \o t
    BY <2>1
  <2>5. IsRead(x)
    BY <2>1, <2>3 DEF IsRead
  <2>6. Len(x.out) = k + n
    BY <1>0, <2>1, <2>3, <2>4
  <2>7. ASSUME ~changed PROVE x.out = Run(disc, a, k + n)
    <3>1. Run(disc, a, k) \o Run(disc, a + k, n) = Run(disc, a, k + n)
      BY DiscJoin
    <3> QED BY <1>0, <2>1, <2>4, <2>7, <3>1
  <2>8. Len(x.out) <= k + n
    BY <2>6
  <2> QED BY <2>5, <2>6, <2>7, <2>8 DEF HasRead
<1> QED BY <1>1, <1>2

\* An error ends the read.
LEMMA ErrorKeeps ==
  ASSUME NEW r, NEW a \in Nat, NEW k \in Nat, NEW n \in Nat, HasRead(r, a, k), k <= n, r.err # "ok"
  PROVE  HasRead(r, a, n)
<1>1. Len(r.out) \in Nat
  BY LenProperties DEF HasRead, IsRead
<1>2. Len(r.out) <= n
  BY <1>1 DEF HasRead
<1> QED BY <1>2 DEF HasRead

\* What a read should deliver at a position, and that it did.
Have(file, pos, len) == IF pos >= file.size THEN 0 ELSE Least(len, file.size - pos)
Right(out, err, file, pos, len) ==
  /\ out \in Seq(Named) /\ Len(out) <= Have(file, pos, len)
  /\ err = "ok" => Len(out) = Have(file, pos, len)
  /\ ~changed => out = Run(disc, file.lba * SectorSize + pos, Len(out))

\* A step of a read through pieces that cover a part of the file.
LEMMA PieceKeeps ==
  ASSUME DriveKnown, NEW file \in [lba : Nat, size : Nat],
         NEW q \in Piece, NEW p, NEW i \in Nat \ {0},
         p.off[0] \in Nat, p.off[i - 1] \in Nat, p.off[i] \in Nat, p.off[0] <= p.off[i - 1],
         p.off[i] <= file.lba * SectorSize + file.size, Fits(q, p.off[i - 1], p.off[i]),
         NEW r, PieceGood(r, i - 1, p)
  PROVE  PieceGood(PieceStep(r, q, p), i, p)
<1> DEFINE x == PieceStep(r, q, p)
           a0 == p.off[0]
           a == p.off[i - 1]
           b == p.off[i]
           k == a - a0
<1>1. /\ a0 \in Nat /\ a \in Nat /\ b \in Nat /\ a0 <= a /\ HasRead(r, a0, a - a0)
      /\ Fits(q, a, b) /\ b <= file.lba * SectorSize + file.size
  BY DEF PieceGood
<1> HIDE DEF a0, a, b
<1>2. q.n \in Nat /\ q.lba * SectorSize + q.from = a /\ a + q.n = b
  BY <1>1 DEF Fits, Piece
<1>3. k \in Nat /\ a0 + k = a /\ b - a0 = k + q.n /\ k <= k + q.n /\ k + q.n \in Nat
  BY <1>1, <1>2
<1>4. HasRead(r, a0, k)
  BY <1>1
<1> HIDE DEF k
<1>5. HasRead(x, a0, k + q.n)
  <2>1. CASE r.err # "ok"
    <3>1. x = r
      BY <2>1 DEF PieceStep
    <3>2. HasRead(r, a0, k + q.n)
      BY <1>1, <1>3, <1>4, <2>1, ErrorKeeps
    <3> QED BY <3>1, <3>2
  <2>2. CASE r.err = "ok"
    <3>2. IsRead(r)
      BY <1>4 DEF HasRead
    <3>3. Fails(x, r) \/ Takes(x, r, q.lba * SectorSize + q.from, q.n)
      <4>1. CASE q.stream
        <5>1. q.from = 0 /\ q.n = (q.n \div SectorSize) * SectorSize
          BY <1>1, <4>1 DEF Fits
        <5>2. x = StreamSectors(p.f, r, q, p.direct)
          BY <2>2, <4>1 DEF PieceStep
        <5> HIDE DEF x
        <5> QED BY <2>2, <3>2, <4>1, <5>1, <5>2, StreamIs
      <4>2. CASE ~q.stream
        <5>1. q.from + q.n <= SectorSize
          BY <1>1, <4>2 DEF Fits
        <5>2. x = CopySector(p.f, r, q)
          BY <2>2, <4>2 DEF PieceStep
        <5> HIDE DEF x
        <5> QED BY <2>2, <3>2, <4>2, <5>1, <5>2, CopySectorIs
      <4> QED BY <4>1, <4>2
    <3> HIDE DEF x
    <3>4. Fails(x, r) \/ Takes(x, r, a0 + k, q.n)
      BY <1>2, <1>3, <3>3
    <3> QED BY <1>1, <1>2, <1>3, <1>4, <2>2, <3>4, TakesKeeps
  <2> QED BY <2>1, <2>2
<1>6. HasRead(x, a0, b - a0)
  BY <1>3, <1>5
<1> QED BY <1>6 DEF PieceGood, a0, b, x

\* What is there to read.
LEMMA HaveIs ==
  ASSUME NEW file \in [lba : Nat, size : Nat], NEW pos \in Nat, pos <= file.size, NEW len \in Nat
  PROVE  /\ Have(file, pos, len) \in Nat /\ Have(file, pos, len) = Least(len, file.size - pos)
         /\ pos + Have(file, pos, len) <= file.size
<1>1. file.size \in Nat
  OBVIOUS
<1> QED BY <1>1 DEF Have, Least

\* odfs_read() of a contiguous file reads the file, or fails after some of it.
LEMMA GeneralIs ==
  ASSUME DriveKnown, NEW f, NEW c \in Seq(TrueSlot), NEW file \in [lba : Nat, size : Nat],
         NEW pos \in Nat, pos <= file.size, NEW len \in Nat, NEW direct
  PROVE  HasRead(ReadFile(f, c, file, pos, len, direct), file.lba * SectorSize + pos,
                 Have(file, pos, len))
<1> DEFINE x == ReadFile(f, c, file, pos, len, direct)
           w == Have(file, pos, len)
           ps == Pieces(file.lba, pos, w)
           a == file.lba * SectorSize + pos
           b == [err |-> "ok", out |-> <<>>, cache |-> c, mode |-> read64Mode]
<1>1. /\ file.lba \in Nat /\ file.size \in Nat /\ w \in Nat /\ pos + w <= file.size
      /\ file.lba * SectorSize \in Nat /\ a \in Nat /\ a + w <= file.lba * SectorSize + file.size
  <2>1. /\ file.lba \in Nat /\ file.size \in Nat /\ SectorSize \in Nat
        /\ w \in Nat /\ pos + w <= file.size
    BY HaveIs, FileReadAssumption
  <2> HIDE DEF w
  <2>2. file.lba * SectorSize \in Nat
    BY <2>1, Growing
  <2> QED BY <2>1, <2>2
<1>2. Tiles(ps, a, a + w)
  BY <1>1, PiecesTile
<1>3. PICK off : Meets(off, ps, a, a + w)
  BY <1>2 DEF Tiles
<1>4. ps \in Seq(Piece)
  BY <1>2 DEF Tiles
<1> DEFINE p == [f |-> f, direct |-> direct, off |-> off]
           N == Len(ps)
<1>5. N \in Nat /\ DOMAIN ps = 1..N /\ \A i \in 1..N : ps[i] \in Piece
  BY <1>4, LenProperties
<1>6. x = General!Fold(b, ps, p)
  BY DEF ReadFile, Have, FoldLeft, MapThenFoldSet, General!Fold, Max, General!Max, PieceStep
<1>7. PieceGood(b, 0, p)
  <2>1. IsRead(b) /\ b.out = <<>> /\ b.err = "ok" /\ p.off[0] = a
    BY <1>3 DEF IsRead, Meets, DriveKnown
  <2>2. a - a = 0 /\ Len(<<>>) = 0 /\ Run(disc, a, 0) = <<>>
    BY <1>1 DEF Run
  <2> HIDE DEF b, p
  <2> QED BY <2>1, <2>2 DEF PieceGood, HasRead
<1> HIDE DEF x, w, ps, a, b, N
<1>8. /\ off \in [0..N -> Nat] /\ off[0] = a /\ off[N] = a + w
      /\ \A i \in 0..N : a <= off[i] /\ off[i] <= a + w
      /\ \A i \in 1..N : Fits(ps[i], off[i - 1], off[i])
  BY <1>3 DEF Meets, N
<1>9. p.off = off
  OBVIOUS
<1> HIDE DEF p
<1>10. \A r : \A i \in 1..N : PieceGood(r, i - 1, p) => PieceGood(PieceStep(r, ps[i], p), i, p)
  <2> SUFFICES ASSUME NEW r, NEW i \in 1..N, PieceGood(r, i - 1, p)
               PROVE  PieceGood(PieceStep(r, ps[i], p), i, p)
    OBVIOUS
  <2>1. i \in Nat \ {0} /\ i \in 0..N /\ i - 1 \in 0..N /\ 0 \in 0..N
    BY <1>5
  <2>2. p.off[0] \in Nat /\ p.off[i - 1] \in Nat /\ p.off[i] \in Nat /\ p.off[0] <= p.off[i - 1]
    BY <1>8, <1>9, <2>1
  <2>3. p.off[i] <= file.lba * SectorSize + file.size
    BY <1>1, <1>8, <1>9, <2>1, <2>2
  <2>4. ps[i] \in Piece /\ Fits(ps[i], p.off[i - 1], p.off[i])
    BY <1>5, <1>8, <1>9
  <2> QED BY <2>1, <2>2, <2>3, <2>4, PieceKeeps
<1>11. PieceGood(x, N, p)
  BY <1>5, <1>6, <1>7, <1>10, General!FoldGood
<1>12. HasRead(x, p.off[0], p.off[N] - p.off[0])
  BY <1>11 DEF PieceGood
<1>13. p.off[0] = a /\ p.off[N] - p.off[0] = w
  BY <1>1, <1>8, <1>9
<1> QED BY <1>12, <1>13 DEF x, a, w

-----------------------------------------------------------------------------
(* What a read delivers.                                                   *)

\* The general path's answer is right.
LEMMA GeneralRight ==
  ASSUME DriveKnown, NEW f, NEW c \in Seq(TrueSlot), NEW file \in [lba : Nat, size : Nat],
         NEW pos \in Nat, pos <= file.size, NEW len \in Nat, NEW direct,
         NEW g, g = ReadFile(f, c, file, pos, len, direct)
  PROVE  Right(g.out, g.err, file, pos, len) /\ g.cache \in Seq(TrueSlot) /\ ModeKnown(g.mode)
<1>1. HasRead(g, file.lba * SectorSize + pos, Have(file, pos, len))
  BY GeneralIs
<1> QED BY <1>1 DEF HasRead, IsRead, Right

\* Part of a read, and the rest of it read where the part ends.
LEMMA RightJoin ==
  ASSUME DriveKnown, NEW file \in [lba : Nat, size : Nat], NEW pos \in Nat, pos <= file.size,
         NEW len \in Nat, NEW pre, Right(pre, "part", file, pos, len),
         NEW out, NEW err, Right(out, err, file, pos + Len(pre), len - Len(pre))
  PROVE  Right(pre \o out, err, file, pos, len)
<1> DEFINE m == Len(pre)
           n == Len(out)
           h == Have(file, pos, len)
           a == file.lba * SectorSize + pos
<1>1. pre \in Seq(Named) /\ out \in Seq(Named) /\ m \in Nat /\ n \in Nat /\ m <= h
  BY LenProperties DEF Right
<1>2. file.size \in Nat /\ file.lba \in Nat /\ h \in Nat /\ h = Least(len, file.size - pos) /\ pos + h <= file.size
  BY HaveIs
<1>3. a \in Nat /\ a + m \in Nat /\ file.lba * SectorSize + (pos + m) = a + m
  <2>1. file.lba * SectorSize \in Nat
    BY <1>2, FileReadAssumption, Growing
  <2> QED BY <1>1, <2>1
<1>4. m <= len /\ len - m \in Nat /\ pos + m \in Nat /\ pos + m <= file.size
  <2> HIDE DEF m, h
  <2> QED BY <1>1, <1>2 DEF Least
<1>5. Have(file, pos + m, len - m) = h - m
  <2>1. Have(file, pos + m, len - m) = Least(len - m, file.size - (pos + m))
    <3> HIDE DEF m
    <3> QED BY <1>4, HaveIs
  <2> HIDE DEF m, h
  <2> QED BY <1>1, <1>2, <1>4, <2>1 DEF Least
<1>6. n <= h - m /\ (err = "ok" => n = h - m)
  BY <1>5 DEF Right
<1>7. ~changed => pre = Run(disc, a, m) /\ out = Run(disc, a + m, n)
  BY <1>3 DEF Right
<1> HIDE DEF m, n, h, a
<1>8. pre \o out \in Seq(Named) /\ Len(pre \o out) = m + n
  BY <1>1, ConcatProperties DEF m, n
<1>9. Run(disc, a, m) \o Run(disc, a + m, n) = Run(disc, a, m + n)
  BY <1>1, <1>3, DiscJoin, ZenonT(40)
<1>10. m + n <= h /\ (err = "ok" => m + n = h)
  <2>1. m \in Nat /\ n \in Nat /\ h \in Nat
    BY <1>1, <1>2
  <2>2. m + n <= h
    BY <1>6, <2>1
  <2>3. ASSUME err = "ok" PROVE m + n = h
    BY <1>6, <2>1, <2>3
  <2> QED BY <2>2, <2>3
<1>11. ~changed => pre \o out = Run(disc, a, m + n)
  BY <1>7, <1>9
<1> QED BY <1>8, <1>10, <1>11 DEF Right, h, a

\* The quick paths serve whole files that can be addressed.
LEMMA DirectSizeIs ==
  ASSUME NEW file \in [lba : Nat, size : Nat], DirectSize(file) # 0
  PROVE  /\ DirectSize(file) = file.size /\ file.size \in Nat \ {0} /\ file.lba \in Nat
         /\ file.lba < Limit /\ SectorsOf(file.size) <= Limit - file.lba
BY DEF DirectSize

\* The sector of a position in the file, and its place in that sector.
LEMMA PlaceIs ==
  ASSUME NEW file \in [lba : Nat, size : Nat], NEW pos \in Nat, pos < file.size
  PROVE  /\ pos \div SectorSize \in Nat /\ pos % SectorSize \in Nat /\ pos % SectorSize < SectorSize
         /\ file.lba + pos \div SectorSize \in Nat
         /\ (file.lba + pos \div SectorSize) * SectorSize + (pos % SectorSize)
              = file.lba * SectorSize + pos
         /\ pos \div SectorSize < SectorsOf(file.size)
<1> DEFINE S == SectorSize
           q == pos \div S
           r == pos % S
           m == SectorsOf(file.size)
<1>1. S \in Nat \ {0} /\ file.lba \in Nat /\ file.size \in Nat
  BY FileReadAssumption
<1>2. q \in Nat /\ r \in 0..(S - 1) /\ r \in Nat /\ pos = q * S + r
  BY <1>1, Quotient
<1>3. m \in Nat /\ m * S \in Nat /\ file.size <= m * S
  BY <1>1, SectorsCover
<1> HIDE DEF S, q, r, m
<1>4. q * S \in Nat /\ file.lba * S \in Nat /\ (file.lba + q) * S = file.lba * S + q * S
  BY <1>1, <1>2, Growing
<1>5. q * S < m * S
  BY <1>1, <1>2, <1>3, <1>4
<1>6. q < m
  BY <1>1, <1>2, <1>3, <1>5, Multiples
<1>7. r < S /\ file.lba + q \in Nat /\ (file.lba + q) * S + r = file.lba * S + pos
  BY <1>1, <1>2, <1>4
<1> QED BY <1>2, <1>6, <1>7 DEF S, q, r, m

-----------------------------------------------------------------------------
(* The inductive invariant.                                                *)

\* The mounted disc is the one in the drive until that is changed.
MediumKnown ==
  /\ DriveKnown /\ mount \in [disc : Discs, number : Nat]
  /\ ~changed => mount.disc = disc

\* The open handle is inside a file.
HandleInFile ==
  fh # Null =>
    /\ fh \in [file : Files, pos : Nat, last : Nat, mount : Nat]
    /\ fh.pos <= fh.file.size

\* Sectors that were read ahead are the disc's, unless that was changed.
Window(b, lba, n) == b \in Seq(Named) /\ Len(b) = n /\ (~changed => b = Run(disc, lba, n))
IsWindow(p) ==
  /\ p = [state |-> p.state, lba |-> p.lba, count |-> p.count, buf |-> p.buf]
  /\ p.lba \in Nat /\ p.count \in Nat /\ p.state \in {"none", "busy", "valid"}
  /\ p.state = "valid" => Window(p.buf, p.lba, p.count)
IsRequest(q) ==
  /\ q = [state |-> q.state, lba |-> q.lba, n |-> q.n, data |-> q.data]
  /\ q.lba \in Nat /\ q.n \in Nat /\ q.state \in {"idle", "sent", "done", "failed"}
  /\ q.state = "done" => Window(q.data, q.lba, q.n)
AheadTrue == IsWindow(pf) /\ IsRequest(req)

CacheTrue == cache \in Seq(TrueSlot)

Inv ==
  MediumKnown /\ HandleInFile /\ AheadTrue /\ CacheTrue /\ RequestOwned /\ ReadExact

\* The open handle's file.
LEMMA HandleIs ==
  ASSUME HandleInFile, fh # Null
  PROVE  /\ fh.file \in [lba : Nat, size : Nat] /\ fh.file.lba \in Nat /\ fh.file.size \in Nat
         /\ fh.pos \in Nat /\ fh.pos <= fh.file.size
BY MediaAssumption DEF HandleInFile

-----------------------------------------------------------------------------
(* The quick paths.                                                        *)

\* fh_read_direct() reads all that is asked for, or nothing.
LEMMA DirectRight ==
  ASSUME MediumKnown, HandleInFile, fh # Null, NEW f, NEW len \in Nat, NEW direct,
         DirectRead(f, len, direct) # <<>>
  PROVE  Right(DirectRead(f, len, direct), "ok", fh.file, fh.pos, len)
<1> DEFINE size == DirectSize(fh.file)
           want == Least(size - fh.pos, len)
           lba == fh.file.lba + fh.pos \div SectorSize
           n == want \div SectorSize
           a == ReadLo(f, scsiReads, lba, n)
           d == DirectRead(f, len, direct)
<1>1. /\ size # 0 /\ fh.pos < size /\ fh.pos % SectorSize = 0 /\ want % SectorSize = 0
      /\ a.err = "ok" /\ d = Cut(a.data, 0, want)
  BY DEF DirectRead
<1>2. /\ fh.file \in [lba : Nat, size : Nat] /\ fh.pos \in Nat /\ fh.pos <= fh.file.size
      /\ fh.file.lba \in Nat /\ fh.file.size \in Nat
  BY HandleIs
<1>3. size = fh.file.size /\ fh.file.lba < Limit /\ SectorsOf(fh.file.size) <= Limit - fh.file.lba
  BY <1>1, <1>2, DirectSizeIs
<1>4. want \in Nat /\ want = Have(fh.file, fh.pos, len)
  <2>1. Have(fh.file, fh.pos, len) \in Nat /\ Have(fh.file, fh.pos, len) = Least(len, fh.file.size - fh.pos)
    BY <1>2, HaveIs
  <2>2. Least(fh.file.size - fh.pos, len) = Least(len, fh.file.size - fh.pos)
    BY <1>2 DEF Least
  <2> QED BY <1>3, <2>1, <2>2
<1>5. /\ lba \in Nat /\ lba * SectorSize + (fh.pos % SectorSize) = fh.file.lba * SectorSize + fh.pos
      /\ fh.pos \div SectorSize \in Nat /\ fh.pos \div SectorSize < SectorsOf(fh.file.size)
  BY <1>1, <1>2, <1>3, PlaceIs
<1>6. n \in Nat /\ want = n * SectorSize + (want % SectorSize) /\ n * SectorSize \in Nat
  <2> HIDE DEF want
  <2> QED BY <1>4, Quotient, Growing, FileReadAssumption
<1>7. want = n * SectorSize /\ 0 + want <= n * SectorSize
  <2> HIDE DEF want, n
  <2> QED BY <1>1, <1>4, <1>6
<1>8. SectorsOf(fh.file.size) \in Nat
  BY <1>2, SectorsCover
<1>9. lba < Limit
  <2> DEFINE k == fh.pos \div SectorSize
  <2>1. k \in Nat /\ k < SectorsOf(fh.file.size)
    BY <1>5
  <2> HIDE DEF k
  <2>2. fh.file.lba + k < Limit
    BY <1>2, <1>3, <1>8, <2>1, FileReadAssumption
  <2> QED BY <2>2 DEF k
<1> HIDE DEF lba, n, want, d
<1>10. DriveKnown /\ (scsiReads => Counts)
  BY DEF MediumKnown, DriveKnown
<1>11. TrueAnswer(a, lba, n)
  BY <1>5, <1>6, <1>9, <1>10, ReadLoIs
<1> HIDE DEF a
<1>12. a.data = Run(disc, lba, n) /\ 0 \in Nat
  BY <1>1, <1>11 DEF TrueAnswer
<1>13. d \in Seq(Named) /\ Len(d) = want /\ d = Run(disc, lba * SectorSize + 0, want)
  <2>1. DriveKnown /\ want \in Nat /\ lba \in Nat /\ n \in Nat
    BY <1>4, <1>5, <1>6, <1>10
  <2>2. /\ Cut(a.data, 0, want) \in Seq(Named) /\ Len(Cut(a.data, 0, want)) = want
        /\ Cut(a.data, 0, want) = Run(disc, lba * SectorSize + 0, want)
    BY <1>7, <1>12, <2>1, CutAnswer
  <2> QED BY <1>1, <2>2
<1>14. lba * SectorSize + 0 = fh.file.lba * SectorSize + fh.pos
  BY <1>1, <1>5
<1>15. Right(d, "ok", fh.file, fh.pos, len)
  <2>1. Len(d) <= want
    BY <1>4, <1>13
  <2> QED BY <1>4, <1>13, <1>14, <2>1 DEF Right
<1> QED BY <1>15 DEF d

\* fh_read_cached() has all that is asked for, or nothing.
LEMMA CachedRight ==
  ASSUME MediumKnown, HandleInFile, fh # Null, DirectSize(fh.file) # 0, NEW c \in Seq(TrueSlot),
         NEW pos \in Nat, pos <= fh.file.size, NEW len \in Nat, CachedRead(c, pos, len) # <<>>
  PROVE  /\ Right(CachedRead(c, pos, len), "ok", fh.file, pos, len)
         /\ Touch(c, fh.file.lba + pos \div SectorSize) \in Seq(TrueSlot)
<1> DEFINE size == DirectSize(fh.file)
           n == Least(len, size - pos)
           lba == fh.file.lba + pos \div SectorSize
           r == pos % SectorSize
           s == c[SlotOf(c, lba)].data
           d == CachedRead(c, pos, len)
<1>1. pos < size /\ n # 0 /\ n <= SectorSize - r /\ Cached(c, lba) /\ d = Cut(<<s>>, r, n)
  BY DEF CachedRead
<1>2. fh.file \in [lba : Nat, size : Nat] /\ fh.file.lba \in Nat /\ fh.file.size \in Nat
  BY HandleIs
<1>3. size = fh.file.size
  BY <1>2, DirectSizeIs
<1>4. n \in Nat /\ n = Have(fh.file, pos, len)
  BY <1>2, <1>3, HaveIs, ZenonT(40)
<1>5. /\ r \in Nat /\ r < SectorSize /\ lba \in Nat
      /\ lba * SectorSize + r = fh.file.lba * SectorSize + pos
  BY <1>1, <1>2, <1>3, PlaceIs
<1> HIDE DEF size, n, lba, r, d
<1>6. TrueSector(lba, s) /\ Touch(c, lba) \in Seq(TrueSlot)
  BY <1>1, <1>5, CachedIs, TouchIs
<1> HIDE DEF s
<1>7. r + n <= SectorSize /\ DriveKnown
  BY <1>1, <1>4, <1>5, FileReadAssumption DEF MediumKnown
<1>8. /\ Cut(<<s>>, r, n) \in Seq(Named) /\ Len(Cut(<<s>>, r, n)) = n
      /\ ~changed => Cut(<<s>>, r, n) = Run(disc, lba * SectorSize + r, n)
  BY <1>4, <1>5, <1>6, <1>7, CutSector
<1>9. d \in Seq(Named) /\ Len(d) = n /\ (~changed => d = Run(disc, fh.file.lba * SectorSize + pos, n))
  BY <1>1, <1>5, <1>8
<1>10. Right(d, "ok", fh.file, pos, len)
  <2>1. Len(d) <= n
    BY <1>4, <1>9
  <2> QED BY <1>4, <1>9, <2>1 DEF Right
<1> QED BY <1>6, <1>10 DEF d, lba

\* The read-ahead's answer is the sectors it asked for.
LEMMA PrefetchAnswerIs ==
  ASSUME MediumKnown, AheadTrue, RequestOwned, req.state # "idle", NEW f,
         PrefetchAnswer(f).err = "ok"
  PROVE  Window(PrefetchAnswer(f).data, req.lba, req.n)
<1> DEFINE a == PrefetchAnswer(f)
<1>1. req.lba \in Nat /\ req.n \in Nat /\ req.lba < Limit
  BY FileReadAssumption DEF AheadTrue, IsRequest, RequestOwned
<1>2. DriveKnown /\ (scsiReads => Counts)
  BY DEF MediumKnown, DriveKnown
<1>3. IsAnswer(a, req.n) /\ TrueAnswer(a, req.lba, req.n)
  <2>1. CASE scsiReads
    <3>1. a = ScsiRead10(f, req.lba, req.n)
      BY <2>1 DEF PrefetchAnswer
    <3> HIDE DEF a
    <3> QED BY <1>1, <1>2, <2>1, <3>1, ScsiReadIs
  <2>2. CASE ~scsiReads
    <3>1. a = CmdRead(f, req.lba, req.n)
      BY <2>2 DEF PrefetchAnswer
    <3> HIDE DEF a
    <3> QED BY <1>1, <1>2, <3>1, CmdReadIs
  <2> QED BY <2>1, <2>2
<1> QED BY <1>3 DEF IsAnswer, TrueAnswer, Window

\* A sector of the window.
LEMMA WindowSector ==
  ASSUME DriveKnown, NEW b, NEW lba \in Nat, NEW n \in Nat, Window(b, lba, n), NEW k \in 1..n
  PROVE  TrueSector(lba + k - 1, b[k])
<1>1. b \in Seq(Named) /\ Len(b) = n
  BY DEF Window
<1>2. b[k] \in Named
  BY <1>1, LenProperties
<1>3. ASSUME ~changed PROVE b[k] = [disc |-> disc, at |-> lba + k - 1]
  <2>1. b = Run(disc, lba, n)
    BY <1>3 DEF Window
  <2> QED BY <2>1 DEF Run
<1> QED BY <1>2, <1>3 DEF TrueSector

\* On AROS a small window goes into the block cache.
RetainStep(c, k, p) == Retained(c, p, k)
RetainGood(c, i, p) == c \in Seq(TrueSlot)
Retaining == INSTANCE FoldInduction WITH Step <- RetainStep, Good <- RetainGood

\* A sector kept is the right one.
LEMMA RetainedIs ==
  ASSUME DriveKnown, AheadTrue, NEW data, Window(data, pf.lba, pf.count),
         NEW c \in Seq(TrueSlot), NEW k \in 1..pf.count
  PROVE  Retained(c, data, k) \in Seq(TrueSlot)
<1> DEFINE lba == pf.lba + pf.count - k
           i == pf.count - k + 1
<1>1. pf.lba \in Nat /\ pf.count \in Nat
  BY DEF AheadTrue, IsWindow
<1>2. lba \in Nat /\ i \in 1..pf.count /\ pf.lba + i - 1 = lba
  BY <1>1
<1> HIDE DEF lba, i
<1>3. TrueSector(pf.lba + i - 1, data[i])
  BY <1>1, <1>2, WindowSector
<1>4. [lba |-> lba, data |-> data[i]] \in TrueSlot
  BY <1>2, <1>3, SlotIs
<1>5. Install(c, lba, data[i]) \in Seq(TrueSlot)
  BY <1>4, InstallIs
<1>6. Retained(c, data, k) = IF Cached(c, lba) THEN c ELSE Install(c, lba, data[i])
  BY DEF Retained, lba, i
<1> QED BY <1>5, <1>6

\* So are all of them.
LEMMA RetainingIs ==
  ASSUME DriveKnown, AheadTrue, CacheTrue, NEW data, Window(data, pf.lba, pf.count)
  PROVE  Retaining!Fold(cache, [k \in 1..pf.count |-> k], data) \in Seq(TrueSlot)
<1> DEFINE N == pf.count
           ks == [k \in 1..N |-> k]
<1>1. N \in Nat /\ DOMAIN ks = 1..N /\ \A i \in 1..N : ks[i] = i
  BY DEF AheadTrue, IsWindow
<1>2. RetainGood(cache, 0, data)
  BY DEF RetainGood, CacheTrue
<1> HIDE DEF ks
<1>3. \A c : \A i \in 1..N : RetainGood(c, i - 1, data) => RetainGood(RetainStep(c, ks[i], data), i, data)
  BY <1>1, RetainedIs DEF RetainGood, RetainStep
<1> HIDE DEF N
<1>4. RetainGood(Retaining!Fold(cache, ks, data), N, data)
  BY <1>1, <1>2, <1>3, Retaining!FoldGood
<1> QED BY <1>4 DEF RetainGood, ks, N

\* prefetch_wait() leaves a window that holds what it says, or none.
LEMMA WaitedIs ==
  ASSUME MediumKnown, AheadTrue, CacheTrue, RequestOwned, NEW f, NEW w, w = Waited(f)
  PROVE  /\ IsWindow(w.pf) /\ w.cache \in Seq(TrueSlot)
         /\ w.pf.state # "busy" /\ (w.pf.state = pf.state \/ pf.state = "busy")
         /\ w.pf.state = "valid" => w.pf.lba = pf.lba /\ w.pf.count = pf.count
<1> DEFINE a == CASE req.state = "sent" -> PrefetchAnswer(f)
                  [] req.state = "done" -> [err |-> "ok", data |-> req.data]
                  [] OTHER -> Error("io")
<1>1. w = IF pf.state # "busy" THEN [pf |-> pf, cache |-> cache]
          ELSE IF a.err # "ok" THEN [pf |-> NoPrefetch, cache |-> cache]
          ELSE [pf |-> [pf EXCEPT !.state = "valid", !.buf = a.data],
                cache |-> IF aros /\ pf.count <= 2
                          THEN Retaining!Fold(cache, [k \in 1..pf.count |-> k], a.data) ELSE cache]
  BY DEF Waited, FoldLeft, MapThenFoldSet, Retaining!Fold, Max, Retaining!Max, RetainStep
<1>2. DriveKnown /\ IsWindow(pf) /\ IsRequest(req) /\ cache \in Seq(TrueSlot)
  BY DEF MediumKnown, AheadTrue, CacheTrue
<1>3. CASE pf.state # "busy"
  <2>1. w.pf = pf /\ w.cache = cache
    BY <1>1, <1>3
  <2> QED BY <1>2, <1>3, <2>1
<1>4. CASE pf.state = "busy" /\ a.err # "ok"
  <2>1. w.pf = NoPrefetch /\ w.cache = cache
    <3> HIDE DEF a
    <3> QED BY <1>1, <1>4
  <2>2. IsWindow(NoPrefetch) /\ NoPrefetch.state = "none"
    BY DEF IsWindow, NoPrefetch
  <2> QED BY <1>2, <1>4, <2>1, <2>2
<1>5. CASE pf.state = "busy" /\ a.err = "ok"
  <2>1. /\ req.state # "idle" /\ req.lba = pf.lba /\ req.n = pf.count
    BY <1>5 DEF RequestOwned
  <2>2. Window(a.data, pf.lba, pf.count)
    <3>1. CASE req.state = "sent"
      <4>1. a = PrefetchAnswer(f)
        BY <3>1
      <4> HIDE DEF a
      <4> QED BY <1>5, <2>1, <4>1, PrefetchAnswerIs
    <3>2. CASE req.state = "done"
      <4>1. a = [err |-> "ok", data |-> req.data]
        BY <3>2
      <4> HIDE DEF a
      <4>2. a.data = req.data
        BY <4>1
      <4> QED BY <1>2, <2>1, <3>2, <4>2 DEF IsRequest
    <3>3. CASE req.state = "failed"
      <4>1. a = Error("io")
        BY <3>3
      <4> HIDE DEF a
      <4> QED BY <1>5, <4>1 DEF Error
    <3> QED BY <1>2, <2>1, <3>1, <3>2, <3>3 DEF IsRequest
  <2> HIDE DEF a
  <2>3. Retaining!Fold(cache, [k \in 1..pf.count |-> k], a.data) \in Seq(TrueSlot)
    BY <1>2, <2>2, RetainingIs
  <2> DEFINE x == [pf EXCEPT !.state = "valid", !.buf = a.data]
  <2>4. /\ w.pf = x
        /\ w.cache = IF aros /\ pf.count <= 2
                     THEN Retaining!Fold(cache, [k \in 1..pf.count |-> k], a.data) ELSE cache
    BY <1>1, <1>5
  <2>5. x = [state |-> "valid", lba |-> pf.lba, count |-> pf.count, buf |-> a.data]
    <3>1. pf = [state |-> pf.state, lba |-> pf.lba, count |-> pf.count, buf |-> pf.buf]
      BY <1>2 DEF IsWindow
    <3>2. x = [pf EXCEPT !.state = "valid", !.buf = a.data]
      OBVIOUS
    <3> HIDE DEF x
    <3> QED BY <3>1, <3>2
  <2> HIDE DEF x
  <2>6. IsWindow(x) /\ x.state = "valid" /\ x.lba = pf.lba /\ x.count = pf.count
    BY <1>2, <2>2, <2>5 DEF IsWindow
  <2>7. w.cache \in Seq(TrueSlot)
    BY <1>2, <2>3, <2>4
  <2> QED BY <1>5, <2>4, <2>6, <2>7
<1> QED BY <1>3, <1>4, <1>5

\* prefetch_read() cuts its bytes out of the window.
LEMMA PrefetchCut ==
  ASSUME NEW w, NEW len, w.pf.state = "valid", NEW from,
         from = (fh.file.lba + fh.pos \div SectorSize - pf.lba) * SectorSize + (fh.pos % SectorSize)
  PROVE  PrefetchRead(w, len) =
           Cut(w.pf.buf, from, Least(Least(w.pf.count * SectorSize - from,
                                           DirectSize(fh.file) - fh.pos), len))
BY DEF PrefetchRead

\* prefetch_read() has the beginning of what is asked for.
LEMMA PrefetchRight ==
  ASSUME MediumKnown, HandleInFile, fh # Null, DirectSize(fh.file) # 0, AheadTrue, AsksPrefetch,
         NEW w, IsWindow(w.pf), w.pf.state = "valid" => w.pf.lba = pf.lba /\ w.pf.count = pf.count,
         NEW len \in Nat
  PROVE  Right(PrefetchRead(w, len), "part", fh.file, fh.pos, len)
<1> DEFINE S == SectorSize
           file == fh.file
           pos == fh.pos
           size == DirectSize(file)
           lba == file.lba + pos \div S
           r == pos % S
           off == lba - pf.lba
           from == off * S + r
           h == Have(file, pos, len)
           n == Least(Least(pf.count * S - from, size - pos), len)
           d == PrefetchRead(w, len)
           a == file.lba * S + pos
<1>1. /\ file \in [lba : Nat, size : Nat] /\ file.lba \in Nat /\ file.size \in Nat
      /\ pos \in Nat /\ pos <= file.size /\ S \in Nat \ {0}
  BY HandleIs, FileReadAssumption
<1>2. size = file.size /\ pos < file.size
  BY <1>1, DirectSizeIs DEF AsksPrefetch
<1>3. lba \in Nat /\ r \in Nat /\ r < S /\ lba * S + r = a
  BY <1>1, <1>2, PlaceIs
<1>4. h \in Nat /\ h = Least(len, file.size - pos)
  BY <1>1, HaveIs
<1>5. pf.lba \in Nat /\ pf.count \in Nat /\ pf.lba <= lba /\ lba < pf.lba + pf.count
  BY DEF AheadTrue, IsWindow, AsksPrefetch
<1>6. CASE w.pf.state # "valid"
  <2>1. d = <<>>
    BY <1>6 DEF PrefetchRead
  <2>2. Run(disc, a, 0) = <<>> /\ Len(<<>>) = 0 /\ <<>> \in Seq(Named)
    BY DEF Run
  <2>3. 0 <= h
    BY <1>4
  <2> HIDE DEF d, h, a
  <2>4. Right(d, "part", file, pos, len)
    BY <2>1, <2>2, <2>3 DEF Right, h, a
  <2> QED BY <2>4 DEF d
<1>7. CASE w.pf.state = "valid"
  <2> DEFINE b == w.pf.buf
  <2>1. w.pf.count = pf.count /\ Window(b, pf.lba, pf.count) /\ DriveKnown
    BY <1>7 DEF IsWindow, MediumKnown
  <2>2. d = Cut(b, from, n)
    <3>1. from = (fh.file.lba + fh.pos \div SectorSize - pf.lba) * SectorSize + (fh.pos % SectorSize)
      <4> DEFINE q == fh.pos \div SectorSize
      <4>1. q \in Nat
        BY <1>1, Quotient
      <4>2. off = (fh.file.lba + q) - pf.lba
        OBVIOUS
      <4> HIDE DEF q, off
      <4>3. off = fh.file.lba + q - pf.lba
        BY <1>1, <1>5, <4>1, <4>2
      <4>4. from = off * SectorSize + (fh.pos % SectorSize)
        OBVIOUS
      <4> HIDE DEF from
      <4> QED BY <4>3, <4>4 DEF q
    <3> HIDE DEF from
    <3>2. d = Cut(b, from, Least(Least(w.pf.count * S - from, size - pos), len))
      BY <1>7, <3>1, PrefetchCut
    <3> HIDE DEF d, b, size
    <3> QED BY <2>1, <3>2
  <2> HIDE DEF d, b, S, lba, r, size, h, a
  <2>3. off \in Nat /\ pf.lba + off = lba /\ off + 1 <= pf.count
    BY <1>3, <1>5
  <2> HIDE DEF off
  <2>4. off * S \in Nat /\ (off + 1) * S = off * S + 1 * S /\ 1 * S = S /\ off + 1 \in Nat
    BY <1>1, <2>3, Growing
  <2>5. (off + 1) * S <= pf.count * S /\ pf.count * S \in Nat
    BY <1>1, <1>5, <2>3, <2>4, Growing
  <2>6. from \in Nat /\ from < pf.count * S
    BY <1>1, <1>3, <2>4, <2>5
  <2>7. pf.lba * S + from = a /\ pf.lba * S \in Nat
    <3>1. (pf.lba + off) * S = pf.lba * S + off * S /\ pf.lba * S \in Nat
      BY <1>1, <1>5, <2>3, Growing
    <3> QED BY <1>3, <2>3, <2>4, <3>1
  <2> HIDE DEF from
  <2>8. n \in Nat /\ from + n <= pf.count * S /\ n <= h
    <3>1. size - pos \in Nat /\ size - pos = file.size - pos /\ pf.count * S - from \in Nat
      BY <1>1, <1>2, <2>5, <2>6
    <3> DEFINE u == pf.count * S - from
               v == file.size - pos
    <3>2. n = Least(Least(u, v), len) /\ h = Least(len, v) /\ u \in Nat /\ v \in Nat
      BY <1>4, <3>1
    <3>3. u = pf.count * S - from
      OBVIOUS
    <3> HIDE DEF u, v, n
    <3>4. n \in Nat /\ n <= u /\ n <= h
      BY <3>2 DEF Least
    <3> QED BY <2>5, <2>6, <3>2, <3>3, <3>4
  <2> HIDE DEF n
  <2>9. b \in Seq(Named) /\ Len(b) = pf.count /\ from + n <= Len(b) * S
    BY <2>1, <2>8 DEF Window
  <2>10. Cut(b, from, n) \in Seq(Named) /\ Len(Cut(b, from, n)) = n
    BY <2>6, <2>8, <2>9, CutType DEF S
  <2>11. ASSUME ~changed PROVE Cut(b, from, n) = Run(disc, a, n)
    <3>1. b = Run(disc, pf.lba, pf.count)
      BY <2>1, <2>11 DEF Window
    <3>2. \A e \in Discs : \A l, m \in Nat : from + n <= m * S => Cut(Run(e, l, m), from, n) = Run(e, l * S + from, n)
      BY <2>6, <2>8, CutRun DEF S
    <3>3. \A l, m \in Nat : from + n <= m * S => Cut(Run(disc, l, m), from, n) = Run(disc, l * S + from, n)
      BY <2>1, <3>2, Zenon DEF DriveKnown
    <3>4. Cut(Run(disc, pf.lba, pf.count), from, n) = Run(disc, pf.lba * S + from, n)
      BY <1>5, <2>8, <3>3, Zenon
    <3> QED BY <2>7, <3>1, <3>4
  <2>12. Right(d, "part", file, pos, len)
    BY <2>2, <2>8, <2>10, <2>11 DEF Right, h, a, S
  <2> QED BY <2>12 DEF d
<1> QED BY <1>6, <1>7

\* A part that is as long as asked for, or reaches the end of the file, is all.
LEMMA WholeRight ==
  ASSUME NEW file \in [lba : Nat, size : Nat], NEW pos \in Nat, pos <= file.size, NEW len \in Nat,
         NEW out, Right(out, "part", file, pos, len), Len(out) = len \/ pos + Len(out) >= file.size
  PROVE  Right(out, "ok", file, pos, len)
<1> DEFINE h == Have(file, pos, len)
           n == Len(out)
<1>1. h \in Nat /\ h = Least(len, file.size - pos) /\ pos + h <= file.size /\ file.size \in Nat
  BY HaveIs
<1>2. n \in Nat /\ n <= h
  BY LenProperties DEF Right
<1>3. n = len \/ pos + n >= file.size
  OBVIOUS
<1> HIDE DEF h, n
<1>4. n = h
  BY <1>1, <1>2, <1>3 DEF Least
<1> QED BY <1>4 DEF Right, h, n

-----------------------------------------------------------------------------
(* The end of a read.                                                      *)

\* What is right is judged so.
LEMMA JudgeIs ==
  ASSUME MediumKnown, NEW file \in [lba : Nat, size : Nat], NEW pos \in Nat, pos <= file.size,
         NEW len \in Nat, NEW out, NEW err, Right(out, err, file, pos, len),
         Judge(file, pos, len, out, err, Len(out)), ReadExact
  PROVE  ReadExact'
<1> DEFINE a == file.lba * SectorSize + pos
           h == Have(file, pos, len)
           n == Len(out)
           want == FileBytes(file, pos, len)
<1>1. /\ out \in Seq(Named) /\ n \in Nat /\ n <= h /\ (err = "ok" => n = h)
      /\ ~changed => out = Run(disc, a, n)
  BY LenProperties DEF Right
<1>2. h \in Nat /\ a \in Nat
  <2>1. file.lba \in Nat /\ h \in Nat
    BY HaveIs
  <2>2. file.lba * SectorSize \in Nat
    BY <2>1, FileReadAssumption, Growing
  <2> QED BY <2>1, <2>2
<1>3. want = Run(mount.disc, a, h)
  BY DEF FileBytes, Run, Have
<1>4. ASSUME ~changed
      PROVE  IsPrefix(out, want) /\ (err = "ok" => out = want)
  <2> HIDE DEF a, h, n, want
  <2>1. mount.disc = disc /\ disc \in Discs /\ n \in 0..h
    BY <1>1, <1>2, <1>4 DEF MediumKnown, DriveKnown, ModeKnown, Counts, Has64
  <2>2. \A e \in Discs : IsPrefix(Run(e, a, n), Run(e, a, h))
    BY <1>2, <2>1, RunPrefix
  <2>3. IsPrefix(Run(disc, a, n), Run(disc, a, h))
    BY <2>1, <2>2, Zenon
  <2>4. want = Run(disc, a, h) /\ out = Run(disc, a, n)
    BY <1>1, <1>3, <1>4, <2>1
  <2> QED BY <1>1, <2>3, <2>4
<1> QED BY <1>4 DEF Judge, ReadExact

\* The end of a read keeps the handle inside its file.
LEMMA DeliverIs ==
  ASSUME MediumKnown, HandleInFile, ReadExact, fh # Null, NEW len \in Nat, NEW out, NEW err,
         Right(out, err, fh.file, fh.pos, len), Deliver(len, out, err), ModeKnown(read64Mode')
  PROVE  MediumKnown' /\ HandleInFile' /\ ReadExact' /\ UNCHANGED medium /\ UNCHANGED mount
<1> DEFINE n == Len(out)
<1>1. /\ fh.file \in [lba : Nat, size : Nat] /\ fh.pos \in Nat /\ fh.pos <= fh.file.size
      /\ fh.file.size \in Nat
  BY HandleIs
<1>2. /\ fh' = [fh EXCEPT !.pos = @ + n, !.last = len] /\ UNCHANGED <<medium, mount, scsiReads>>
      /\ Judge(fh.file, fh.pos, len, out, err, fh'.pos - fh.pos)
  BY DEF Deliver
<1>3. n \in Nat /\ fh.pos + n <= fh.file.size
  <2>1. n \in Nat /\ n <= Have(fh.file, fh.pos, len)
    BY LenProperties DEF Right
  <2>2. Have(fh.file, fh.pos, len) \in Nat /\ fh.pos + Have(fh.file, fh.pos, len) <= fh.file.size
    BY <1>1, HaveIs
  <2> HIDE DEF n
  <2> QED BY <1>1, <2>1, <2>2
<1> HIDE DEF n
<1>4. fh \in [file : Files, pos : Nat, last : Nat, mount : Nat]
  BY DEF HandleInFile
<1>5. /\ fh' \in [file : Files, pos : Nat, last : Nat, mount : Nat]
      /\ fh'.pos = fh.pos + n /\ fh'.file = fh.file
  <2>1. fh.pos + n \in Nat
    BY <1>1, <1>3
  <2>2. fh' = [fh EXCEPT !.pos = fh.pos + n, !.last = len]
    BY <1>2
  <2>3. fh' \in [file : Files, pos : Nat, last : Nat, mount : Nat]
    BY <1>4, <2>1, <2>2
  <2>4. fh'.pos = fh.pos + n /\ fh'.file = fh.file
    BY <1>4, <2>2
  <2> QED BY <2>3, <2>4
<1>6. fh'.pos - fh.pos = n
  BY <1>1, <1>3, <1>5
<1>7. Judge(fh.file, fh.pos, len, out, err, Len(out))
  BY <1>2, <1>6 DEF n
<1>8. ReadExact'
  BY <1>1, <1>7, JudgeIs
<1>9. MediumKnown'
  BY <1>2 DEF MediumKnown, DriveKnown, ModeKnown, Counts, Has64, medium
<1>10. HandleInFile'
  BY <1>3, <1>5 DEF HandleInFile
<1>11. UNCHANGED medium /\ UNCHANGED mount
  BY <1>2
<1> QED BY <1>8, <1>9, <1>10, <1>11

\* The method for sectors beyond the limit stays known as long as it is kept.
LEMMA StillKnown ==
  ASSUME MediumKnown, UNCHANGED read64Mode
  PROVE  ModeKnown(read64Mode')
BY DEF MediumKnown, DriveKnown

\* What is true of the disc stays true while it is in the drive.
LEMMA StillTrue ==
  ASSUME UNCHANGED medium
  PROVE  TrueSlot' = TrueSlot
BY DEF TrueSlot, Slot, Named, medium

\* So does the read-ahead that a packet leaves alone.
LEMMA StillAhead ==
  ASSUME UNCHANGED medium, AheadTrue, UNCHANGED <<pf, req>>
  PROVE  AheadTrue'
BY DEF AheadTrue, IsWindow, IsRequest, Window, Run, Named, medium

\* And its request stays where it is.
LEMMA StillOwned ==
  ASSUME RequestOwned, UNCHANGED <<pf, req, mount>>
  PROVE  RequestOwned'
BY DEF RequestOwned, Serving

\* A read that ends on the general path.
LEMMA RestIs ==
  ASSUME MediumKnown, HandleInFile, ReadExact, fh # Null, NEW len \in Nat, NEW f, NEW direct,
         NEW c \in Seq(TrueSlot), NEW pre, Right(pre, "part", fh.file, fh.pos, len),
         NEW g, g = ReadFile(f, c, fh.file, fh.pos + Len(pre), len - Len(pre), direct),
         DeliverRest(len, pre, g)
  PROVE  /\ MediumKnown' /\ HandleInFile' /\ ReadExact' /\ UNCHANGED medium /\ UNCHANGED mount
         /\ CacheTrue'
<1> DEFINE pos == fh.pos + Len(pre)
           rest == len - Len(pre)
<1>1. /\ fh.file \in [lba : Nat, size : Nat] /\ fh.pos \in Nat /\ fh.pos <= fh.file.size
      /\ fh.file.size \in Nat /\ DriveKnown
  BY HandleIs DEF MediumKnown
<1>2. pos \in Nat /\ pos <= fh.file.size /\ rest \in Nat
  <2> DEFINE h == Have(fh.file, fh.pos, len)
             n == Len(pre)
  <2>1. h \in Nat /\ h = Least(len, fh.file.size - fh.pos) /\ fh.pos + h <= fh.file.size
    BY <1>1, HaveIs
  <2>2. n \in Nat /\ n <= h
    BY LenProperties DEF Right
  <2>3. pos = fh.pos + n /\ rest = len - n
    OBVIOUS
  <2> HIDE DEF h, n, pos, rest
  <2>4. h <= len
    BY <1>1, <2>1 DEF Least
  <2>5. pos \in Nat /\ pos <= fh.file.size
    BY <1>1, <2>1, <2>2, <2>3, SMTT(40)
  <2> QED BY <2>1, <2>2, <2>3, <2>4, <2>5
<1>3. Right(g.out, g.err, fh.file, pos, rest) /\ g.cache \in Seq(TrueSlot) /\ ModeKnown(g.mode)
  <2> HIDE DEF pos, rest
  <2>1. g = ReadFile(f, c, fh.file, pos, rest, direct)
    BY DEF pos, rest
  <2> QED BY <1>1, <1>2, <2>1, GeneralRight
<1>4. Right(pre \o g.out, g.err, fh.file, fh.pos, len)
  BY <1>1, <1>3, RightJoin
<1>5. Deliver(len, pre \o g.out, g.err) /\ cache' = g.cache /\ read64Mode' = g.mode
  BY DEF DeliverRest
<1>6. MediumKnown' /\ HandleInFile' /\ ReadExact' /\ UNCHANGED medium /\ UNCHANGED mount
  BY <1>3, <1>4, <1>5, DeliverIs
<1>7. CacheTrue'
  BY <1>3, <1>5, <1>6, StillTrue DEF CacheTrue
<1> QED BY <1>6, <1>7

\* Nothing is part of everything.
LEMMA NothingRight ==
  ASSUME HandleInFile, fh # Null, NEW len \in Nat
  PROVE  Right(<<>>, "part", fh.file, fh.pos, len)
<1>1. Have(fh.file, fh.pos, len) \in Nat
  BY HandleIs, HaveIs
<1>2. <<>> \in Seq(Named) /\ Len(<<>>) = 0 /\ 0 <= Have(fh.file, fh.pos, len)
  BY <1>1
<1>3. Run(disc, fh.file.lba * SectorSize + fh.pos, 0) = <<>>
  BY DEF Run
<1> QED BY <1>2, <1>3 DEF Right

\* The general path alone.
LEMMA WholeRest ==
  ASSUME MediumKnown, HandleInFile, ReadExact, CacheTrue, fh # Null, NEW len \in Nat, NEW f, NEW direct,
         NEW g, g = ReadFile(f, cache, fh.file, fh.pos, len, direct), DeliverRest(len, <<>>, g)
  PROVE  /\ MediumKnown' /\ HandleInFile' /\ ReadExact' /\ UNCHANGED medium /\ UNCHANGED mount
         /\ CacheTrue'
<1> DEFINE pre == <<>>
<1>1. Right(pre, "part", fh.file, fh.pos, len)
  BY NothingRight
<1>2. Len(pre) = 0 /\ fh.pos + 0 = fh.pos /\ len - 0 = len
  BY HandleIs
<1>3. DeliverRest(len, pre, g) /\ cache \in Seq(TrueSlot)
  BY DEF CacheTrue
<1> HIDE DEF pre
<1>4. g = ReadFile(f, cache, fh.file, fh.pos + Len(pre), len - Len(pre), direct)
  BY <1>2
<1> QED BY <1>1, <1>3, <1>4, RestIs

-----------------------------------------------------------------------------
(* The steps.                                                              *)

\* A handler that has just mounted.
LEMMA InitInv ==
  ASSUME SectorsOrRead64, Init
  PROVE  Inv
<1>1. disc \in Discs /\ drive \in Drives /\ \E f \in Faults : scsiReads = ProbeScsiReads(f)
  BY DEF Init
<1>2. MediumKnown
  <2>1. scsiReads => Counts
    BY <1>1, ProbeIs
  <2>2. drive.block \in Nat \ {0} /\ SectorSize \in Nat \ {0}
    BY <1>1, MediaAssumption, FileReadAssumption
  <2>3. ASSUME drive.block <= SectorSize PROVE drive.block \div SectorSize <= 1
    BY <2>2, <2>3
  <2>4. Counts \/ Has64
    BY <1>1, <2>3, Zenon DEF SectorsOrRead64, Counts, Has64
  <2>5. ModeKnown(read64Mode)
    BY DEF Init, ModeKnown
  <2> QED BY <1>1, <2>1, <2>4, <2>5 DEF Init, MediumKnown, DriveKnown, ModeKnown, Counts, Has64
<1>3. HandleInFile /\ ReadExact /\ CacheTrue
  BY DEF Init, HandleInFile, ReadExact, CacheTrue
<1>4. AheadTrue /\ RequestOwned
  BY DEF Init, AheadTrue, IsWindow, IsRequest, NoPrefetch, NoRequest, RequestOwned
<1> QED BY <1>2, <1>3, <1>4 DEF Inv

\* action_read() of two sectors or more: one request, or the general path.
LEMMA LargeInv ==
  ASSUME Inv, NEW f, NEW len \in Nat, NEW direct, ReadLarge(f, len, direct)
  PROVE  Inv'
<1>1. fh # Null /\ UNCHANGED <<pf, req>>
  BY DEF ReadLarge, Active
<1>2. MediumKnown /\ HandleInFile /\ AheadTrue /\ CacheTrue /\ RequestOwned /\ ReadExact
  BY DEF Inv
<1>3. /\ MediumKnown' /\ HandleInFile' /\ ReadExact' /\ UNCHANGED medium /\ UNCHANGED mount
      /\ CacheTrue'
  <2> DEFINE d == DirectRead(f, len, direct)
  <2>1. CASE d # <<>>
    <3>1. Right(d, "ok", fh.file, fh.pos, len)
      BY <1>1, <1>2, <2>1, DirectRight
    <3>2. Deliver(len, d, "ok") /\ UNCHANGED cache /\ UNCHANGED read64Mode
      BY <2>1 DEF ReadLarge
    <3> HIDE DEF d
    <3>3. MediumKnown' /\ HandleInFile' /\ ReadExact' /\ UNCHANGED medium /\ UNCHANGED mount
      BY <1>1, <1>2, <3>1, <3>2, StillKnown, DeliverIs
    <3>4. CacheTrue'
      BY <1>2, <3>2, <3>3, StillTrue DEF CacheTrue
    <3> QED BY <3>3, <3>4
  <2>2. CASE d = <<>>
    <3>1. \E g : g = ReadFile(f, cache, fh.file, fh.pos, len, direct) /\ DeliverRest(len, <<>>, g)
      BY <2>2 DEF ReadLarge
    <3> QED BY <1>1, <1>2, <3>1, WholeRest
  <2> QED BY <2>1, <2>2
<1>4. AheadTrue' /\ RequestOwned'
  BY <1>1, <1>2, <1>3, StillAhead, StillOwned
<1> QED BY <1>3, <1>4 DEF Inv

\* action_read() of a file the quick paths do not serve.
LEMMA BeyondInv ==
  ASSUME Inv, NEW f, NEW len \in Nat, NEW direct, ReadBeyond(f, len, direct)
  PROVE  Inv'
<1>1. fh # Null /\ UNCHANGED <<pf, req>>
  BY DEF ReadBeyond, Active
<1>2. MediumKnown /\ HandleInFile /\ AheadTrue /\ CacheTrue /\ RequestOwned /\ ReadExact
  BY DEF Inv
<1>3. \E g : g = ReadFile(f, cache, fh.file, fh.pos, len, direct) /\ DeliverRest(len, <<>>, g)
  BY DEF ReadBeyond
<1>4. /\ MediumKnown' /\ HandleInFile' /\ ReadExact' /\ UNCHANGED medium /\ UNCHANGED mount
      /\ CacheTrue'
  BY <1>1, <1>2, <1>3, WholeRest
<1>5. AheadTrue' /\ RequestOwned'
  BY <1>1, <1>2, <1>4, StillAhead, StillOwned
<1> QED BY <1>4, <1>5 DEF Inv

\* What follows the bytes of the read-ahead: a cached sector or the general path.
LEMMA PastPrefetchIs ==
  ASSUME MediumKnown, HandleInFile, ReadExact, fh # Null, DirectSize(fh.file) # 0,
         NEW len \in Nat, NEW f, NEW c \in Seq(TrueSlot),
         NEW pre, Right(pre, "part", fh.file, fh.pos, len), ReadPastPrefetch(f, len, c, pre)
  PROVE  /\ MediumKnown' /\ HandleInFile' /\ ReadExact' /\ UNCHANGED medium /\ UNCHANGED mount
         /\ CacheTrue'
<1> DEFINE pos == fh.pos + Len(pre)
           rest == len - Len(pre)
           hit == CachedRead(c, pos, rest)
<1>1. /\ fh.file \in [lba : Nat, size : Nat] /\ fh.pos \in Nat /\ fh.pos <= fh.file.size
      /\ fh.file.size \in Nat /\ DriveKnown
  BY HandleIs DEF MediumKnown
<1>2. pos \in Nat /\ pos <= fh.file.size /\ rest \in Nat
  <2> DEFINE h == Have(fh.file, fh.pos, len)
             n == Len(pre)
  <2>1. h \in Nat /\ h = Least(len, fh.file.size - fh.pos) /\ fh.pos + h <= fh.file.size
    BY <1>1, HaveIs
  <2>2. n \in Nat /\ n <= h
    BY LenProperties DEF Right
  <2>3. pos = fh.pos + n /\ rest = len - n
    OBVIOUS
  <2> HIDE DEF h, n, pos, rest
  <2>4. h <= len
    BY <1>1, <2>1 DEF Least
  <2>5. pos \in Nat /\ pos <= fh.file.size
    BY <1>1, <2>1, <2>2, <2>3, SMTT(40)
  <2> QED BY <2>1, <2>2, <2>3, <2>4, <2>5
<1>3. CASE hit # <<>>
  <2>1. /\ Deliver(len, pre \o hit, "ok")
        /\ cache' = Touch(c, fh.file.lba + pos \div SectorSize) /\ UNCHANGED read64Mode
    BY <1>3 DEF ReadPastPrefetch
  <2>2. Right(hit, "ok", fh.file, pos, rest) /\ Touch(c, fh.file.lba + pos \div SectorSize) \in Seq(TrueSlot)
    <3> HIDE DEF pos, rest
    <3> QED BY <1>2, <1>3, CachedRight
  <2>3. Right(pre \o hit, "ok", fh.file, fh.pos, len)
    <3> HIDE DEF hit
    <3> QED BY <1>1, <2>2, RightJoin
  <2> HIDE DEF hit
  <2>4. MediumKnown' /\ HandleInFile' /\ ReadExact' /\ UNCHANGED medium /\ UNCHANGED mount
    BY <2>1, <2>3, StillKnown, DeliverIs
  <2>5. CacheTrue'
    BY <2>1, <2>2, <2>4, StillTrue DEF CacheTrue
  <2> QED BY <2>4, <2>5
<1>4. CASE hit = <<>>
  <2>1. \E g : /\ g = ReadFile(f, c, fh.file, fh.pos + Len(pre), len - Len(pre), FALSE)
               /\ DeliverRest(len, pre, g)
    BY <1>4 DEF ReadPastPrefetch
  <2> QED BY <2>1, RestIs
<1> QED BY <1>3, <1>4

\* action_read() of less: the read-ahead, which may still be in flight, comes first.
LEMMA SmallInv ==
  ASSUME Inv, NEW f, NEW len \in Nat, ReadSmall(f, len)
  PROVE  Inv'
<1>1. fh # Null /\ DirectSize(fh.file) # 0
  BY DEF ReadSmall, Active
<1>2. MediumKnown /\ HandleInFile /\ AheadTrue /\ CacheTrue /\ RequestOwned /\ ReadExact
  BY DEF Inv
<1> DEFINE asks == AsksPrefetch /\ len > 0
<1>3. PICK w, pre :
        /\ w = IF asks THEN Waited(f) ELSE [pf |-> pf, cache |-> cache]
        /\ pre = IF asks THEN PrefetchRead(w, len) ELSE <<>>
        /\ pf' = w.pf /\ req' = IF w.pf.state = pf.state THEN req ELSE NoRequest
        /\ IF pre # <<>> /\ (Len(pre) = len \/ fh.pos + Len(pre) >= DirectSize(fh.file))
           THEN Deliver(len, pre, "ok") /\ cache' = w.cache /\ UNCHANGED read64Mode
           ELSE ReadPastPrefetch(f, len, w.cache, pre)
  BY DEF ReadSmall
<1>4. IsWindow(w.pf) /\ w.cache \in Seq(TrueSlot)
  <2>1. CASE asks
    BY <1>2, <1>3, <2>1, WaitedIs
  <2>2. CASE ~asks
    BY <1>2, <1>3, <2>2 DEF AheadTrue, CacheTrue
  <2> QED BY <2>1, <2>2
<1>5. Right(pre, "part", fh.file, fh.pos, len)
  <2>1. CASE asks
    <3>1. w.pf.state = "valid" => w.pf.lba = pf.lba /\ w.pf.count = pf.count
      BY <1>2, <1>3, <2>1, WaitedIs
    <3> QED BY <1>1, <1>2, <1>3, <1>4, <2>1, <3>1, PrefetchRight
  <2>2. CASE ~asks
    BY <1>1, <1>2, <1>3, <2>2, NothingRight
  <2> QED BY <2>1, <2>2
<1>6. /\ MediumKnown' /\ HandleInFile' /\ ReadExact' /\ UNCHANGED medium /\ UNCHANGED mount
      /\ CacheTrue'
  <2> DEFINE all == pre # <<>> /\ (Len(pre) = len \/ fh.pos + Len(pre) >= DirectSize(fh.file))
  <2>1. CASE all
    <3>1. Deliver(len, pre, "ok") /\ cache' = w.cache /\ UNCHANGED read64Mode
      BY <1>3, <2>1
    <3>2. /\ fh.file \in [lba : Nat, size : Nat] /\ fh.pos \in Nat /\ fh.pos <= fh.file.size
          /\ DirectSize(fh.file) = fh.file.size
      BY <1>1, <1>2, HandleIs, DirectSizeIs
    <3>3. Right(pre, "ok", fh.file, fh.pos, len)
      BY <1>5, <2>1, <3>2, WholeRight
    <3>4. MediumKnown' /\ HandleInFile' /\ ReadExact' /\ UNCHANGED medium /\ UNCHANGED mount
      BY <1>1, <1>2, <3>1, <3>3, StillKnown, DeliverIs
    <3>5. CacheTrue'
      BY <1>4, <3>1, <3>4, StillTrue DEF CacheTrue
    <3> QED BY <3>4, <3>5
  <2>2. CASE ~all
    <3>1. ReadPastPrefetch(f, len, w.cache, pre)
      BY <1>3, <2>2
    <3> QED BY <1>1, <1>2, <1>4, <1>5, <3>1, PastPrefetchIs
  <2> QED BY <2>1, <2>2
<1>7. AheadTrue' /\ RequestOwned'
  <2>1. CASE asks
    <3>1. w.pf.state # "busy" /\ (w.pf.state = pf.state \/ pf.state = "busy")
      BY <1>2, <1>3, <2>1, WaitedIs
    <3>2. req' = req \/ req' = NoRequest
      BY <1>3
    <3>3. (req'.state = "idle")
      <4>1. CASE w.pf.state = pf.state
        BY <1>2, <1>3, <3>1, <4>1 DEF RequestOwned
      <4>2. CASE w.pf.state # pf.state
        BY <1>3, <4>2 DEF NoRequest
      <4> QED BY <4>1, <4>2
    <3>4. RequestOwned'
      BY <1>3, <3>1, <3>3 DEF RequestOwned
    <3>5. IsWindow(pf)'
      BY <1>3, <1>4, <1>6 DEF IsWindow, Window, Run, medium, Named
    <3>6. IsRequest(req)'
      <4>1. CASE req' = req
        BY <1>2, <1>6, <4>1 DEF AheadTrue, IsRequest, Window, Run, Named, medium
      <4>2. CASE req' = NoRequest
        BY <4>2 DEF IsRequest, NoRequest
      <4> QED BY <3>2, <4>1, <4>2
    <3> QED BY <3>4, <3>5, <3>6 DEF AheadTrue
  <2>2. CASE ~asks
    <3>1. UNCHANGED <<pf, req>>
      BY <1>3, <2>2
    <3> QED BY <1>2, <1>6, <3>1, StillAhead, StillOwned
  <2> QED BY <2>1, <2>2
<1> QED BY <1>6, <1>7 DEF Inv

\* The last sector of a file, and the sector of a position before its end.
LEMMA LastSector ==
  ASSUME NEW size \in Nat \ {0}, NEW pos \in Nat, pos < size
  PROVE  /\ (size - 1) \div SectorSize \in Nat /\ pos \div SectorSize \in Nat
         /\ pos \div SectorSize <= (size - 1) \div SectorSize
         /\ SectorsOf(size) = (size - 1) \div SectorSize + 1
<1> DEFINE S == SectorSize
           q == pos \div S
           r == pos % S
           e == (size - 1) \div S
           t == (size - 1) % S
<1>1. S \in Nat \ {0} /\ size - 1 \in Nat /\ pos <= size - 1
  BY FileReadAssumption
<1>2. q \in Nat /\ r \in Nat /\ pos = q * S + r
  BY <1>1, Quotient
<1>3. e \in Nat /\ t \in 0..(S - 1) /\ t \in Nat /\ size - 1 = e * S + t
  BY <1>1, Quotient
<1>4. SectorsOf(size) = (size + S - 1) \div S
  BY DEF SectorsOf
<1> HIDE DEF S, q, r, e, t
<1>5. q * S \in Nat /\ e * S \in Nat /\ (e + 1) * S = e * S + 1 * S /\ 1 * S = S /\ e + 1 \in Nat
  BY <1>1, <1>2, <1>3, Growing
<1>6. q * S < (e + 1) * S
  BY <1>1, <1>2, <1>3, <1>5
<1>7. q < e + 1
  BY <1>1, <1>2, <1>5, <1>6, Multiples
<1>8. size + S - 1 = (e + 1) * S + t
  BY <1>1, <1>3, <1>5
<1>9. ((e + 1) * S + t) \div S = e + 1
  BY <1>1, <1>3, <1>5, QuotientIs
<1>10. SectorsOf(size) = e + 1 /\ q <= e
  BY <1>2, <1>3, <1>4, <1>7, <1>8, <1>9
<1> QED BY <1>2, <1>3, <1>10 DEF S, q, e

\* The read-ahead fits its buffer and stays inside the file.
LEMMA SectorCountIs ==
  ASSUME NEW file \in [lba : Nat, size : Nat], DirectSize(file) # 0, NEW pos \in Nat,
         pos < DirectSize(file), NEW sequential
  PROVE  /\ SectorCount(file, pos, sequential) \in 1..PfSectors
         /\ file.lba + pos \div SectorSize \in Nat
         /\ file.lba + pos \div SectorSize + SectorCount(file, pos, sequential) <= Limit
<1> DEFINE q == pos \div SectorSize
           e == (file.size - 1) \div SectorSize
           rest == e - q + 1
           n == SectorCount(file, pos, sequential)
<1>1. /\ DirectSize(file) = file.size /\ file.size \in Nat \ {0} /\ file.lba \in Nat
      /\ SectorsOf(file.size) <= Limit - file.lba
  BY DirectSizeIs
<1>2. e \in Nat /\ q \in Nat /\ q <= e /\ SectorsOf(file.size) = e + 1
  BY <1>1, LastSector
<1>3. n = IF aros THEN Least(Least(IF sequential THEN PfSectors ELSE 2, MaxTransfer), rest)
          ELSE Least(PfSectors, rest)
  BY <1>1 DEF SectorCount
<1> HIDE DEF q, e, n
<1>4. rest \in Nat /\ rest # 0 /\ file.lba + q + rest <= Limit
  BY <1>1, <1>2, FileReadAssumption
<1> HIDE DEF rest
<1>5. n \in Nat /\ n # 0 /\ n <= PfSectors /\ n <= rest
  BY <1>3, <1>4, FileReadAssumption DEF Least
<1>6. file.lba + q \in Nat /\ file.lba + q + n <= Limit
  BY <1>1, <1>2, <1>4, <1>5, FileReadAssumption
<1>7. n \in 1..PfSectors
  BY <1>5, FileReadAssumption
<1> QED BY <1>6, <1>7 DEF q, n

\* action_seek(): the read-ahead it starts is inside the file and the buffer.
LEMMA SeekInv ==
  ASSUME Inv, NEW newpos \in Nat, NEW open, Seek(newpos, open)
  PROVE  Inv'
<1>1. /\ fh # Null /\ mount.number # 0 /\ newpos <= fh.file.size
      /\ fh' = [fh EXCEPT !.pos = newpos]
      /\ PrefetchStart(fh.file, newpos, fh.last, newpos = fh.pos, open)
      /\ UNCHANGED <<medium, mount, scsiReads, read64Mode, cache, wrong>>
  BY DEF Seek, Active, Serving
<1>2. MediumKnown /\ HandleInFile /\ AheadTrue /\ CacheTrue /\ RequestOwned /\ ReadExact
  BY DEF Inv
<1>3. fh.file \in [lba : Nat, size : Nat]
  BY <1>1, <1>2, HandleIs
<1>4. MediumKnown' /\ ReadExact' /\ CacheTrue'
  <2>1. CacheTrue'
    BY <1>1, <1>2, StillTrue DEF CacheTrue
  <2> QED BY <1>1, <1>2, <2>1 DEF MediumKnown, DriveKnown, ModeKnown, Counts, Has64, ReadExact, medium
<1>5. HandleInFile'
  <2>1. fh \in [file : Files, pos : Nat, last : Nat, mount : Nat]
    BY <1>1, <1>2 DEF HandleInFile
  <2>2. /\ fh' \in [file : Files, pos : Nat, last : Nat, mount : Nat]
        /\ fh'.pos = newpos /\ fh'.file = fh.file
    BY <1>1, <2>1
  <2> QED BY <1>1, <2>2 DEF HandleInFile
<1>6. AheadTrue' /\ RequestOwned'
  <2> DEFINE lba == fh.file.lba + newpos \div SectorSize
             n == SectorCount(fh.file, newpos, newpos = fh.pos)
  <2>1. CASE ReadsAhead(fh.file, newpos, fh.last) /\ open
    <3>1. /\ pf' = [state |-> "busy", lba |-> lba, count |-> n, buf |-> <<>>]
          /\ req' = [state |-> "sent", lba |-> lba, n |-> n, data |-> <<>>]
      BY <1>1, <2>1 DEF PrefetchStart
    <3>2. DirectSize(fh.file) # 0 /\ newpos < DirectSize(fh.file)
      BY <2>1 DEF ReadsAhead
    <3>3. n \in 1..PfSectors /\ lba \in Nat /\ lba + n <= Limit
      BY <1>3, <3>2, SectorCountIs
    <3> HIDE DEF lba, n
    <3>4. n \in Nat
      BY <3>3, FileReadAssumption
    <3>5. AheadTrue'
      BY <3>1, <3>3, <3>4 DEF AheadTrue, IsWindow, IsRequest
    <3>6. RequestOwned'
      BY <1>1, <3>1, <3>3 DEF RequestOwned, Serving
    <3> QED BY <3>5, <3>6
  <2>2. CASE ~(ReadsAhead(fh.file, newpos, fh.last) /\ open)
    <3>1. UNCHANGED <<pf, req>>
      BY <1>1, <2>2 DEF PrefetchStart
    <3>2. UNCHANGED medium /\ UNCHANGED <<pf, req, mount>>
      BY <1>1, <3>1
    <3> QED BY <1>2, <3>1, <3>2, StillAhead, StillOwned
  <2> QED BY <2>1, <2>2
<1> QED BY <1>4, <1>5, <1>6 DEF Inv

\* action_findinput().
LEMMA OpenInv ==
  ASSUME Inv, NEW file \in Files, Open(file)
  PROVE  Inv'
<1>1. /\ fh' = [file |-> file, pos |-> 0, last |-> 0, mount |-> mount.number]
      /\ UNCHANGED <<medium, mount, scsiReads, read64Mode, cache, pf, req, wrong>>
  BY DEF Open
<1>2. MediumKnown /\ AheadTrue /\ CacheTrue /\ RequestOwned /\ ReadExact
  BY DEF Inv
<1>3. file.size \in Nat /\ mount.number \in Nat
  BY <1>2, MediaAssumption DEF MediumKnown
<1>4. HandleInFile'
  <2>1. /\ fh' \in [file : Files, pos : Nat, last : Nat, mount : Nat]
        /\ fh'.pos = 0 /\ fh'.file = file
    BY <1>1, <1>3
  <2> QED BY <1>3, <2>1 DEF HandleInFile
<1>5. UNCHANGED medium /\ UNCHANGED <<pf, req>> /\ UNCHANGED <<pf, req, mount>>
  BY <1>1
<1>6. AheadTrue' /\ RequestOwned'
  BY <1>2, <1>5, StillAhead, StillOwned
<1>7. CacheTrue'
  BY <1>1, <1>2, <1>5, StillTrue DEF CacheTrue
<1>8. MediumKnown' /\ ReadExact'
  BY <1>1, <1>2 DEF MediumKnown, DriveKnown, ModeKnown, Counts, Has64, ReadExact, medium
<1> QED BY <1>4, <1>6, <1>7, <1>8 DEF Inv

\* action_end() leaves the window and the cache to the next handle.
LEMMA CloseInv ==
  ASSUME Inv, Close
  PROVE  Inv'
<1>1. fh' = Null /\ UNCHANGED <<medium, mount, scsiReads, read64Mode, cache, pf, req, wrong>>
  BY DEF Close
<1>2. MediumKnown /\ AheadTrue /\ CacheTrue /\ RequestOwned /\ ReadExact
  BY DEF Inv
<1>3. UNCHANGED medium /\ UNCHANGED <<pf, req>> /\ UNCHANGED <<pf, req, mount>>
  BY <1>1
<1>4. AheadTrue' /\ RequestOwned'
  BY <1>2, <1>3, StillAhead, StillOwned
<1>5. CacheTrue'
  BY <1>1, <1>2, <1>3, StillTrue DEF CacheTrue
<1>6. MediumKnown' /\ ReadExact' /\ HandleInFile'
  BY <1>1, <1>2 DEF MediumKnown, DriveKnown, ModeKnown, Counts, Has64, ReadExact, HandleInFile, medium
<1> QED BY <1>4, <1>5, <1>6 DEF Inv

\* The device answers with the disc that is in the drive by then.
LEMMA CompletesInv ==
  ASSUME Inv, NEW f, PrefetchCompletes(f)
  PROVE  Inv'
<1> DEFINE a == PrefetchAnswer(f)
<1>1. /\ req.state = "sent"
      /\ req' = [req EXCEPT !.state = IF a.err = "ok" THEN "done" ELSE "failed", !.data = a.data]
      /\ UNCHANGED <<medium, mount, scsiReads, read64Mode, cache, pf, fh, wrong>>
  BY DEF PrefetchCompletes
<1>2. MediumKnown /\ HandleInFile /\ AheadTrue /\ CacheTrue /\ RequestOwned /\ ReadExact
  BY DEF Inv
<1>3. UNCHANGED medium /\ UNCHANGED pf
  BY <1>1
<1>4. a.err = "ok" => Window(a.data, req.lba, req.n)
  BY <1>1, <1>2, PrefetchAnswerIs
<1> HIDE DEF a
<1>5. /\ req = [state |-> req.state, lba |-> req.lba, n |-> req.n, data |-> req.data]
      /\ req.lba \in Nat /\ req.n \in Nat
  BY <1>2 DEF AheadTrue, IsRequest
<1>6. req' = [state |-> IF a.err = "ok" THEN "done" ELSE "failed", lba |-> req.lba, n |-> req.n,
              data |-> a.data]
  BY <1>1, <1>5
<1>7. IsRequest(req)'
  BY <1>3, <1>4, <1>5, <1>6 DEF IsRequest, Window, Run, Named, medium
<1>8. IsWindow(pf)'
  BY <1>2, <1>3 DEF AheadTrue, IsWindow, Window, Run, Named, medium
<1>9. RequestOwned'
  <2>1. req'.state # "idle" /\ req'.lba = req.lba /\ req'.n = req.n
    BY <1>6
  <2> QED BY <1>1, <1>2, <2>1 DEF RequestOwned, Serving
<1>10. CacheTrue'
  BY <1>1, <1>2, <1>3, StillTrue DEF CacheTrue
<1>11. MediumKnown' /\ ReadExact' /\ HandleInFile'
  BY <1>1, <1>2 DEF MediumKnown, DriveKnown, ModeKnown, Counts, Has64, ReadExact, HandleInFile, medium
<1> QED BY <1>7, <1>8, <1>9, <1>10, <1>11 DEF Inv, AheadTrue

\* The disc changes: nothing is claimed of what was read until the remount.
LEMMA ChangeDiscInv ==
  ASSUME Inv, NEW d \in Discs, ChangeDisc(d)
  PROVE  Inv'
<1>1. /\ disc' = d /\ changed' = TRUE
      /\ UNCHANGED <<aros, drive, mount, scsiReads, read64Mode, cache, pf, req, fh, wrong>>
  BY DEF ChangeDisc
<1>2. MediumKnown /\ HandleInFile /\ AheadTrue /\ CacheTrue /\ RequestOwned /\ ReadExact
  BY DEF Inv
<1>3. MediumKnown' /\ ReadExact' /\ HandleInFile' /\ RequestOwned'
  BY <1>1, <1>2 DEF MediumKnown, DriveKnown, ModeKnown, Counts, Has64, ReadExact, HandleInFile,
                    RequestOwned, Serving
<1>4. AheadTrue'
  <2>1. IsWindow(pf)'
    BY <1>1, <1>2 DEF AheadTrue, IsWindow, Window, Named
  <2>2. IsRequest(req)'
    BY <1>1, <1>2 DEF AheadTrue, IsRequest, Window, Named
  <2> QED BY <2>1, <2>2 DEF AheadTrue
<1>5. CacheTrue'
  <2>1. cache \in Seq(TrueSlot)
    BY <1>2 DEF CacheTrue
  <2>2. Len(cache) \in Nat /\ cache \in [1..Len(cache) -> TrueSlot]
    BY <2>1, LenProperties
  <2>3. TrueSlot \subseteq TrueSlot'
    BY <1>1 DEF TrueSlot, Slot, Named
  <2>4. cache \in [1..Len(cache) -> TrueSlot']
    BY <2>2, <2>3
  <2>5. cache \in Seq(TrueSlot')
    BY <2>2, <2>4, SeqDef
  <2> QED BY <1>1, <2>5 DEF CacheTrue
<1> QED BY <1>3, <1>4, <1>5 DEF Inv

\* Cancelling leaves no window and no request.
LEMMA CancelledIs ==
  ASSUME pf' = NoPrefetch, req' = NoRequest
  PROVE  AheadTrue' /\ RequestOwned'
BY DEF AheadTrue, IsWindow, IsRequest, NoPrefetch, NoRequest, RequestOwned

\* unmount_volume() and mount_volume() forget what was read from the other disc.
LEMMA RemountInv ==
  ASSUME Inv, NEW f, Remount(f)
  PROVE  Inv'
<1>1. /\ pf' = NoPrefetch /\ req' = NoRequest /\ cache' = <<>> /\ scsiReads' = ProbeScsiReads(f)
      /\ mount' = [disc |-> disc, number |-> mount.number + 1] /\ changed' = FALSE
      /\ UNCHANGED <<aros, drive, disc, read64Mode, fh, wrong>>
  BY DEF Remount, PrefetchCancel
<1>2. MediumKnown /\ HandleInFile /\ ReadExact
  BY DEF Inv
<1>3. disc \in Discs /\ drive \in Drives /\ mount.number \in Nat
  BY <1>2 DEF MediumKnown, DriveKnown, ModeKnown, Counts, Has64
<1>4. ProbeScsiReads(f) => Counts
  BY <1>3, ProbeIs
<1>5. MediumKnown'
  BY <1>1, <1>2, <1>3, <1>4 DEF MediumKnown, DriveKnown, ModeKnown, Counts, Has64
<1>6. AheadTrue' /\ RequestOwned'
  BY <1>1, CancelledIs
<1>7. CacheTrue' /\ ReadExact' /\ HandleInFile'
  BY <1>1, <1>2 DEF CacheTrue, ReadExact, HandleInFile
<1> QED BY <1>5, <1>6, <1>7 DEF Inv

\* The handler ends with no request in flight.
LEMMA ShutdownInv ==
  ASSUME Inv, Shutdown
  PROVE  Inv'
<1>1. /\ pf' = NoPrefetch /\ req' = NoRequest /\ cache' = <<>>
      /\ mount' = [mount EXCEPT !.number = 0]
      /\ UNCHANGED <<medium, scsiReads, read64Mode, fh, wrong>>
  BY DEF Shutdown, PrefetchCancel
<1>2. MediumKnown /\ HandleInFile /\ ReadExact
  BY DEF Inv
<1>3. MediumKnown'
  BY <1>1, <1>2 DEF MediumKnown, DriveKnown, ModeKnown, Counts, Has64, medium
<1>4. AheadTrue' /\ RequestOwned'
  BY <1>1, CancelledIs
<1>5. CacheTrue' /\ ReadExact' /\ HandleInFile'
  BY <1>1, <1>2 DEF CacheTrue, ReadExact, HandleInFile, medium
<1> QED BY <1>3, <1>4, <1>5 DEF Inv

\* Nothing happens.
LEMMA StutterInv ==
  ASSUME Inv, UNCHANGED vars
  PROVE  Inv'
<1>1. UNCHANGED medium /\ UNCHANGED <<pf, req>> /\ UNCHANGED <<pf, req, mount>>
      /\ UNCHANGED <<cache, fh, wrong, scsiReads, read64Mode>>
  BY DEF vars
<1>2. MediumKnown /\ HandleInFile /\ AheadTrue /\ CacheTrue /\ RequestOwned /\ ReadExact
  BY DEF Inv
<1>3. AheadTrue' /\ RequestOwned'
  BY <1>1, <1>2, StillAhead, StillOwned
<1>4. CacheTrue'
  BY <1>1, <1>2, StillTrue DEF CacheTrue
<1>5. MediumKnown' /\ ReadExact' /\ HandleInFile'
  BY <1>1, <1>2 DEF MediumKnown, DriveKnown, ModeKnown, Counts, Has64, ReadExact, HandleInFile, medium
<1> QED BY <1>3, <1>4, <1>5 DEF Inv

\* Every step keeps the invariant.
LEMMA NextInv == Inv /\ [Next]_vars => Inv'
<1> SUFFICES ASSUME Inv, [Next]_vars PROVE Inv'
  OBVIOUS
<1>1. CASE Packet
  <2>1. ASSUME NEW file \in Files, Open(file) PROVE Inv'
    BY <2>1, OpenInv
  <2>2. ASSUME NEW f \in Faults, NEW len \in Lengths, Read(f, len) PROVE Inv'
    <3>1. len \in Nat
      BY MediaAssumption
    <3>2. CASE ReadSmall(f, len)
      BY <3>1, <3>2, SmallInv
    <3>3. ASSUME NEW direct \in BOOLEAN, ReadLarge(f, len, direct) PROVE Inv'
      BY <3>1, <3>3, LargeInv
    <3>4. ASSUME NEW direct \in BOOLEAN, ReadBeyond(f, len, direct) PROVE Inv'
      BY <3>1, <3>4, BeyondInv
    <3> QED BY <2>2, <3>2, <3>3, <3>4 DEF Read
  <2>3. ASSUME NEW newpos \in Offsets, NEW open \in BOOLEAN, Seek(newpos, open) PROVE Inv'
    <3>1. newpos \in Nat
      BY MediaAssumption
    <3> QED BY <2>3, <3>1, SeekInv
  <2> QED BY <1>1, <2>1, <2>2, <2>3, CloseInv DEF Packet
<1>2. CASE Device
  BY <1>2, CompletesInv DEF Device
<1>3. CASE User
  BY <1>3, ChangeDiscInv DEF User
<1>4. CASE \E f \in Faults : Remount(f)
  BY <1>4, RemountInv
<1>5. CASE Shutdown
  BY <1>5, ShutdownInv
<1>6. CASE UNCHANGED vars
  BY <1>6, StutterInv
<1> QED BY <1>1, <1>2, <1>3, <1>4, <1>5, <1>6 DEF Next

-----------------------------------------------------------------------------
(* The results.                                                            *)

\* The invariant that ties the handle, the window, the request and the cache to
\* the disc holds throughout.
THEOREM InvCorrect ==
  ASSUME SectorsOrRead64
  PROVE  Spec => []Inv
<1>1. Init => Inv
  BY InitInv
<1>2. Inv /\ [Next]_vars => Inv'
  BY NextInv
<1> QED BY <1>1, <1>2, PTL DEF Spec

\* Every Read delivers the file's bytes at the handle's position and moves the
\* position by their number, through action_read()'s three ways, for every sector
\* size, buffer size, transfer limit, pattern of device failures and driver, except
\* one that leaves READ(10) alone to reach a drive of larger blocks.
THEOREM ReadCorrect ==
  ASSUME SectorsOrRead64
  PROVE  Spec => []ReadExact
<1>1. Inv => ReadExact
  BY DEF Inv
<1> QED BY <1>1, InvCorrect, PTL

\* A handle keeps its file.
HandleHasFile ==
  fh # Null => /\ fh = [file |-> fh.file, pos |-> fh.pos, last |-> fh.last, mount |-> fh.mount]
               /\ fh.file \in Files

\* The read-ahead and its request keep their fields.
RecordsFormed ==
  /\ pf = [state |-> pf.state, lba |-> pf.lba, count |-> pf.count, buf |-> pf.buf]
  /\ req = [state |-> req.state, lba |-> req.lba, n |-> req.n, data |-> req.data]

\* The end of a Read leaves the file alone.
LEMMA DeliverFile ==
  ASSUME HandleHasFile, fh # Null, NEW len, NEW out, NEW err, Deliver(len, out, err)
  PROVE  HandleHasFile' /\ UNCHANGED mount
<1>1. fh' = [file |-> fh.file, pos |-> fh.pos + Len(out), last |-> len, mount |-> fh.mount]
  BY DEF Deliver, HandleHasFile
<1>2. fh'.file \in Files
  BY <1>1 DEF HandleHasFile
<1> QED BY <1>1, <1>2 DEF HandleHasFile, Deliver

\* A packet that reads takes the request back or leaves it, whatever the drive does.
LEMMA ReadOwned ==
  ASSUME RequestOwned, HandleHasFile, RecordsFormed, NEW f, NEW len, Read(f, len)
  PROVE  RequestOwned' /\ HandleHasFile' /\ RecordsFormed'
<1>1. CASE ReadSmall(f, len)
  <2>1. fh # Null /\ mount.number # 0
    BY <1>1 DEF ReadSmall, Active, Serving
  <2>2. \E out, err : Deliver(len, out, err)
    BY <1>1 DEF ReadSmall, ReadPastPrefetch, DeliverRest
  <2>3. PICK w : /\ w = Waited(f) \/ w = [pf |-> pf, cache |-> cache]
                 /\ pf' = w.pf /\ req' = IF w.pf.state = pf.state THEN req ELSE NoRequest
    BY <1>1 DEF ReadSmall
  <2>4. pf = [state |-> pf.state, lba |-> pf.lba, count |-> pf.count, buf |-> pf.buf]
    BY DEF RecordsFormed
  <2>5. \/ w.pf = pf
        \/ pf.state = "busy" /\ w.pf = NoPrefetch
        \/ pf.state = "busy" /\ \E b : w.pf = [pf EXCEPT !.state = "valid", !.buf = b]
    <3>1. CASE w = [pf |-> pf, cache |-> cache]
      BY <3>1
    <3>2. CASE w = Waited(f)
      <4>1. CASE pf.state # "busy"
        BY <3>2, <4>1 DEF Waited
      <4>2. CASE pf.state = "busy"
        <5>1. \E a, c : w = (IF a.err # "ok" THEN [pf |-> NoPrefetch, cache |-> cache]
                            ELSE [pf |-> [pf EXCEPT !.state = "valid", !.buf = a.data],
                                  cache |-> c])
          BY <3>2, <4>2 DEF Waited
        <5>2. PICK a, c : w = (IF a.err # "ok" THEN [pf |-> NoPrefetch, cache |-> cache]
                               ELSE [pf |-> [pf EXCEPT !.state = "valid", !.buf = a.data],
                                     cache |-> c])
          BY <5>1
        <5>3. CASE a.err # "ok"
          BY <4>2, <5>2, <5>3
        <5>4. CASE a.err = "ok"
          <6>1. w.pf = [pf EXCEPT !.state = "valid", !.buf = a.data]
            BY <5>2, <5>4
          <6> QED BY <4>2, <6>1
        <5> QED BY <5>3, <5>4
      <4> QED BY <4>1, <4>2
    <3> QED BY <2>3, <3>1, <3>2
  <2>6. HandleHasFile' /\ UNCHANGED mount
    BY <2>1, <2>2, DeliverFile
  <2>7. CASE w.pf = pf
    BY <2>3, <2>6, <2>7, StillOwned DEF RecordsFormed
  <2>8. ASSUME pf.state = "busy", w.pf.state # "busy"
        PROVE  req' = NoRequest /\ RequestOwned'
    BY <2>3, <2>6, <2>8 DEF RequestOwned, NoRequest, Serving
  <2>9. CASE pf.state = "busy" /\ w.pf = NoPrefetch
    BY <2>3, <2>6, <2>8, <2>9 DEF NoPrefetch, NoRequest, RecordsFormed
  <2>10. ASSUME pf.state = "busy", NEW b, w.pf = [pf EXCEPT !.state = "valid", !.buf = b]
         PROVE  RequestOwned' /\ HandleHasFile' /\ RecordsFormed'
    <3>1. w.pf = [state |-> "valid", lba |-> pf.lba, count |-> pf.count, buf |-> b]
      BY <2>4, <2>10
    <3> QED BY <2>3, <2>6, <2>8, <2>10, <3>1 DEF NoRequest, RecordsFormed
  <2> QED BY <2>5, <2>7, <2>9, <2>10
<1>2. ASSUME NEW direct \in BOOLEAN, ReadLarge(f, len, direct) \/ ReadBeyond(f, len, direct)
      PROVE  RequestOwned' /\ HandleHasFile' /\ RecordsFormed'
  <2>1. fh # Null /\ UNCHANGED <<pf, req>>
    BY <1>2 DEF ReadLarge, ReadBeyond, Active
  <2>2. \E out, err : Deliver(len, out, err)
    BY <1>2 DEF ReadLarge, ReadBeyond, DeliverRest
  <2>3. HandleHasFile' /\ UNCHANGED mount
    BY <2>1, <2>2, DeliverFile
  <2> QED BY <2>1, <2>3, StillOwned DEF RecordsFormed
<1> QED BY <1>1, <1>2 DEF Read

\* So does every other step; a Seek sends a request that fits.
LEMMA SeekOwned ==
  ASSUME RequestOwned, HandleHasFile, RecordsFormed, NEW newpos \in Nat, NEW open, Seek(newpos, open)
  PROVE  RequestOwned' /\ HandleHasFile' /\ RecordsFormed'
<1>1. /\ fh # Null /\ mount.number # 0 /\ fh' = [fh EXCEPT !.pos = newpos] /\ UNCHANGED mount
      /\ PrefetchStart(fh.file, newpos, fh.last, newpos = fh.pos, open)
  BY DEF Seek, Active, Serving
<1>2. fh.file \in [lba : Nat, size : Nat]
  BY <1>1, MediaAssumption DEF HandleHasFile
<1>3. HandleHasFile'
  <2>1. fh' = [file |-> fh.file, pos |-> newpos, last |-> fh.last, mount |-> fh.mount]
    BY <1>1 DEF HandleHasFile
  <2>2. fh'.file \in Files
    BY <1>1, <2>1 DEF HandleHasFile
  <2> QED BY <2>1, <2>2 DEF HandleHasFile
<1>4. CASE ReadsAhead(fh.file, newpos, fh.last) /\ open
  <2> DEFINE lba == fh.file.lba + newpos \div SectorSize
             n == SectorCount(fh.file, newpos, newpos = fh.pos)
  <2>1. /\ pf' = [state |-> "busy", lba |-> lba, count |-> n, buf |-> <<>>]
        /\ req' = [state |-> "sent", lba |-> lba, n |-> n, data |-> <<>>]
    BY <1>1, <1>4 DEF PrefetchStart
  <2>2. DirectSize(fh.file) # 0 /\ newpos < DirectSize(fh.file)
    BY <1>4 DEF ReadsAhead
  <2>3. n \in 1..PfSectors /\ lba + n <= Limit
    BY <1>2, <2>2, SectorCountIs
  <2> HIDE DEF lba, n
  <2>4. RequestOwned'
    BY <1>1, <2>1, <2>3 DEF RequestOwned, Serving
  <2> QED BY <1>3, <2>1, <2>4 DEF RecordsFormed
<1>5. CASE ~(ReadsAhead(fh.file, newpos, fh.last) /\ open)
  <2>1. UNCHANGED <<pf, req>>
    BY <1>1, <1>5 DEF PrefetchStart
  <2> QED BY <1>1, <1>3, <2>1, StillOwned DEF RecordsFormed
<1> QED BY <1>4, <1>5

LEMMA NextOwned ==
  ASSUME RequestOwned, HandleHasFile, RecordsFormed, [Next]_vars
  PROVE  RequestOwned' /\ HandleHasFile' /\ RecordsFormed'
<1>1. ASSUME UNCHANGED <<pf, req, mount>> PROVE RequestOwned' /\ RecordsFormed'
  BY <1>1, StillOwned DEF RecordsFormed
<1>2. ASSUME UNCHANGED fh PROVE HandleHasFile'
  BY <1>2 DEF HandleHasFile
<1>3. ASSUME NEW file \in Files, Open(file) PROVE RequestOwned' /\ HandleHasFile' /\ RecordsFormed'
  BY <1>1, <1>3 DEF Open, HandleHasFile
<1>4. CASE Close
  BY <1>1, <1>4 DEF Close, HandleHasFile
<1>5. ASSUME NEW newpos \in Offsets, NEW open \in BOOLEAN, Seek(newpos, open)
      PROVE  RequestOwned' /\ HandleHasFile' /\ RecordsFormed'
  BY <1>5, SeekOwned, MediaAssumption
<1>6. ASSUME NEW f, PrefetchCompletes(f) PROVE RequestOwned' /\ HandleHasFile' /\ RecordsFormed'
  <2>1. /\ req.state = "sent" /\ UNCHANGED <<pf, mount, fh>>
        /\ \E d : req' = [req EXCEPT !.state = "done", !.data = d]
              \/ req' = [req EXCEPT !.state = "failed", !.data = d]
    BY <1>6 DEF PrefetchCompletes
  <2>2. PICK d : \/ req' = [req EXCEPT !.state = "done", !.data = d]
                 \/ req' = [req EXCEPT !.state = "failed", !.data = d]
    BY <2>1
  <2>3. req = [state |-> req.state, lba |-> req.lba, n |-> req.n, data |-> req.data]
    BY DEF RecordsFormed
  <2>4. \/ req' = [state |-> "done", lba |-> req.lba, n |-> req.n, data |-> d]
        \/ req' = [state |-> "failed", lba |-> req.lba, n |-> req.n, data |-> d]
    BY <2>2, <2>3
  <2>5. RequestOwned'
    BY <2>1, <2>4 DEF RequestOwned, Serving
  <2>6. RecordsFormed'
    BY <2>1, <2>4 DEF RecordsFormed
  <2> QED BY <1>2, <2>1, <2>5, <2>6
<1>7. CASE User
  BY <1>1, <1>2, <1>7 DEF User, ChangeDisc
<1>8. ASSUME NEW f, Remount(f) PROVE RequestOwned' /\ HandleHasFile' /\ RecordsFormed'
  BY <1>2, <1>8, CancelledIs DEF Remount, PrefetchCancel, RecordsFormed, NoPrefetch, NoRequest
<1>9. CASE Shutdown
  BY <1>2, <1>9, CancelledIs DEF Shutdown, PrefetchCancel, RecordsFormed, NoPrefetch, NoRequest
<1>10. CASE UNCHANGED vars
  BY <1>1, <1>2, <1>10 DEF vars
<1> QED BY <1>3, <1>4, <1>5, <1>6, <1>7, <1>8, <1>9, <1>10, ReadOwned DEF Next, Packet, Device

\* pf_req is with the device just while pf_state is busy, inside its buffer and the
\* sectors CMD_READ reaches, and is never left behind by a shutdown, whatever the
\* drive and the disc do.
THEOREM RequestCorrect == Spec => []RequestOwned
<1>1. Init => RequestOwned /\ HandleHasFile /\ RecordsFormed
  BY DEF Init, RequestOwned, HandleHasFile, RecordsFormed, NoPrefetch, NoRequest
<1> QED BY <1>1, NextOwned, PTL DEF Spec

\* The block cache holds the mounted disc's sectors whoever filled it: a read, or
\* the read-ahead that prefetch_wait() keeps.
THEOREM CacheCorrect ==
  ASSUME SectorsOrRead64
  PROVE  Spec => []CacheHoldsDisc
<1>1. Inv => CacheHoldsDisc
  <2> SUFFICES ASSUME Inv, ~changed, Serving, NEW k \in DOMAIN cache
               PROVE  cache[k].data = [disc |-> mount.disc, at |-> cache[k].lba]
    BY DEF CacheHoldsDisc
  <2>1. cache \in Seq(TrueSlot) /\ mount.disc = disc
    BY DEF Inv, CacheTrue, MediumKnown
  <2>2. cache[k] \in TrueSlot
    BY <2>1, LenProperties
  <2> QED BY <2>1, <2>2 DEF TrueSlot
<1> QED BY <1>1, InvCorrect, PTL
=============================================================================
