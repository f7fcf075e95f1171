------------------------------- MODULE SequenceFacts -------------------------------
(***************************************************************************)
(* Facts about sequences, naturals and folds that the proofs of several    *)
(* components cite.                                                        *)
(*                                                                         *)
(* Induction is stated over a set: a set of naturals with 0 that is closed *)
(* under the successor, up to n, holds n.  It follows from the least       *)
(* element of the naturals outside the set, so that an induction is an     *)
(* ordinary lemma to cite.                                                 *)
(***************************************************************************)
EXTENDS Naturals, Sequences, SequencesExt, SequenceTheorems, FiniteSetTheorems, TLAPS

-------------------------------------------------------------------------------
(* Sequences.                                                              *)

\* Appending a record keeps every record where it is and adds one at the end.
LEMMA AppendFacts ==
  ASSUME NEW R, NEW file \in Seq(R), NEW r \in R
  PROVE  /\ Append(file, r) \in Seq(R)
         /\ DOMAIN Append(file, r) = 1..(Len(file) + 1)
         /\ DOMAIN file = 1..Len(file)
         /\ \A i \in DOMAIN file : Append(file, r)[i] = file[i]
         /\ Append(file, r)[Len(file) + 1] = r
  OBVIOUS

\* Removing the record at k keeps the others, in their order.
LEMMA RemoveAtFacts ==
  ASSUME NEW R, NEW file \in Seq(R), NEW k \in DOMAIN file
  PROVE  /\ RemoveAt(file, k) \in Seq(R)
         /\ DOMAIN RemoveAt(file, k) = 1..(Len(file) - 1)
         /\ DOMAIN file = 1..Len(file)
         /\ \A i \in 1..(Len(file) - 1) :
              RemoveAt(file, k)[i] = IF i < k THEN file[i] ELSE file[i + 1]
<1> DEFINE front == SubSeq(file, 1, k - 1)
           back == SubSeq(file, k + 1, Len(file))
<1> HIDE DEF front, back
<1>1. k \in 1..Len(file) /\ Len(file) \in Nat /\ DOMAIN file = 1..Len(file)
  OBVIOUS
<1>2. \A i \in 1..Len(file) : file[i] \in R
  OBVIOUS
<1>3. /\ front \in Seq(R)
      /\ Len(front) = k - 1
      /\ \A i \in 1..(k - 1) : front[i] = file[i]
  <2>1. \A i \in 1..(k - 1) : file[i] \in R
    BY <1>1, <1>2
  <2>2. 1 \in Int /\ k - 1 \in Int
    BY <1>1
  <2>3. /\ front \in Seq(R)
        /\ Len(front) = IF 1 <= k - 1 THEN (k - 1) - 1 + 1 ELSE 0
        /\ \A i \in 1..((k - 1) - 1 + 1) : front[i] = file[1 + i - 1]
    BY <2>1, <2>2, SubSeqProperties DEF front
  <2> QED BY <2>3, <1>1
<1>4. /\ back \in Seq(R)
      /\ Len(back) = Len(file) - k
      /\ \A i \in 1..(Len(file) - k) : back[i] = file[k + i]
  <2>1. \A i \in (k + 1)..Len(file) : file[i] \in R
    BY <1>1, <1>2
  <2>2. k + 1 \in Int /\ Len(file) \in Int
    BY <1>1
  <2>3. /\ back \in Seq(R)
        /\ Len(back) = IF k + 1 <= Len(file) THEN Len(file) - (k + 1) + 1 ELSE 0
        /\ \A i \in 1..(Len(file) - (k + 1) + 1) : back[i] = file[(k + 1) + i - 1]
    BY <2>1, <2>2, SubSeqProperties DEF back
  <2>4. Len(file) - (k + 1) + 1 = Len(file) - k
    BY <1>1
  <2>5. \A i \in 1..(Len(file) - k) : (k + 1) + i - 1 = k + i
    BY <1>1
  <2>6. Len(back) = Len(file) - k
    BY <2>3, <1>1
  <2> QED BY <2>3, <2>4, <2>5, <2>6
<1>5. RemoveAt(file, k) = front \o back
  BY DEF RemoveAt, front, back
<1>6. /\ front \o back \in Seq(R)
      /\ Len(front \o back) = Len(file) - 1
      /\ \A i \in 1..(Len(file) - 1) :
           (front \o back)[i] = IF i <= k - 1 THEN front[i] ELSE back[i - (k - 1)]
  <2>1. /\ front \o back \in Seq(R)
        /\ Len(front \o back) = Len(front) + Len(back)
        /\ \A i \in 1..(Len(front) + Len(back)) :
             (front \o back)[i] =
               IF i <= Len(front) THEN front[i] ELSE back[i - Len(front)]
    BY <1>3, <1>4, ConcatProperties
  <2>2. Len(front) + Len(back) = Len(file) - 1
    BY <1>1, <1>3, <1>4
  <2> QED BY <2>1, <2>2, <1>3
<1>7. ASSUME NEW i \in 1..(Len(file) - 1)
      PROVE  (front \o back)[i] = IF i < k THEN file[i] ELSE file[i + 1]
  <2>1. CASE i < k
    BY <2>1, <1>1, <1>3, <1>6
  <2>2. CASE ~(i < k)
    <3>1. i - (k - 1) \in 1..(Len(file) - k)
      BY <2>2, <1>1
    <3>2. back[i - (k - 1)] = file[k + (i - (k - 1))]
      BY <3>1, <1>4
    <3>3. k + (i - (k - 1)) = i + 1
      BY <1>1
    <3> QED BY <2>2, <3>2, <3>3, <1>1, <1>6
  <2> QED BY <2>1, <2>2
<1>8. DOMAIN RemoveAt(file, k) = 1..(Len(file) - 1)
  BY <1>5, <1>6
<1> QED BY <1>1, <1>5, <1>6, <1>7, <1>8

-------------------------------------------------------------------------------
(* Naturals.                                                               *)

\* A set of naturals that is not empty has a least element.
LEMMA LeastNatural ==
  ASSUME NEW S \in SUBSET Nat, S # {}
  PROVE  Min(S) \in S /\ \A n \in S : Min(S) <= n
<1> DEFINE R == {p \in Nat \X Nat : p[1] < p[2]}
<1>1. \E m \in S : \A n \in S : ~(<<n, m>> \in R)
  BY NatLessThanWellFounded, WFMin DEF OpToRel
<1>2. \A m, n \in Nat : n < m => <<n, m>> \in R
  BY Zenon
<1> HIDE DEF R
<1>3. \A m, n \in S : ~(<<n, m>> \in R) => m <= n
  BY <1>2
<1>4. \E m \in S : \A n \in S : m <= n
  BY <1>1, <1>3
<1> QED BY <1>4 DEF Min

\* Induction up to n: a set with 0 and, below n, the successors of its members.
LEMMA UpTo ==
  ASSUME NEW n \in Nat, NEW S, 0 \in S, \A k \in Nat : k < n /\ k \in S => k + 1 \in S
  PROVE  n \in S
<1> SUFFICES ASSUME n \notin S PROVE FALSE
  OBVIOUS
<1> DEFINE out == {k \in Nat : k <= n /\ k \notin S}
<1>1. out \in SUBSET Nat /\ out # {}
  OBVIOUS
<1>2. PICK m \in out : \A k \in out : m <= k
  BY <1>1, LeastNatural
<1>3. m \in Nat /\ m <= n /\ m # 0
  BY <1>2
<1>4. m - 1 \in Nat /\ m - 1 < n /\ (m - 1) + 1 = m
  BY <1>3
<1>5. m - 1 \in S
  BY <1>2, <1>4
<1> QED BY <1>2, <1>4, <1>5

\* A set of positions that is not empty has a greatest element.
LEMMA GreatestPosition ==
  ASSUME NEW n \in Nat, NEW s \in SUBSET (1..n), s # {}
  PROVE  Max(s) \in s /\ \A i \in s : Max(s) >= i
<1> DEFINE above == {m \in Nat : \A i \in s : m >= i}
<1>1. above \in SUBSET Nat /\ n \in above
  OBVIOUS
<1>2. PICK m \in above : \A k \in above : m <= k
  BY <1>1, LeastNatural
<1>3. m \in s
  <2> SUFFICES ASSUME m \notin s PROVE FALSE
    OBVIOUS
  <2>1. PICK i \in s : TRUE
    OBVIOUS
  <2>2. m \in Nat /\ m >= i /\ i >= 1
    BY <1>2, <2>1
  <2>3. m - 1 \in Nat /\ \A k \in s : m - 1 >= k
    BY <1>2, <2>2
  <2> QED BY <1>2, <2>2, <2>3
<1> QED BY <1>2, <1>3 DEF Max

\* The first k + 1 positions without the last one are the first k.
LEMMA LastPosition ==
  ASSUME NEW k \in Nat
  PROVE  /\ 1..(k + 1) # {}
         /\ Max(1..(k + 1)) = k + 1
         /\ (1..(k + 1)) \ {k + 1} = 1..k
<1>1. 1..(k + 1) # {} /\ k + 1 \in 1..(k + 1) /\ k + 1 \in Nat
  OBVIOUS
<1>2. Max(1..(k + 1)) \in 1..(k + 1) /\ Max(1..(k + 1)) >= k + 1
  BY <1>1, GreatestPosition
<1> QED BY <1>1, <1>2

\* Counting the positions before a position of P numbers those of P from 0, without a
\* gap and without a repetition.
LEMMA PositionsCounted ==
  ASSUME NEW n \in Nat, NEW P \in SUBSET (1..n)
  PROVE  LET count(m) == Cardinality({j \in P : j <= m})
         IN  /\ \A m \in 0..n : count(m) \in 0..m
             /\ \A m \in 0..n : \A k \in 0..(count(m) - 1) :
                  \E j \in P : j <= m /\ count(j - 1) = k
             /\ \A i, j \in P : count(i - 1) = count(j - 1) => i = j
<1> DEFINE upto(m) == {j \in P : j <= m}
           count(m) == Cardinality(upto(m))
<1>0. \A j \in P : j \in Int /\ j \in Nat /\ j >= 1
  OBVIOUS
<1>1. \A m \in Nat : IsFiniteSet(upto(m)) /\ count(m) \in Nat
  <2>1. TAKE m \in Nat
  <2>2. 1 \in Int /\ m \in Int
    OBVIOUS
  <2>3. IsFiniteSet(1..m)
    BY <2>2, FS_Interval
  <2>4. \A j \in upto(m) : j \in 1..m
    BY <1>0, <2>1
  <2> QED BY <2>3, <2>4, FS_Subset, FS_CardinalityType
<1>2. upto(0) = {} /\ count(0) = 0
  <2>1. \A j \in P : ~(j <= 0)
    BY <1>0
  <2>2. upto(0) = {}
    BY <2>1
  <2> QED BY <2>2, FS_EmptySet
<1>3. ASSUME NEW m \in Nat, m + 1 \in P
      PROVE  upto(m + 1) = upto(m) \cup {m + 1} /\ m + 1 \notin upto(m)
  <2>1. \A j \in P : j <= m + 1 <=> j <= m \/ j = m + 1
    BY <1>0
  <2>2. ~(m + 1 <= m)
    OBVIOUS
  <2>3. upto(m + 1) \subseteq upto(m) \cup {m + 1}
    BY <2>1
  <2>4. upto(m) \cup {m + 1} \subseteq upto(m + 1)
    BY <1>3, <2>1
  <2> QED BY <2>2, <2>3, <2>4
<1>4. ASSUME NEW m \in Nat, m + 1 \notin P
      PROVE  upto(m + 1) = upto(m)
  <2>1. \A j \in P : j <= m + 1 <=> j <= m
    BY <1>0, <1>4
  <2> QED BY <2>1
<1> HIDE DEF upto
<1>5. ASSUME NEW m \in Nat
      PROVE  count(m + 1) = IF m + 1 \in P THEN count(m) + 1 ELSE count(m)
  <2>1. CASE m + 1 \in P
    BY <1>1, <1>3, <2>1, FS_AddElement
  <2>2. CASE m + 1 \notin P
    BY <1>4, <2>2
  <2> QED BY <2>1, <2>2
<1> HIDE DEF count
<1> DEFINE Reached(m) == \A k \in 0..(count(m) - 1) : \E j \in P : j <= m /\ count(j - 1) = k
           good == {m \in Nat : count(m) <= m /\ Reached(m)}
<1>6. 0 \in good
  BY <1>2
<1>7. ASSUME NEW m \in Nat, m \in good
      PROVE  m + 1 \in good
  <2>1. count(m) \in Nat /\ count(m) <= m /\ Reached(m)
    BY <1>1, <1>7
  <2>2. count(m + 1) <= m + 1
    BY <1>5, <2>1
  <2>3. ASSUME NEW k \in 0..(count(m + 1) - 1)
        PROVE  \E j \in P : j <= m + 1 /\ count(j - 1) = k
    <3>1. CASE k \in 0..(count(m) - 1)
      <4>1. PICK j \in P : j <= m /\ count(j - 1) = k
        BY <2>1, <3>1
      <4> QED BY <4>1
    <3>2. CASE k \notin 0..(count(m) - 1)
      <4>1. m + 1 \in P /\ k = count(m)
        BY <1>5, <2>1, <3>2
      <4>2. (m + 1) - 1 = m
        OBVIOUS
      <4> QED BY <4>1, <4>2
    <3> QED BY <3>1, <3>2
  <2> QED BY <2>2, <2>3
<1> HIDE DEF good
<1>8. \A m \in Nat : m \in good
  BY <1>6, <1>7, UpTo
<1>9. \A m \in Nat : count(m) <= m /\ Reached(m)
  BY <1>8 DEF good
<1> HIDE DEF Reached
<1>10. ASSUME NEW i \in P, NEW m \in Nat, i <= m
       PROVE  count(i - 1) < count(m)
  <2> DEFINE above == {d \in Nat : count(i - 1) < count(i + d)}
  <2>1. i \in Nat /\ i - 1 \in Nat /\ (i - 1) + 1 = i
    OBVIOUS
  <2>2. 0 \in above
    BY <1>1, <1>5, <2>1
  <2>3. ASSUME NEW d \in Nat, d \in above
        PROVE  d + 1 \in above
    <3>1. i + d \in Nat /\ (i + d) + 1 = i + (d + 1)
      BY <2>1
    <3>2. count(i - 1) < count(i + d) /\ count(i + d) \in Nat /\ count(i - 1) \in Nat
      BY <1>1, <2>1, <2>3, <3>1
    <3>3. count(i + (d + 1)) >= count(i + d) /\ count(i + (d + 1)) \in Nat
      BY <1>5, <3>1, <3>2
    <3> QED BY <3>2, <3>3
  <2> HIDE DEF above
  <2>4. m - i \in Nat /\ i + (m - i) = m
    BY <1>10, <2>1
  <2>5. m - i \in above
    BY <2>2, <2>3, <2>4, UpTo
  <2> QED BY <2>4, <2>5 DEF above
<1>11. ASSUME NEW i \in P, NEW j \in P, count(i - 1) = count(j - 1)
       PROVE  i = j
  <2>1. i \in Nat /\ j \in Nat /\ i - 1 \in Nat /\ j - 1 \in Nat
    OBVIOUS
  <2>2. count(i - 1) \in Nat /\ count(j - 1) \in Nat
    BY <1>1, <2>1
  <2>3. ~(i < j)
    <3>1. i < j => i <= j - 1
      BY <2>1
    <3> QED BY <1>10, <1>11, <2>1, <2>2, <3>1
  <2>4. ~(j < i)
    <3>1. j < i => j <= i - 1
      BY <2>1
    <3> QED BY <1>10, <1>11, <2>1, <2>2, <3>1
  <2> QED BY <2>1, <2>3, <2>4
<1>12. \A m \in 0..n : count(m) \in 0..m
  BY <1>1, <1>9
<1>13. \A m \in 0..n : \A k \in 0..(count(m) - 1) : \E j \in P : j <= m /\ count(j - 1) = k
  BY <1>9 DEF Reached
<1> QED BY <1>11, <1>12, <1>13 DEF count, upto
-------------------------------------------------------------------------------
(* Folds.  FoldLeft is a recursive function on the sets of positions that  *)
(* takes the greatest one off; a step of the fold is a function here.      *)

IsFold(h, step, base, seq) ==
  h = [s \in SUBSET DOMAIN seq |->
         IF s = {} THEN base ELSE step[<<h[s \ {Max(s)}], seq[Max(s)]>>]]

\* There is such a function, for every step and every sequence.
LEMMA FoldExists ==
  ASSUME NEW A, NEW X, NEW step \in [A \X X -> A], NEW base \in A, NEW seq \in Seq(X)
  PROVE  \E h \in [SUBSET DOMAIN seq -> A] : IsFold(h, step, base, seq)
<1> DEFINE Solves(h, k) ==
             \A s \in SUBSET (1..k) :
               h[s] = IF s = {} THEN base ELSE step[<<h[s \ {Max(s)}], seq[Max(s)]>>]
           solved == {k \in Nat : \E h \in [SUBSET (1..k) -> A] : Solves(h, k)}
           n == Len(seq)
<1>1. n \in Nat /\ DOMAIN seq = 1..n /\ \A i \in 1..n : seq[i] \in X
  OBVIOUS
<1>2. 0 \in solved
  <2> DEFINE h == [s \in SUBSET (1..0) |-> base]
  <2>1. 1..0 = {}
    OBVIOUS
  <2>2. h \in [SUBSET (1..0) -> A] /\ Solves(h, 0)
    BY <2>1
  <2> HIDE DEF h
  <2> QED BY <2>2
<1>3. ASSUME NEW k \in Nat, k < n, k \in solved
      PROVE  k + 1 \in solved
  <2>1. PICK h \in [SUBSET (1..k) -> A] : Solves(h, k)
    BY <1>3
  <2> DEFINE top == k + 1
             g == [s \in SUBSET (1..top) |->
                     IF top \in s THEN step[<<h[s \ {top}], seq[top]>>] ELSE h[s]]
  <2>2. top \in Nat /\ top \in 1..n /\ seq[top] \in X
    BY <1>1, <1>3
  <2>3. ASSUME NEW s \in SUBSET (1..top)
        PROVE  s \ {top} \in SUBSET (1..k) /\ (top \notin s => s \in SUBSET (1..k))
    OBVIOUS
  <2>4. g \in [SUBSET (1..top) -> A]
    <3>1. ASSUME NEW s \in SUBSET (1..top)
          PROVE  (IF top \in s THEN step[<<h[s \ {top}], seq[top]>>] ELSE h[s]) \in A
      BY <2>1, <2>2, <2>3
    <3> QED BY <3>1
  <2>5. ASSUME NEW s \in SUBSET (1..top)
        PROVE  g[s] = IF s = {} THEN base ELSE step[<<g[s \ {Max(s)}], seq[Max(s)]>>]
    <3>1. CASE s = {}
      <4>1. top \notin s /\ s \in SUBSET (1..k)
        BY <3>1
      <4> QED BY <2>1, <3>1, <4>1
    <3>2. CASE top \in s
      <4>1. Max(s) \in s /\ Max(s) >= top
        BY <2>2, <3>2, GreatestPosition
      <4>2. Max(s) = top
        <5>1. \A m \in 1..top : m >= top => m = top
          BY <2>2
        <5> QED BY <4>1, <5>1
      <4>3. s \ {top} \in SUBSET (1..top) /\ top \notin s \ {top}
        OBVIOUS
      <4>4. g[s \ {top}] = h[s \ {top}]
        BY <4>3
      <4>5. g[s] = step[<<h[s \ {top}], seq[top]>>]
        BY <3>2
      <4> QED BY <3>2, <4>2, <4>4, <4>5
    <3>3. CASE s # {} /\ top \notin s
      <4>1. s \in SUBSET (1..k) /\ s \ {Max(s)} \in SUBSET (1..k)
        BY <3>3, <2>3
      <4>2. /\ s \ {Max(s)} \in SUBSET (1..top) /\ top \notin s \ {Max(s)}
        BY <3>3
      <4>3. g[s] = h[s] /\ g[s \ {Max(s)}] = h[s \ {Max(s)}]
        BY <3>3, <4>2
      <4> QED BY <2>1, <3>3, <4>1, <4>3
    <3> QED BY <3>1, <3>2, <3>3
  <2> HIDE DEF g
  <2>6. Solves(g, top)
    BY <2>5
  <2> QED BY <2>2, <2>4, <2>6
<1> HIDE DEF solved
<1>4. n \in solved
  BY <1>1, <1>2, <1>3, UpTo
<1>5. PICK h \in [SUBSET (1..n) -> A] : Solves(h, n)
  BY <1>4 DEF solved
<1>6. IsFold(h, step, base, seq)
  BY <1>1, <1>5 DEF IsFold
<1> QED BY <1>1, <1>5, <1>6

\* h takes the step wherever it has a value of the fold's set.
Follows(h, A, step, base, seq) ==
  /\ h[{}] = base
  /\ \A s \in SUBSET DOMAIN seq :
       s # {} /\ h[s \ {Max(s)}] \in A => h[s] = step[<<h[s \ {Max(s)}], seq[Max(s)]>>]

\* part holds the results of the fold of seq after each element, the last one last.
PartialResults(part, step, base, seq, last) ==
  /\ part[0] = base
  /\ \A k \in Nat : k < Len(seq) => part[k + 1] = step[<<part[k], seq[k + 1]>>]
  /\ part[Len(seq)] = last

\* Such a function has a value for every prefix: the partial results of the fold.
LEMMA FoldResults ==
  ASSUME NEW A, NEW X, NEW step \in [A \X X -> A], NEW base \in A, NEW seq \in Seq(X),
         NEW h, Follows(h, A, step, base, seq)
  PROVE  \E part \in [0..Len(seq) -> A] :
           PartialResults(part, step, base, seq, h[DOMAIN seq])
<1> DEFINE n == Len(seq)
           part == [k \in 0..n |-> h[1..k]]
           valued == {k \in Nat : k <= n => h[1..k] \in A}
<1>1. n \in Nat /\ DOMAIN seq = 1..n /\ \A i \in 1..n : seq[i] \in X
  OBVIOUS
<1>2. h[1..0] = base
  <2>1. 1..0 = {}
    OBVIOUS
  <2> QED BY <2>1 DEF Follows
<1>3. ASSUME NEW k \in Nat, k < n, h[1..k] \in A
      PROVE  h[1..(k + 1)] = step[<<h[1..k], seq[k + 1]>>] /\ h[1..(k + 1)] \in A
  <2> DEFINE s == 1..(k + 1)
  <2>1. s \in SUBSET DOMAIN seq /\ seq[k + 1] \in X
    BY <1>1, <1>3
  <2>2. s # {} /\ Max(s) = k + 1 /\ s \ {k + 1} = 1..k
    BY LastPosition
  <2> HIDE DEF s
  <2>3. h[s] = step[<<h[s \ {Max(s)}], seq[Max(s)]>>]
    BY <1>3, <2>1, <2>2 DEF Follows
  <2> QED BY <1>3, <2>1, <2>2, <2>3 DEF s
<1>4. ASSUME NEW m \in Nat, m <= n
      PROVE  h[1..m] \in A
  <2>1. 0 \in valued
    BY <1>2
  <2>2. ASSUME NEW k \in Nat, k < m, k \in valued
        PROVE  k + 1 \in valued
    <3>1. k < n /\ k <= n /\ h[1..k] \in A
      BY <1>1, <1>4, <2>2
    <3>2. h[1..(k + 1)] \in A
      BY <1>3, <3>1
    <3> QED BY <3>2
  <2> HIDE DEF valued
  <2>3. m \in valued
    BY <2>1, <2>2, UpTo
  <2> QED BY <1>4, <2>3 DEF valued
<1>5. part \in [0..n -> A] /\ part[0] = base /\ part[n] = h[DOMAIN seq]
  BY <1>1, <1>2, <1>4
<1>6. ASSUME NEW k \in Nat, k < n
      PROVE  part[k + 1] = step[<<part[k], seq[k + 1]>>]
  <2>1. k \in 0..n /\ k + 1 \in 0..n /\ h[1..k] \in A
    BY <1>1, <1>4, <1>6
  <2> QED BY <1>3, <1>6, <2>1
<1> HIDE DEF part
<1>7. PartialResults(part, step, base, seq, h[DOMAIN seq])
  BY <1>5, <1>6 DEF PartialResults
<1> QED BY <1>5, <1>7
===============================================================================
