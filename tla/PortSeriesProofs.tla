-------------------------- MODULE PortSeriesProofs --------------------------
(***************************************************************************)
(* What the intake of a channel promises for every window, every number of *)
(* ports, Reset Counts and eras, and every sequence of datagrams.          *)
(*                                                                         *)
(* The inductive invariant adds three things to the stated properties: the *)
(* items of one sequence number are ranked without gaps, so that the heap  *)
(* always has a head; lastSeq is the highest accepted number, and the era  *)
(* has accepted something exactly when it is set; and an ordinal belongs   *)
(* to the Reset Count it was given to.                                     *)
(***************************************************************************)
EXTENDS PortSeries, SequencesExt, FiniteSetTheorems, SequenceTheorems, TLAPS

(* The items of one sequence number, ranked 0, 1, 2, ... *)
AtSeq(B, s) == {i \in B : i.seq = s}

Ranked(B) ==
  \A s \in Seqs :
    /\ {i.copy : i \in AtSeq(B, s)} = 0 .. Cardinality(AtSeq(B, s)) - 1
    /\ \A i, j \in AtSeq(B, s) : i.copy = j.copy => i = j

(* A reorder heap of at most n items of era rc. *)
Heap(B, rc, n) ==
  /\ B \in SUBSET Item
  /\ IsFiniteSet(B) /\ Cardinality(B) <= n
  /\ Ranked(B)
  /\ \A i \in B : i.rc = rc

(* The accepted series of an era. *)
Series(t) ==
  /\ t.lastSeq = NoSeq => t.accepted = {}
  /\ t.lastSeq # NoSeq => t.lastSeq \in SeqsOf(t.accepted) /\ t.first # NoSeq
  /\ \A r \in t.accepted : r.seq <= t.lastSeq
  /\ ~t.dirty /\ t.lastSeq # NoSeq =>
       t.first .. t.lastSeq \subseteq SeqsOf(t.accepted)

TrackerOK(t, n) ==
  /\ t \in Tracker
  /\ Heap(t.buf, t.era, n)
  /\ Series(t)
  /\ t.stragglers <= MaxStragglers

-----------------------------------------------------------------------------
(* Facts about sets of numbers.                                            *)

(* A set of naturals has a least member. *)
LEMMA LeastOf ==
  ASSUME NEW S \in SUBSET Nat, S # {}
  PROVE  \E n \in S : \A m \in S : n <= m
<1> DEFINE R == OpToRel(<, Nat)
<1>1. PICK n \in S : \A m \in S : ~ (<<m, n>> \in R)
  <2>1. IsWellFoundedOn(R, Nat)
    BY NatLessThanWellFounded
  <2> HIDE DEF R
  <2> QED
    BY <2>1, WFMin
<1>2. \A m \in S : ~ (m < n)
  BY <1>1 DEF OpToRel
<1> QED
  BY <1>2

(* A bounded set of naturals has a greatest member. *)
LEMMA GreatestOf ==
  ASSUME NEW K \in Nat, NEW S \in SUBSET (0 .. K), S # {}
  PROVE  \E n \in S : \A m \in S : m <= n
<1> DEFINE R == {k \in 0 .. K : K - k \in S}
<1>1. PICK s \in S : TRUE
  OBVIOUS
<1>2. K - s \in R
  BY <1>1
<1>3. R \in SUBSET Nat /\ R # {}
  <2>1. \A k \in R : k \in Nat
    OBVIOUS
  <2> HIDE DEF R
  <2> QED
    BY <1>2, <2>1
<1>4. PICK r \in R : \A q \in R : r <= q
  BY <1>3, LeastOf
<1>5. K - r \in S /\ r \in 0 .. K
  BY <1>4
<1>6. \A m \in S : K - m \in R
  OBVIOUS
<1>7. \A m \in S : m <= K - r
  BY <1>4, <1>5, <1>6
<1> QED
  BY <1>5, <1>7

-----------------------------------------------------------------------------
(* The reorder heap.                                                       *)

(* A heap that holds anything has a head. *)
LEMMA HeadExists ==
  ASSUME NEW t \in Tracker, IsFiniteSet(t.buf), Ranked(t.buf), t.buf # {}
  PROVE  IsHead(t, HeadOf(t))
<1>1. SeqsOf(t.buf) \in SUBSET Nat /\ SeqsOf(t.buf) # {} /\ SeqsOf(t.buf) \subseteq Seqs
  BY SeqAssumption DEF SeqsOf, Tracker, Item, Seqs
<1>2. PICK s \in SeqsOf(t.buf) : \A m \in SeqsOf(t.buf) : s <= m
  BY <1>1, LeastOf
<1> DEFINE Q == AtSeq(t.buf, s)
<1>3. IsFiniteSet(Q) /\ Q # {} /\ Cardinality(Q) \in Nat
  BY FS_Subset, FS_CardinalityType, <1>2 DEF AtSeq, SeqsOf
<1>4. Cardinality(Q) # 0
  BY <1>3, FS_EmptySet
<1>5. 0 \in {i.copy : i \in Q}
  <2>1. {i.copy : i \in Q} = 0 .. Cardinality(Q) - 1
    BY <1>1, <1>2 DEF Ranked
  <2> DEFINE n == Cardinality(Q)
  <2>2. n \in Nat /\ n # 0
    BY <1>3, <1>4
  <2> HIDE DEF n
  <2>3. 0 \in 0 .. n - 1
    BY <2>2
  <2> QED
    BY <2>1, <2>3 DEF n
<1>6. PICK i \in Q : i.copy = 0
  BY <1>5
<1>7. IsHead(t, i)
  BY <1>2, <1>6 DEF IsHead, AtSeq, SeqsOf
<1> QED
  BY <1>7 DEF HeadOf, IsHead

(* heap.Push of a datagram of the era. *)
LEMMA PushHeap ==
  ASSUME NEW t \in Tracker, NEW d \in Datagram, Heap(t.buf, t.era, W), d.rc = t.era
  PROVE  /\ Heap(Push(t, d).buf, t.era, W + 1)
         /\ Push(t, d) = [t EXCEPT !.buf = Push(t, d).buf]
<1> DEFINE same == AtSeq(t.buf, d.seq)
           new  == [rc |-> d.rc, seq |-> d.seq, body |-> d.body, copy |-> Cardinality(same)]
           B    == t.buf \cup {new}
<1>1. Push(t, d).buf = B /\ Push(t, d) = [t EXCEPT !.buf = B]
  BY DEF Push, AtSeq, Tracker
<1>2. IsFiniteSet(t.buf) /\ Cardinality(t.buf) <= W /\ Cardinality(t.buf) \in Nat
  BY FS_CardinalityType DEF Heap
<1>3. IsFiniteSet(same) /\ Cardinality(same) \in Nat /\ Cardinality(same) <= Cardinality(t.buf)
  BY <1>2, FS_Subset, FS_CardinalityType DEF AtSeq
<1>4. new \in Item
  BY <1>2, <1>3, WindowAssumption DEF Item, Datagram
<1>5. B \in SUBSET Item /\ \A i \in B : i.rc = t.era
  BY <1>4 DEF Heap
<1>6. IsFiniteSet(B) /\ Cardinality(B) <= W + 1
  <2>1. /\ IsFiniteSet(B)
        /\ Cardinality(B) = Cardinality(t.buf) \/ Cardinality(B) = Cardinality(t.buf) + 1
    BY <1>2, FS_AddElement
  <2> HIDE DEF B
  <2> QED
    BY <2>1, <1>2, WindowAssumption
<1>7. Ranked(B)
  <2> SUFFICES ASSUME NEW s \in Seqs
               PROVE  /\ {i.copy : i \in AtSeq(B, s)} = 0 .. Cardinality(AtSeq(B, s)) - 1
                      /\ \A i, j \in AtSeq(B, s) : i.copy = j.copy => i = j
    BY DEF Ranked
  <2>0. Ranked(t.buf)
    BY DEF Heap
  <2>1. CASE s # d.seq
    <3>1. AtSeq(B, s) = AtSeq(t.buf, s)
      BY <2>1 DEF AtSeq
    <3> QED
      BY <3>1, <2>0 DEF Ranked
  <2>2. CASE s = d.seq
    <3>1. AtSeq(B, s) = same \cup {new}
      BY <2>2 DEF AtSeq
    <3>2. {i.copy : i \in same} = 0 .. Cardinality(same) - 1
      BY <2>0, <2>2 DEF Ranked
    <3>3. \A i, j \in same : i.copy = j.copy => i = j
      BY <2>0, <2>2 DEF Ranked
    <3>4. new.copy = Cardinality(same)
      OBVIOUS
    <3>5. \A i \in same : i.copy \in 0 .. Cardinality(same) - 1
      BY <3>2
    <3> HIDE DEF new
    <3>6. new \notin same
      <4> HIDE DEF same
      <4> QED
        BY <3>4, <3>5, <1>3
    <3>7. Cardinality(AtSeq(B, s)) = Cardinality(same) + 1
      BY <3>1, <3>6, <1>3, FS_AddElement
    <3> HIDE DEF same
    <3>8. {i.copy : i \in same \cup {new}} = {i.copy : i \in same} \cup {Cardinality(same)}
      BY <3>4
    <3>9. {i.copy : i \in same \cup {new}} = 0 .. Cardinality(same)
      BY <3>8, <3>2, <1>3
    <3>10. \A i, j \in same \cup {new} : i.copy = j.copy => i = j
      BY <3>3, <3>4, <3>5, <1>3
    <3>11. Cardinality(AtSeq(B, s)) - 1 = Cardinality(same)
      BY <3>7, <1>3
    <3> QED
      BY <3>1, <3>11, <3>9, <3>10
  <2> QED
    BY <2>1, <2>2
<1> QED
  BY <1>1, <1>5, <1>6, <1>7 DEF Heap

(* heap.Pop takes the head and leaves a smaller heap, still ranked. *)
LEMMA PopHeap ==
  ASSUME NEW t \in Tracker, Heap(t.buf, t.era, W + 1), t.buf # {}
  PROVE  LET h == HeadOf(t)
         IN  /\ h \in t.buf /\ h.copy = 0
             /\ Heap(Without(t, h).buf, t.era, W)
             /\ Without(t, h) = [t EXCEPT !.buf = Without(t, h).buf]
<1> DEFINE h == HeadOf(t)
           Q == AtSeq(t.buf, h.seq)
           Down(i) == [i EXCEPT !.copy = @ - 1]
           Lower(i) == IF i.seq = h.seq THEN Down(i) ELSE i
           B == {Lower(i) : i \in t.buf \ {h}}
<1>1. IsFiniteSet(t.buf) /\ Ranked(t.buf) /\ t.buf \in SUBSET Item
      /\ Cardinality(t.buf) \in Nat /\ Cardinality(t.buf) <= W + 1
  BY FS_CardinalityType DEF Heap
<1>2. h \in t.buf /\ h.copy = 0 /\ h \in Item
  BY <1>1, HeadExists DEF IsHead
<1>3. Without(t, h).buf = B /\ Without(t, h) = [t EXCEPT !.buf = B]
  BY DEF Without, Tracker
<1>4. IsFiniteSet(Q) /\ Cardinality(Q) \in Nat /\ h \in Q /\ h.seq \in Seqs
  BY <1>1, <1>2, FS_Subset, FS_CardinalityType DEF AtSeq, Item
<1>5. {i.copy : i \in Q} = 0 .. Cardinality(Q) - 1 /\ \A i, j \in Q : i.copy = j.copy => i = j
  BY <1>1, <1>4 DEF Ranked
<1>6. \A i \in Q \ {h} : i.copy \in 1 .. Cardinality(Q) - 1
  <2> HIDE DEF Q, h
  <2> SUFFICES ASSUME NEW i \in Q \ {h} PROVE i.copy \in 1 .. Cardinality(Q) - 1
    OBVIOUS
  <2>1. i.copy \in 0 .. Cardinality(Q) - 1
    BY <1>5
  <2>2. i.copy # 0
    BY <1>2, <1>4, <1>5
  <2> QED
    BY <2>1, <2>2, <1>4
<1>7. \A i \in t.buf \ {h} : Lower(i) \in Item /\ Lower(i).rc = i.rc /\ Lower(i).seq = i.seq
  <2> SUFFICES ASSUME NEW i \in t.buf \ {h}
               PROVE  Lower(i) \in Item /\ Lower(i).rc = i.rc /\ Lower(i).seq = i.seq
    OBVIOUS
  <2>1. i \in Item
    BY <1>1
  <2>2. CASE i.seq # h.seq
    BY <2>1, <2>2
  <2>3. CASE i.seq = h.seq
    <3>1. i.copy \in 1 .. Cardinality(Q) - 1
      BY <2>3, <1>6 DEF AtSeq
    <3>2. i.copy - 1 \in 0 .. W
      BY <3>1, <2>1, <1>4, WindowAssumption DEF Item
    <3>3. Lower(i) = [i EXCEPT !.copy = i.copy - 1]
      BY <2>3
    <3> HIDE DEF Lower, Q, h
    <3> QED
      BY <3>2, <3>3, <2>1 DEF Item
  <2> QED
    BY <2>2, <2>3
<1>8. B \in SUBSET Item /\ \A i \in B : i.rc = t.era
  <2> HIDE DEF Lower, h
  <2> QED
    BY <1>7 DEF Heap
<1>9. IsFiniteSet(B) /\ Cardinality(B) <= W
  <2>1. IsFiniteSet(t.buf \ {h}) /\ Cardinality(t.buf \ {h}) = Cardinality(t.buf) - 1
    BY <1>1, <1>2, FS_RemoveElement
  <2> DEFINE f == [i \in t.buf \ {h} |-> Lower(i)]
  <2>2. f \in Surjection(t.buf \ {h}, B)
    <3> HIDE DEF Lower, h
    <3> QED
      BY DEF Surjection
  <2> HIDE DEF B, f, h
  <2>3. IsFiniteSet(B) /\ Cardinality(B) <= Cardinality(t.buf \ {h})
    BY <2>1, <2>2, FS_Surjection
  <2>4. Cardinality(B) \in Nat
    BY <2>3, FS_CardinalityType
  <2> QED
    BY <2>1, <2>3, <2>4, <1>1, WindowAssumption
<1>10. Ranked(B)
  <2> SUFFICES ASSUME NEW s \in Seqs
               PROVE  /\ {i.copy : i \in AtSeq(B, s)} = 0 .. Cardinality(AtSeq(B, s)) - 1
                      /\ \A i, j \in AtSeq(B, s) : i.copy = j.copy => i = j
    BY DEF Ranked
  <2>1. CASE s # h.seq
    <3>1. \A i \in t.buf \ {h} : i.seq = s => Lower(i) = i
      BY <2>1
    <3>2. AtSeq(B, s) = AtSeq(t.buf, s)
      <4> HIDE DEF Lower, h
      <4> QED
        BY <2>1, <3>1, <1>7, <1>2 DEF AtSeq
    <3> HIDE DEF B
    <3> QED
      BY <3>2, <1>1 DEF Ranked
  <2>2. CASE s = h.seq
    <3> DEFINE R == {Down(i) : i \in Q \ {h}}
    <3>1. AtSeq(B, s) = R
      <4>1. \A i \in Q \ {h} : i \in t.buf \ {h} /\ Lower(i) = Down(i)
        BY DEF AtSeq
      <4>2. \A i \in t.buf \ {h} : i.seq = s => i \in Q \ {h}
        BY <2>2 DEF AtSeq
      <4>3. \A i \in Q \ {h} : i.seq = s
        BY <2>2 DEF AtSeq
      <4> HIDE DEF Lower, Down, h, Q
      <4> QED
        BY <4>1, <4>2, <4>3, <1>7 DEF AtSeq
    <3>2. Q \subseteq Item
      BY <1>1 DEF AtSeq
    <3>3. \A i \in Q : Down(i).copy = i.copy - 1
      BY <3>2 DEF Item
    <3>4. \A i \in Q : i.copy \in Int
      BY <3>2 DEF Item
    <3> HIDE DEF Down, Q, h
    <3>5. \A i, j \in Q \ {h} : Down(i).copy = Down(j).copy => i = j
      BY <3>3, <3>4, <1>5
    <3>51. \A x, y \in R : x.copy = y.copy => x = y
      BY <3>5
    <3>6. Cardinality(R) = Cardinality(Q) - 1
      <4> DEFINE f == [i \in Q \ {h} |-> Down(i)]
      <4>1. f \in Surjection(Q \ {h}, R)
        BY DEF Surjection
      <4>2. \A i, j \in Q \ {h} : f[i] = f[j] => i = j
        BY <3>5
      <4>3. f \in Injection(Q \ {h}, R)
        BY <4>2 DEF Injection, IsInjective
      <4>4. IsFiniteSet(Q \ {h}) /\ Cardinality(Q \ {h}) = Cardinality(Q) - 1
        BY <1>4, FS_RemoveElement
      <4> HIDE DEF f, R
      <4> QED
        BY <4>1, <4>3, <4>4, FS_Surjection
    <3>7. {x.copy : x \in R} = 0 .. Cardinality(Q) - 2
      <4>1. \A x \in R : x.copy \in 0 .. Cardinality(Q) - 2
        <5> SUFFICES ASSUME NEW i \in Q \ {h}
                     PROVE  Down(i).copy \in 0 .. Cardinality(Q) - 2
          OBVIOUS
        <5>1. i.copy \in 1 .. Cardinality(Q) - 1 /\ Down(i).copy = i.copy - 1
          BY <1>6, <3>3
        <5> QED
          BY <5>1, <1>4
      <4>2. ASSUME NEW c \in 0 .. Cardinality(Q) - 2
            PROVE  \E x \in R : x.copy = c
        <5>1. c + 1 \in 0 .. Cardinality(Q) - 1
          BY <1>4
        <5>2. PICK i \in Q : i.copy = c + 1
          BY <5>1, <1>5
        <5>3. i # h
          BY <5>2, <1>2
        <5>4. Down(i).copy = c
          BY <5>2, <3>3
        <5> QED
          BY <5>3, <5>4
      <4> HIDE DEF R
      <4> QED
        BY <4>1, <4>2
    <3> HIDE DEF R, B
    <3>8. Cardinality(R) - 1 = Cardinality(Q) - 2
      BY <3>6, <1>4
    <3> QED
      BY <3>1, <3>51, <3>7, <3>8
  <2> QED
    BY <2>1, <2>2
<1> QED
  BY <1>2, <1>3, <1>8, <1>9, <1>10 DEF Heap

-----------------------------------------------------------------------------
(* The classifier.                                                         *)

(* The numbers of a batch: the lowest and the highest exist. *)
LEMMA BatchBounds ==
  ASSUME NEW F \in SUBSET Item, NEW last \in {NoSeq} \cup Seqs
  PROVE  /\ SeqsOf(F) \in SUBSET (0 .. MaxSeq)
         /\ F # {} => /\ LowestOf(F) \in SeqsOf(F)
                      /\ \A n \in SeqsOf(F) : LowestOf(F) <= n
         /\ \/ HighestOf(last, F) = last /\ \A n \in SeqsOf(F) : n <= last
            \/ /\ HighestOf(last, F) \in SeqsOf(F) /\ HighestOf(last, F) > last
               /\ \A n \in SeqsOf(F) : n <= HighestOf(last, F)
<1>1. SeqsOf(F) \in SUBSET (0 .. MaxSeq)
  BY DEF SeqsOf, Item, Seqs
<1>2. ASSUME F # {}
      PROVE  /\ LowestOf(F) \in SeqsOf(F)
             /\ \A n \in SeqsOf(F) : LowestOf(F) <= n
  <2>1. SeqsOf(F) # {}
    BY <1>2 DEF SeqsOf
  <2>2. \E n \in SeqsOf(F) : \A m \in SeqsOf(F) : n <= m
    BY <1>1, <2>1, LeastOf
  <2> QED
    BY <2>2 DEF LowestOf
<1>3. CASE \E f \in F : f.seq > last
  <2>1. PICK f \in F : f.seq > last
    BY <1>3
  <2>2. f.seq \in SeqsOf(F)
    BY DEF SeqsOf
  <2>3. \E n \in SeqsOf(F) : \A m \in SeqsOf(F) : m <= n
    BY <1>1, <2>2, GreatestOf, SeqAssumption
  <2> DEFINE top == CHOOSE n \in SeqsOf(F) : \A m \in SeqsOf(F) : m <= n
  <2>4. top \in SeqsOf(F) /\ \A m \in SeqsOf(F) : m <= top
    BY <2>3
  <2>5. HighestOf(last, F) = top
    BY <1>3 DEF HighestOf
  <2> HIDE DEF top
  <2>6. top > last
    BY <2>1, <2>2, <2>4, <1>1 DEF NoSeq, Seqs
  <2> QED
    BY <1>1, <1>2, <2>4, <2>5, <2>6
<1>4. CASE ~ \E f \in F : f.seq > last
  <2>1. HighestOf(last, F) = last
    BY <1>4 DEF HighestOf
  <2>2. \A n \in SeqsOf(F) : n \in Int /\ ~(n > last)
    BY <1>1, <1>4 DEF SeqsOf
  <2>3. \A n \in SeqsOf(F) : n <= last
    BY <2>2 DEF NoSeq, Seqs
  <2> QED
    BY <1>1, <1>2, <2>1, <2>3
<1> QED
  BY <1>3, <1>4

(* Without a gap, a batch fills every number between lastSeq and its top. *)
LEMMA BatchHasNoHole ==
  ASSUME NEW t \in Tracker, NEW F \in SUBSET Item, ~HasGap(t, F),
         NEW k \in Nat, NEW top \in SeqsOf(F),
         t.lastSeq < k, k <= top,
         t.lastSeq = NoSeq => LowestOf(F) <= k
  PROVE  k \in SeqsOf(F)
<1> SUFFICES ASSUME k \notin SeqsOf(F) PROVE FALSE
  OBVIOUS
<1> DEFINE above == {n \in SeqsOf(F) : n > k}
<1>1. SeqsOf(F) \in SUBSET Nat
  BY BatchBounds, SeqAssumption DEF Tracker
<1>2. top \in above
  BY <1>1
<1>3. above \in SUBSET Nat /\ above # {}
  BY <1>1, <1>2
<1>4. PICK m \in above : \A n \in above : m <= n
  BY <1>3, LeastOf
<1>5. m \in SeqsOf(F) /\ m \in Nat /\ m > k
  BY <1>3, <1>4
<1>6. m - 1 \notin SeqsOf(F)
  <2>1. m - 1 \in SeqsOf(F) => m - 1 = k \/ m - 1 \in above
    BY <1>5
  <2> HIDE DEF above
  <2> QED
    BY <2>1, <1>4, <1>5
<1>7. PICK f \in F : f.seq = m
  BY <1>5 DEF SeqsOf
<1>8. t.lastSeq \in {NoSeq} \cup Seqs
  BY DEF Tracker
<1>9. f.seq > t.lastSeq /\ m - 1 # t.lastSeq
  BY <1>5, <1>7, <1>8 DEF NoSeq, Seqs
<1>10. t.lastSeq = NoSeq /\ \A g \in F : ~(g.seq < f.seq)
  BY <1>6, <1>7, <1>9 DEF HasGap
<1>11. LowestOf(F) \in SeqsOf(F) /\ LowestOf(F) \in Nat
  BY <1>1, <1>7, <1>8, BatchBounds
<1>12. LowestOf(F) < m
  BY <1>10, <1>11, <1>5
<1> QED
  BY <1>7, <1>10, <1>11, <1>12 DEF SeqsOf

(* Classifying a batch touches the series only, and keeps it sound. *)
LEMMA ClassifySeries ==
  ASSUME NEW t \in Tracker, Series(t), NEW S \in SUBSET Item
  PROVE  LET u == Classify(t, S)
         IN  /\ u \in Tracker /\ Series(u)
             /\ u.buf = t.buf /\ u.era = t.era /\ u.eraPos = t.eraPos
             /\ u.floorPos = t.floorPos /\ u.stragglers = t.stragglers
<1> DEFINE F == FreshOf(t, S)
           H == HighestOf(t.lastSeq, F)
           low == IF t.lastSeq = NoSeq /\ F # {} THEN LowestOf(F) ELSE t.first
           acc == t.accepted \cup {[seq |-> f.seq, body |-> f.body] : f \in F}
           dirt == t.dirty \/ HasGap(t, F)
           u == Classify(t, S)
<1>1. F \in SUBSET Item
  BY DEF FreshOf
<1>2. t.lastSeq \in {NoSeq} \cup Seqs /\ t.first \in {NoSeq} \cup Seqs
      /\ t.dirty \in BOOLEAN /\ t.accepted \in SUBSET Accepted
  BY DEF Tracker
<1>3. u = [t EXCEPT !.lastSeq = H, !.first = low, !.accepted = acc, !.dirty = dirt]
  BY DEF Classify
<1>4. /\ SeqsOf(F) \in SUBSET Seqs
      /\ F # {} => LowestOf(F) \in SeqsOf(F) /\ \A n \in SeqsOf(F) : LowestOf(F) <= n
      /\ \/ H = t.lastSeq /\ \A n \in SeqsOf(F) : n <= t.lastSeq
         \/ H \in SeqsOf(F) /\ H > t.lastSeq /\ \A n \in SeqsOf(F) : n <= H
  BY <1>1, <1>2, BatchBounds DEF Seqs
<1>5. H \in {NoSeq} \cup Seqs /\ low \in {NoSeq} \cup Seqs /\ dirt \in BOOLEAN
  <2>1. H \in {NoSeq} \cup Seqs
    BY <1>2, <1>4
  <2>2. low \in {NoSeq} \cup Seqs
    BY <1>2, <1>4
  <2>3. dirt \in BOOLEAN
    BY <1>2 DEF HasGap
  <2> QED
    BY <2>1, <2>2, <2>3
<1>6. acc \in SUBSET Accepted
  BY <1>1, <1>2 DEF Accepted, Item
<1>7. SeqsOf(acc) = SeqsOf(t.accepted) \cup SeqsOf(F)
  <2> DEFINE Record(f) == [seq |-> f.seq, body |-> f.body]
  <2>1. \A f \in F : Record(f) \in acc /\ Record(f).seq = f.seq
    OBVIOUS
  <2>2. \A r \in acc : r \in t.accepted \/ \E f \in F : r = Record(f)
    OBVIOUS
  <2>3. t.accepted \subseteq acc
    OBVIOUS
  <2> HIDE DEF F, acc, Record
  <2> QED
    BY <2>1, <2>2, <2>3 DEF SeqsOf
<1> HIDE DEF F, H, low, acc, dirt
<1>8. /\ u \in Tracker
      /\ u.lastSeq = H /\ u.first = low /\ u.accepted = acc /\ u.dirty = dirt
      /\ u.buf = t.buf /\ u.era = t.era /\ u.eraPos = t.eraPos
      /\ u.floorPos = t.floorPos /\ u.stragglers = t.stragglers
  BY <1>3, <1>5, <1>6 DEF Tracker
<1> HIDE DEF u
<1>9. H = NoSeq => acc = {}
  <2> SUFFICES ASSUME H = NoSeq PROVE acc = {}
    OBVIOUS
  <2>1. H = t.lastSeq /\ SeqsOf(F) = {}
    BY <1>2, <1>4 DEF NoSeq, Seqs
  <2>2. F = {} /\ t.accepted = {}
    BY <2>1 DEF SeqsOf, Series
  <2> QED
    BY <2>2 DEF acc
<1>10. H # NoSeq => H \in SeqsOf(acc) /\ low # NoSeq
  <2> SUFFICES ASSUME H # NoSeq PROVE H \in SeqsOf(acc) /\ low # NoSeq
    OBVIOUS
  <2>1. CASE H = t.lastSeq
    BY <2>1, <1>7 DEF Series, low
  <2>2. CASE H \in SeqsOf(F)
    <3>1. F # {}
      BY <2>2 DEF SeqsOf
    <3>2. LowestOf(F) # NoSeq
      BY <3>1, <1>4 DEF NoSeq, Seqs
    <3>3. low # NoSeq
      BY <3>1, <3>2 DEF low, Series
    <3> QED
      BY <2>2, <3>3, <1>7
  <2> QED
    BY <2>1, <2>2, <1>4
<1>11. \A r \in acc : r.seq <= H
  <2> SUFFICES ASSUME NEW r \in acc PROVE r.seq <= H
    OBVIOUS
  <2>1. r.seq \in SeqsOf(acc) /\ r.seq \in Seqs
    BY <1>6 DEF SeqsOf, Accepted
  <2>2. r.seq \in SeqsOf(t.accepted) => r.seq <= t.lastSeq
    BY DEF SeqsOf, Series
  <2>3. r.seq \in SeqsOf(F) => r.seq <= H
    BY <1>4
  <2>4. t.lastSeq <= H
    BY <1>2, <1>4 DEF NoSeq, Seqs
  <2> QED
    BY <2>1, <2>2, <2>3, <2>4, <1>2, <1>5, <1>7 DEF NoSeq, Seqs
<1>12. ~dirt /\ H # NoSeq => low .. H \subseteq SeqsOf(acc)
  <2> SUFFICES ASSUME ~dirt, H # NoSeq, NEW k \in low .. H PROVE k \in SeqsOf(acc)
    OBVIOUS
  <2>1. low \in Seqs /\ H \in Seqs /\ k \in Nat /\ k <= H /\ low <= k
    BY <1>5, <1>10 DEF NoSeq, Seqs
  <2>2. CASE t.lastSeq # NoSeq /\ k <= t.lastSeq
    <3>1. low = t.first /\ ~t.dirty
      BY <2>2 DEF low, dirt
    <3>2. k \in t.first .. t.lastSeq
      BY <2>1, <2>2, <3>1, <1>2 DEF Seqs, NoSeq
    <3> QED
      BY <2>2, <3>1, <3>2, <1>7 DEF Series
  <2>3. CASE ~(t.lastSeq # NoSeq /\ k <= t.lastSeq)
    <3>1. t.lastSeq < k
      BY <2>3, <2>1, <1>2 DEF Seqs, NoSeq
    <3>2. H \in SeqsOf(F)
      BY <3>1, <2>1, <1>2, <1>4 DEF Seqs, NoSeq
    <3>3. ~HasGap(t, F)
      BY DEF dirt
    <3>4. t.lastSeq = NoSeq => LowestOf(F) <= k
      BY <3>2, <2>1 DEF low, SeqsOf
    <3>5. k \in SeqsOf(F)
      BY <3>1, <3>2, <3>3, <3>4, <2>1, <1>1, BatchHasNoHole
    <3> QED
      BY <3>5, <1>7
  <2> QED
    BY <2>2, <2>3
<1>13. Series(u)
  BY <1>8, <1>9, <1>10, <1>11, <1>12 DEF Series
<1> QED
  BY <1>8, <1>13 DEF u

-----------------------------------------------------------------------------
(* The operations of one tracker.                                          *)

(* The heap of a port that buffers nothing. *)
LEMMA EmptyHeap ==
  ASSUME NEW rc, NEW n \in Nat
  PROVE  Heap({}, rc, n)
<1>1. IsFiniteSet({}) /\ Cardinality({}) = 0
  BY FS_EmptySet
<1>2. Ranked({})
  <2> SUFFICES ASSUME NEW s \in Seqs
               PROVE  /\ {i.copy : i \in AtSeq({}, s)} = 0 .. Cardinality(AtSeq({}, s)) - 1
                      /\ \A i, j \in AtSeq({}, s) : i.copy = j.copy => i = j
    BY DEF Ranked
  <2>1. AtSeq({}, s) = {}
    BY DEF AtSeq
  <2>2. 0 .. Cardinality({}) - 1 = {}
    BY <1>1
  <2> QED
    BY <2>1, <2>2
<1> QED
  BY <1>1, <1>2 DEF Heap

(* drainAll and classifyDrained: the buffer empties into the series. *)
LEMMA DrainedOK ==
  ASSUME NEW t, TrackerOK(t, W)
  PROVE  /\ TrackerOK(Drained(t), W)
         /\ Drained(t).buf = {} /\ Drained(t).era = t.era
         /\ Drained(t).eraPos = t.eraPos /\ Drained(t).floorPos = t.floorPos
<1> DEFINE u == Classify(t, t.buf)
<1>1. t \in Tracker /\ Series(t) /\ t.buf \in SUBSET Item /\ t.stragglers <= MaxStragglers
  BY DEF TrackerOK, Tracker
<1>2. /\ u \in Tracker /\ Series(u)
      /\ u.buf = t.buf /\ u.era = t.era /\ u.eraPos = t.eraPos
      /\ u.floorPos = t.floorPos /\ u.stragglers = t.stragglers
  BY <1>1, ClassifySeries
<1>3. Drained(t) = [u EXCEPT !.buf = {}]
  BY DEF Drained
<1> HIDE DEF u
<1>4. /\ Drained(t) \in Tracker
      /\ Drained(t).buf = {} /\ Drained(t).era = t.era
      /\ Drained(t).eraPos = t.eraPos /\ Drained(t).floorPos = t.floorPos
      /\ Drained(t).stragglers = t.stragglers
  BY <1>2, <1>3 DEF Tracker
<1>5. Series(Drained(t))
  BY <1>2, <1>3 DEF Tracker, Series
<1> QED
  BY <1>1, <1>4, <1>5, EmptyHeap, WindowAssumption DEF TrackerOK

(* Push and pop past the window: the buffer never exceeds it. *)
LEMMA IntakeOK ==
  ASSUME NEW t, TrackerOK(t, W), NEW d \in Datagram, d.rc = t.era
  PROVE  /\ TrackerOK(Intake(t, d), W)
         /\ Intake(t, d).era = t.era /\ Intake(t, d).eraPos = t.eraPos
         /\ Intake(t, d).floorPos = t.floorPos /\ Intake(t, d).stragglers = t.stragglers
<1> DEFINE q == Push(t, d)
           h == HeadOf(q)
           r == Without(q, h)
           u == Classify(r, {h})
<1>1. t \in Tracker /\ Series(t) /\ Heap(t.buf, t.era, W) /\ t.stragglers <= MaxStragglers
  BY DEF TrackerOK
<1>2. Heap(q.buf, t.era, W + 1) /\ q = [t EXCEPT !.buf = q.buf]
  BY <1>1, PushHeap
<1> HIDE DEF q
<1>3. q.buf \in SUBSET Item
  BY <1>2 DEF Heap
<1>4. /\ q \in Tracker /\ Series(q)
      /\ q.era = t.era /\ q.eraPos = t.eraPos
      /\ q.floorPos = t.floorPos /\ q.stragglers = t.stragglers
  <2> DEFINE b == q.buf
  <2>1. q = [t EXCEPT !.buf = b] /\ b \in SUBSET Item
    BY <1>2, <1>3
  <2> HIDE DEF b
  <2> QED
    BY <1>1, <2>1 DEF Tracker, Series
<1>5. IsFiniteSet(q.buf) /\ Cardinality(q.buf) \in Nat
  BY <1>2, FS_CardinalityType DEF Heap
<1>6. CASE ~Overflows(q)
  <2>1. Intake(t, d) = q
    BY <1>6 DEF Intake, q
  <2>2. Cardinality(q.buf) <= W
    BY <1>5, <1>6, WindowAssumption DEF Overflows
  <2> QED
    BY <1>1, <1>2, <1>4, <2>1, <2>2 DEF TrackerOK, Heap
<1>7. CASE Overflows(q)
  <2>1. Intake(t, d) = u
    BY <1>7 DEF Intake, PopAndClassify, q
  <2>2. q.buf # {}
    BY <1>5, <1>7, FS_EmptySet, WindowAssumption DEF Overflows
  <2>3. h \in q.buf /\ Heap(r.buf, q.era, W) /\ r = [q EXCEPT !.buf = r.buf]
    BY <1>2, <1>4, <2>2, PopHeap
  <2> HIDE DEF r, h
  <2>4. /\ r \in Tracker /\ Series(r)
        /\ r.era = t.era /\ r.eraPos = t.eraPos
        /\ r.floorPos = t.floorPos /\ r.stragglers = t.stragglers
    <3> DEFINE b == r.buf
    <3>1. r = [q EXCEPT !.buf = b] /\ b \in SUBSET Item
      BY <2>3 DEF Heap
    <3> HIDE DEF b
    <3> QED
      BY <1>4, <3>1 DEF Tracker, Series
  <2>5. {h} \in SUBSET Item
    BY <1>3, <2>3
  <2>6. /\ u \in Tracker /\ Series(u)
        /\ u.buf = r.buf /\ u.era = r.era /\ u.eraPos = r.eraPos
        /\ u.floorPos = r.floorPos /\ u.stragglers = r.stragglers
    BY <2>4, <2>5, ClassifySeries
  <2> HIDE DEF u
  <2> QED
    BY <1>1, <1>4, <2>1, <2>3, <2>4, <2>6 DEF TrackerOK
<1> QED
  BY <1>6, <1>7

-----------------------------------------------------------------------------
(* The order of the eras.                                                  *)

PortsInv ==
  /\ pt \in [Ports -> Tracker]
  /\ \A p \in Ports : TrackerOK(pt[p], W)
  /\ \A p \in Ports : pt[p].eraPos = 0 => pt[p].buf = {}

(* An ordinal that is still the latest of some Reset Count belongs to the  *)
(* ports in that Reset Count alone.                                        *)
OrderInv ==
  /\ pos \in [ResetCounts -> Nat] /\ next \in Nat
  /\ \A a \in ResetCounts : pos[a] <= next
  /\ \A p \in Ports : pt[p].eraPos <= next
  /\ \A p \in Ports, a \in ResetCounts :
       pt[p].eraPos # 0 /\ pos[a] = pt[p].eraPos => a = pt[p].era
  /\ OrdinalsNameEras

IInv == PortsInv /\ OrderInv

(* A port that enters an era takes an ordinal past the one it comes from,  *)
(* and the order stays an order, whether it joins or starts the era.       *)
LEMMA EnterOrder ==
  ASSUME PortsInv, OrderInv, NEW p \in Ports, NEW rc \in ResetCounts,
         NEW from \in Nat, from <= next, Enter(rc, from),
         NEW u \in Tracker, u.era = rc, u.eraPos = OrdinalFor(rc, from),
         pt' = [pt EXCEPT ![p] = u]
  PROVE  OrderInv' /\ u.eraPos > from /\ OrdinalFor(rc, from) \in Nat
<1> DEFINE o == OrdinalFor(rc, from)
<1>1. /\ pos \in [ResetCounts -> Nat] /\ next \in Nat
      /\ \A a \in ResetCounts : pos[a] \in Nat /\ pos[a] <= next
      /\ \A q \in Ports : pt[q].eraPos \in Nat /\ pt[q].eraPos <= next
      /\ pt \in [Ports -> Tracker]
  BY DEF OrderInv, PortsInv, Tracker
<1>2. CASE Joins(rc, from)
  <2>1. o = pos[rc] /\ pos' = pos /\ next' = next /\ pos[rc] > from
    BY <1>2 DEF OrdinalFor, Enter, Joins
  <2>2. \A q \in Ports : q # p => pt'[q] = pt[q]
    BY <1>1
  <2>3. pt'[p] = u
    BY <1>1
  <2>4. o # 0 /\ o \in Nat /\ o <= next
    BY <1>1, <2>1
  <2>5. \A q \in Ports : pt'[q].eraPos <= next'
    BY <1>1, <2>1, <2>2, <2>3, <2>4
  <2>6. \A q \in Ports, a \in ResetCounts :
          pt'[q].eraPos # 0 /\ pos'[a] = pt'[q].eraPos => a = pt'[q].era
    BY <2>1, <2>2, <2>3, <2>4 DEF OrderInv, OrdinalsNameEras
  <2>7. OrdinalsNameEras'
    <3> SUFFICES ASSUME NEW q \in Ports, q # p, pt[q].eraPos = o PROVE pt[q].era = rc
      BY <2>1, <2>2, <2>3 DEF OrderInv, OrdinalsNameEras
    <3> QED
      BY <2>1, <2>4 DEF OrderInv
  <2> QED
    BY <1>1, <2>1, <2>4, <2>5, <2>6, <2>7 DEF OrderInv
<1>3. CASE ~Joins(rc, from)
  <2>1. o = next + 1 /\ next' = next + 1 /\ pos' = [pos EXCEPT ![rc] = next + 1]
    BY <1>3 DEF OrdinalFor, Enter
  <2>2. \A q \in Ports : q # p => pt'[q] = pt[q]
    BY <1>1
  <2>3. pt'[p] = u
    BY <1>1
  <2>4. o # 0 /\ o \in Nat /\ o > from
    BY <1>1, <2>1
  <2>5. /\ pos' \in [ResetCounts -> Nat] /\ next' \in Nat /\ pos'[rc] = o
        /\ \A a \in ResetCounts : a # rc => pos'[a] = pos[a] /\ pos'[a] < o
        /\ \A a \in ResetCounts : pos'[a] <= next'
    BY <1>1, <2>1
  <2>6. \A q \in Ports : q # p => pt'[q].eraPos < o
    BY <1>1, <2>1, <2>2
  <2>7. \A q \in Ports : pt'[q].eraPos <= next'
    BY <1>1, <2>1, <2>2, <2>3
  <2>8. \A q \in Ports, a \in ResetCounts :
          pt'[q].eraPos # 0 /\ pos'[a] = pt'[q].eraPos => a = pt'[q].era
    <3> SUFFICES ASSUME NEW q \in Ports, NEW a \in ResetCounts,
                        pt'[q].eraPos # 0, pos'[a] = pt'[q].eraPos
                 PROVE  a = pt'[q].era
      OBVIOUS
    <3>1. CASE q = p
      BY <3>1, <2>3, <2>4, <2>5
    <3>2. CASE q # p
      BY <3>2, <2>2, <2>4, <2>5, <2>6 DEF OrderInv
    <3> QED
      BY <3>1, <3>2
  <2>9. OrdinalsNameEras'
    <3>1. ASSUME NEW a \in ResetCounts, NEW b \in ResetCounts,
                 pos'[a] = pos'[b], pos'[a] # 0
          PROVE  a = b
      BY <3>1, <2>4, <2>5 DEF OrderInv, OrdinalsNameEras
    <3>2. ASSUME NEW q \in Ports, NEW r \in Ports,
                 pt'[q].eraPos = pt'[r].eraPos, pt'[q].eraPos # 0
          PROVE  pt'[q].era = pt'[r].era
      BY <3>2, <2>2, <2>3, <2>4, <2>6 DEF OrderInv, OrdinalsNameEras
    <3> QED
      BY <3>1, <3>2 DEF OrdinalsNameEras
  <2> QED
    BY <2>1, <2>4, <2>5, <2>7, <2>8, <2>9 DEF OrderInv
<1> QED
  BY <1>2, <1>3

(* A step that moves no port between eras leaves the order as it is. *)
LEMMA SameErasOrder ==
  ASSUME OrderInv, UNCHANGED <<pos, next>>,
         \A p \in Ports : pt'[p].eraPos = pt[p].eraPos /\ pt'[p].era = pt[p].era
  PROVE  OrderInv'
BY DEF OrderInv, OrdinalsNameEras

-----------------------------------------------------------------------------
(* The intake starts with no datagram and no era. *)
LEMMA InitIInv == Init => IInv
<1> SUFFICES ASSUME Init PROVE IInv
  OBVIOUS
<1>1. MaxStragglers \in Nat
  BY WindowAssumption DEF MaxStragglers
<1>2. NewTracker \in Tracker
  BY ResetAssumption DEF NewTracker, Tracker, NoSeq
<1>3. TrackerOK(NewTracker, W)
  BY <1>1, <1>2, EmptyHeap, WindowAssumption DEF TrackerOK, NewTracker, Series, NoSeq
<1>4. PortsInv
  BY <1>2, <1>3 DEF Init, PortsInv, NewTracker
<1>5. OrderInv
  BY DEF Init, OrderInv, OrdinalsNameEras, NewTracker
<1> QED
  BY <1>4, <1>5 DEF IInv

(* One tracker is replaced by a sound one. *)
LEMMA PortReplaced ==
  ASSUME PortsInv, NEW p \in Ports, NEW u, TrackerOK(u, W), u.eraPos # 0,
         pt' = [pt EXCEPT ![p] = u]
  PROVE  PortsInv'
<1>1. u \in Tracker
  BY DEF TrackerOK
<1>2. pt' \in [Ports -> Tracker] /\ pt'[p] = u /\ \A q \in Ports : q # p => pt'[q] = pt[q]
  BY <1>1 DEF PortsInv
<1> QED
  BY <1>2 DEF PortsInv

(* What the first datagram of a port does to the tracker before it is      *)
(* pushed. *)
LEMMA SeededOK ==
  ASSUME IInv, NEW p \in Ports, NEW d \in Datagram, Seeds(p, d)
  PROVE  LET t == Opened(p, d)
         IN  /\ TrackerOK(t, W) /\ t.era = d.rc /\ t.eraPos = OrdinalFor(d.rc, 0)
             /\ t.eraPos # 0 /\ t.buf = {} /\ t.accepted = pt[p].accepted
<1> DEFINE o == OrdinalFor(d.rc, 0)
           t == Opened(p, d)
<1>1. /\ pt[p] \in Tracker /\ TrackerOK(pt[p], W) /\ pt[p].buf = {}
      /\ d.rc \in ResetCounts
      /\ pos \in [ResetCounts -> Nat] /\ next \in Nat
  BY DEF IInv, PortsInv, OrderInv, Seeds, Datagram
<1>2. o \in Nat /\ o > 0 /\ o - 1 \in Nat
  <2>1. o \in Nat /\ o > 0
    BY <1>1 DEF OrdinalFor, Joins
  <2> HIDE DEF o
  <2> QED
    BY <2>1
<1>3. t = [pt[p] EXCEPT !.era = d.rc, !.eraPos = o, !.floorPos = o - 1]
  <2>1. ~Advances(p, d)
    BY <1>1 DEF Advances, Seeds
  <2>2. t = Seeded(pt[p], d.rc)
    BY <1>1, <2>1 DEF Opened
  <2> QED
    BY <2>2 DEF Seeded
<1> HIDE DEF o, t
<1>4. /\ t \in Tracker /\ t.buf = {} /\ t.era = d.rc /\ t.eraPos = o
      /\ t.stragglers = pt[p].stragglers /\ t.accepted = pt[p].accepted
  BY <1>1, <1>2, <1>3 DEF Tracker
<1>5. Series(t)
  BY <1>1, <1>3 DEF TrackerOK, Tracker, Series
<1>6. TrackerOK(t, W)
  BY <1>1, <1>4, <1>5, EmptyHeap, WindowAssumption DEF TrackerOK
<1> QED
  BY <1>2, <1>4, <1>6 DEF o, t

(* The first datagram of a port opens its era. *)
LEMMA SeedIInv ==
  ASSUME IInv, NEW p \in Ports, NEW d \in Datagram, Seed(p, d)
  PROVE  IInv'
<1> DEFINE t == Opened(p, d)
           u == Intake(t, d)
<1>1. d.rc \in ResetCounts /\ Enter(d.rc, 0) /\ Seeds(p, d) /\ next \in Nat
  BY DEF IInv, OrderInv, Seed, Seeds, Datagram
<1>2. pt' = [pt EXCEPT ![p] = u]
  BY DEF Seed
<1>3. TrackerOK(t, W) /\ t.era = d.rc /\ t.eraPos = OrdinalFor(d.rc, 0) /\ t.eraPos # 0
  BY <1>1, SeededOK
<1> HIDE DEF t
<1>4. TrackerOK(u, W) /\ u.era = d.rc /\ u.eraPos = OrdinalFor(d.rc, 0) /\ u.eraPos # 0
  BY <1>3, IntakeOK
<1> HIDE DEF u
<1>5. u \in Tracker
  BY <1>4 DEF TrackerOK
<1>6. PortsInv'
  BY <1>2, <1>4, PortReplaced DEF IInv
<1>7. PortsInv /\ OrderInv /\ 0 \in Nat /\ 0 <= next
  BY <1>1 DEF IInv
<1>8. OrderInv'
  BY <1>1, <1>2, <1>4, <1>5, <1>7, EnterOrder
<1> QED
  BY <1>6, <1>8 DEF IInv

(* What a datagram of the port's era does to the tracker before it is      *)
(* pushed. *)
LEMMA ReceivedOK ==
  ASSUME IInv, NEW p \in Ports, NEW d \in Datagram, pt[p].eraPos # 0, ~OtherEra(pt[p], d)
  PROVE  LET t == Opened(p, d)
         IN  /\ TrackerOK(t, W) /\ t.era = d.rc
             /\ t.era = pt[p].era /\ t.eraPos = pt[p].eraPos
             /\ t.buf = pt[p].buf /\ t.accepted = pt[p].accepted
<1> DEFINE t == [pt[p] EXCEPT !.stragglers = 0]
<1>1. pt[p] \in Tracker /\ TrackerOK(pt[p], W) /\ d.rc = pt[p].era
  BY DEF IInv, PortsInv, OtherEra
<1>2. Opened(p, d) = t
  BY DEF Opened, Seeds, Advances
<1>3. /\ t \in Tracker /\ t.buf = pt[p].buf /\ t.era = d.rc
      /\ t.eraPos = pt[p].eraPos /\ t.stragglers = 0 /\ t.accepted = pt[p].accepted
  BY <1>1 DEF Tracker
<1>4. Series(t)
  BY <1>1 DEF TrackerOK, Tracker, Series
<1>5. TrackerOK(t, W)
  BY <1>1, <1>3, <1>4, WindowAssumption DEF TrackerOK, MaxStragglers
<1> QED
  BY <1>1, <1>2, <1>3, <1>5

(* A datagram of the port's era moves no port between eras. *)
LEMMA ReceiveIInv ==
  ASSUME IInv, NEW p \in Ports, NEW d \in Datagram, Receive(p, d)
  PROVE  IInv' /\ \A q \in Ports : pt'[q].eraPos = pt[q].eraPos /\ pt'[q].era = pt[q].era
<1> DEFINE t == Opened(p, d)
           u == Intake(t, d)
<1>1. /\ pt[p].eraPos # 0 /\ ~OtherEra(pt[p], d) /\ UNCHANGED <<pos, next>>
      /\ pt \in [Ports -> Tracker] /\ pt' = [pt EXCEPT ![p] = u]
  BY DEF IInv, PortsInv, Receive
<1>2. /\ TrackerOK(t, W) /\ t.era = d.rc
      /\ t.era = pt[p].era /\ t.eraPos = pt[p].eraPos
  BY <1>1, ReceivedOK
<1> HIDE DEF t
<1>3. TrackerOK(u, W) /\ u.era = pt[p].era /\ u.eraPos = pt[p].eraPos
  BY <1>2, IntakeOK
<1> HIDE DEF u
<1>4. PortsInv'
  BY <1>1, <1>3, PortReplaced DEF IInv
<1>5. \A q \in Ports : pt'[q].eraPos = pt[q].eraPos /\ pt'[q].era = pt[q].era
  BY <1>1, <1>3
<1>6. OrderInv'
  BY <1>1, <1>5, SameErasOrder DEF IInv
<1> QED
  BY <1>4, <1>5, <1>6 DEF IInv

(* A dropped straggler counts, and stays under the limit. *)
LEMMA QuarantineIInv ==
  ASSUME IInv, NEW p \in Ports, NEW d \in Datagram, Quarantine(p, d)
  PROVE  IInv'
<1> DEFINE u == [pt[p] EXCEPT !.stragglers = @ + 1]
<1>1. /\ pt[p] \in Tracker /\ TrackerOK(pt[p], W) /\ pt[p].eraPos # 0
      /\ pt[p].stragglers < MaxStragglers
      /\ pt' = [pt EXCEPT ![p] = u] /\ UNCHANGED <<pos, next>>
      /\ pt \in [Ports -> Tracker]
  BY DEF IInv, PortsInv, Quarantine, Quarantines
<1>2. pt[p].stragglers \in Nat /\ MaxStragglers \in Nat
  BY <1>1, WindowAssumption DEF Tracker, MaxStragglers
<1>3. /\ u \in Tracker /\ u.buf = pt[p].buf /\ u.era = pt[p].era
      /\ u.eraPos = pt[p].eraPos /\ u.stragglers = pt[p].stragglers + 1
  BY <1>1, <1>2 DEF Tracker
<1>4. Series(u)
  BY <1>1 DEF TrackerOK, Tracker, Series
<1> HIDE DEF u
<1>5. TrackerOK(u, W)
  BY <1>1, <1>2, <1>3, <1>4 DEF TrackerOK
<1>6. PortsInv'
  BY <1>1, <1>3, <1>5, PortReplaced DEF IInv
<1>7. OrderInv'
  BY <1>1, <1>3, SameErasOrder DEF IInv
<1> QED
  BY <1>6, <1>7 DEF IInv

(* What an advance does to the tracker before the datagram is pushed. *)
LEMMA AdvancedOK ==
  ASSUME IInv, NEW p \in Ports, NEW d \in Datagram, Advances(p, d)
  PROVE  LET t == Opened(p, d)
         IN  /\ TrackerOK(t, W) /\ t.era = d.rc
             /\ t.eraPos = OrdinalFor(d.rc, pt[p].eraPos)
             /\ t.eraPos # 0 /\ t.buf = {} /\ t.accepted = {}
<1> DEFINE e == OrdinalFor(d.rc, pt[p].eraPos)
           g == Drained(pt[p])
           a == AdvanceEra(g, d.rc)
           late == Late(pt[p], d)
           t == [a EXCEPT !.dirty = late]
<1>1. /\ pt[p] \in Tracker /\ TrackerOK(pt[p], W) /\ pt[p].eraPos # 0
      /\ d.rc \in ResetCounts
      /\ pos \in [ResetCounts -> Nat] /\ next \in Nat
  BY DEF IInv, PortsInv, OrderInv, Advances, Datagram
<1>2. Opened(p, d) = t
  BY <1>1 DEF Opened, Seeds
<1>3. TrackerOK(g, W) /\ g.buf = {} /\ g.eraPos = pt[p].eraPos
  BY <1>1, DrainedOK
<1>4. e \in Nat /\ e # 0
  BY <1>1 DEF OrdinalFor, Joins, Tracker
<1>5. a = [g EXCEPT !.floorPos = g.eraPos, !.eraPos = e, !.era = d.rc,
                    !.stragglers = 0, !.lastSeq = NoSeq, !.first = NoSeq,
                    !.accepted = {}, !.dirty = FALSE]
  BY <1>3 DEF AdvanceEra
<1>6. late \in BOOLEAN
  BY DEF Late
<1> HIDE DEF e, g, late
<1>7. g \in Tracker
  BY <1>3 DEF TrackerOK
<1>8. /\ t \in Tracker /\ t.buf = {} /\ t.era = d.rc /\ t.eraPos = e
      /\ t.stragglers = 0 /\ t.lastSeq = NoSeq /\ t.accepted = {}
  <2> HIDE DEF a
  <2>1. /\ a \in Tracker /\ a.buf = {} /\ a.era = d.rc /\ a.eraPos = e
        /\ a.stragglers = 0 /\ a.lastSeq = NoSeq /\ a.accepted = {}
    BY <1>1, <1>3, <1>4, <1>5, <1>7 DEF Tracker
  <2> QED
    BY <2>1, <1>6 DEF Tracker
<1>9. Series(t)
  BY <1>8 DEF Series
<1>10. TrackerOK(t, W)
  BY <1>8, <1>9, EmptyHeap, WindowAssumption DEF TrackerOK, MaxStragglers
<1> QED
  BY <1>2, <1>4, <1>8, <1>10 DEF e

(* A reset moves the port forward in the order. *)
LEMMA AdvanceIInv ==
  ASSUME IInv, NEW p \in Ports, NEW d \in Datagram, Advance(p, d)
  PROVE  IInv' /\ pt'[p].eraPos > pt[p].eraPos
<1> DEFINE t == Opened(p, d)
           u == Intake(t, d)
           from == pt[p].eraPos
<1>1. /\ pt \in [Ports -> Tracker] /\ pt[p] \in Tracker /\ from \in Nat /\ from <= next
      /\ d.rc \in ResetCounts /\ Advances(p, d) /\ Enter(d.rc, from)
      /\ pt' = [pt EXCEPT ![p] = u]
  BY DEF IInv, PortsInv, OrderInv, Advance, Datagram, Tracker
<1>2. TrackerOK(t, W) /\ t.era = d.rc /\ t.eraPos = OrdinalFor(d.rc, from)
  BY <1>1, AdvancedOK
<1> HIDE DEF t
<1>3. TrackerOK(u, W) /\ u.era = d.rc /\ u.eraPos = OrdinalFor(d.rc, from)
  BY <1>2, IntakeOK
<1> HIDE DEF u, from
<1>4. OrderInv' /\ u.eraPos > from
  BY <1>1, <1>3, EnterOrder DEF IInv, TrackerOK
<1>5. u.eraPos # 0
  BY <1>1, <1>4
<1>6. PortsInv'
  BY <1>1, <1>3, <1>5, PortReplaced DEF IInv
<1> QED
  BY <1>1, <1>4, <1>6 DEF IInv, from

(* An evicted port starts anew, and the order goes with its last holder. *)
LEMMA EvictIInv ==
  ASSUME IInv, NEW p \in Ports, Evict(p)
  PROVE  IInv'
<1>1. /\ pt \in [Ports -> Tracker]
      /\ pt' = [pt EXCEPT ![p] = NewTracker]
  BY DEF IInv, PortsInv, Evict
<1>2. pt'[p] = NewTracker /\ \A q \in Ports : q # p => pt'[q] = pt[q]
  BY <1>1
<1>3. NewTracker \in Tracker /\ NewTracker.eraPos = 0 /\ NewTracker.buf = {}
  BY ResetAssumption DEF NewTracker, Tracker, NoSeq
<1>4. TrackerOK(NewTracker, W)
  BY <1>3, EmptyHeap, WindowAssumption
  DEF TrackerOK, NewTracker, Series, NoSeq, MaxStragglers
<1>5. PortsInv'
  BY <1>1, <1>2, <1>3, <1>4 DEF IInv, PortsInv
<1>6. CASE \A q \in Ports \ {p} : pt[q].eraPos = 0
  <2>1. pos' = [rc \in ResetCounts |-> 0] /\ next' = 0
    BY <1>6 DEF Evict
  <2>2. \A q \in Ports : pt'[q].eraPos = 0
    BY <1>2, <1>3, <1>6
  <2>3. OrderInv'
    BY <2>1, <2>2 DEF OrderInv, OrdinalsNameEras
  <2> QED
    BY <1>5, <2>3 DEF IInv
<1>7. CASE ~ \A q \in Ports \ {p} : pt[q].eraPos = 0
  <2>1. pos' = pos /\ next' = next
    BY <1>7 DEF Evict
  <2>2. OrderInv'
    BY <1>2, <1>3, <2>1 DEF IInv, OrderInv, OrdinalsNameEras
  <2> QED
    BY <1>5, <2>2 DEF IInv
<1> QED
  BY <1>6, <1>7

(* Draining every buffer keeps the eras. *)
LEMMA FlushIInv ==
  ASSUME IInv, Flush
  PROVE  IInv'
<1>1. /\ \A p \in Ports : TrackerOK(pt[p], W)
      /\ pt' = [p \in Ports |-> Drained(pt[p])] /\ UNCHANGED <<pos, next>>
  BY DEF IInv, PortsInv, Flush
<1>2. \A p \in Ports :
        /\ TrackerOK(Drained(pt[p]), W) /\ Drained(pt[p]).buf = {}
        /\ Drained(pt[p]).era = pt[p].era /\ Drained(pt[p]).eraPos = pt[p].eraPos
  BY <1>1, DrainedOK
<1>3. \A p \in Ports :
        /\ pt'[p] \in Tracker /\ TrackerOK(pt'[p], W) /\ pt'[p].buf = {}
        /\ pt'[p].era = pt[p].era /\ pt'[p].eraPos = pt[p].eraPos
  BY <1>1, <1>2 DEF TrackerOK
<1>4. PortsInv'
  BY <1>1, <1>3 DEF PortsInv
<1>5. OrderInv'
  BY <1>1, <1>3, SameErasOrder DEF IInv
<1> QED
  BY <1>4, <1>5 DEF IInv

(* Every step keeps the inductive invariant. *)
LEMMA StepIInv == IInv /\ [Next]_vars => IInv'
<1> SUFFICES ASSUME IInv, [Next]_vars PROVE IInv'
  OBVIOUS
<1>1. CASE \E p \in Ports, d \in Datagram : Process(p, d)
  BY <1>1, SeedIInv, ReceiveIInv, QuarantineIInv, AdvanceIInv DEF Process
<1>2. CASE \E p \in Ports : Evict(p)
  BY <1>2, EvictIInv
<1>3. CASE Flush
  BY <1>3, FlushIInv
<1>4. CASE UNCHANGED vars
  BY <1>4 DEF vars, IInv, PortsInv, OrderInv, OrdinalsNameEras, TrackerOK, Heap, Series
<1> QED
  BY <1>1, <1>2, <1>3, <1>4 DEF Next

-----------------------------------------------------------------------------
(* The inductive invariant holds of every reachable state. *)
THEOREM PortInvariant == Spec => []IInv
<1>1. Init => IInv
  BY InitIInv
<1>2. IInv /\ [Next]_vars => IInv'
  BY StepIInv
<1> QED
  BY <1>1, <1>2, PTL DEF Spec

(* Every tracker keeps the type of a portTracker. *)
THEOREM TrackersTyped == Spec => []TypeOK
<1>1. IInv => TypeOK
  BY DEF IInv, PortsInv, OrderInv, TrackerOK, Heap, TypeOK
<1> QED
  BY <1>1, PortInvariant, PTL

(* enqueue holds back at most the reorder window, and never drops more     *)
(* stragglers in a row than the window delays.                             *)
THEOREM IntakeBounded == Spec => []HoldsBackBounded
<1>1. IInv => HoldsBackBounded
  BY DEF IInv, PortsInv, TrackerOK, Heap, HoldsBackBounded
<1> QED
  BY <1>1, PortInvariant, PTL

(* The heap compares sequence numbers of one era only: enqueue's drain.    *)
THEOREM HeapOfOneEra == Spec => []BufferOfOneEra
<1>1. IInv => BufferOfOneEra
  BY DEF IInv, PortsInv, TrackerOK, Heap, BufferOfOneEra
<1> QED
  BY <1>1, PortInvariant, PTL

(* eraOrder's ordinals identify the channel's eras across its ports.       *)
THEOREM OrdinalsIdentify == Spec => []OrdinalsNameEras
<1>1. IInv => OrdinalsNameEras
  BY DEF IInv, OrderInv
<1> QED
  BY <1>1, PortInvariant, PTL

(* A clean window has no hole, for every window and every network: the     *)
(* verdicts that are gated on a clean window rest on an unbroken series.   *)
THEOREM CleanWindowIsUnbroken == Spec => []CleanWindowHasNoHole
<1>1. IInv => CleanWindowHasNoHole
  BY DEF IInv, PortsInv, TrackerOK, Series, CleanWindowHasNoHole
<1> QED
  BY <1>1, PortInvariant, PTL

(* Ports move forward only through the channel's eras.                     *)
THEOREM PortsOnlyAdvance == Spec => ErasOnlyAdvance
<1> DEFINE Forward(p) ==
      pt[p].eraPos # 0 /\ pt'[p].eraPos # 0 =>
        /\ pt[p].eraPos <= pt'[p].eraPos
        /\ pt[p].era # pt'[p].era => pt[p].eraPos < pt'[p].eraPos
<1>1. IInv /\ [Next]_vars => [\A p \in Ports : Forward(p)]_vars
  <2> SUFFICES ASSUME IInv, Next, NEW q \in Ports
               PROVE  Forward(q)
    OBVIOUS
  <2>1. /\ pt \in [Ports -> Tracker]
        /\ \A p \in Ports : TrackerOK(pt[p], W) /\ pt[p].eraPos \in Nat
    BY DEF IInv, PortsInv, Tracker
  <2>2. ASSUME NEW p \in Ports, NEW d \in Datagram, Process(p, d)
        PROVE  Forward(q)
    <3>1. CASE Seed(p, d)
      BY <3>1, <2>1 DEF Seed, Seeds
    <3>2. CASE Receive(p, d)
      <4>1. pt'[q].eraPos = pt[q].eraPos /\ pt'[q].era = pt[q].era
        BY <3>2, ReceiveIInv
      <4> QED
        BY <4>1, <2>1
    <3>3. CASE Quarantine(p, d)
      <4>1. pt' = [pt EXCEPT ![p] = [pt[p] EXCEPT !.stragglers = @ + 1]]
        BY <3>3 DEF Quarantine
      <4>2. pt'[q].eraPos = pt[q].eraPos /\ pt'[q].era = pt[q].era
        BY <4>1, <2>1 DEF Tracker
      <4> QED
        BY <4>2, <2>1
    <3>4. CASE Advance(p, d)
      <4>1. pt'[p].eraPos > pt[p].eraPos /\ pt'[p].eraPos \in Nat
        BY <3>4, AdvanceIInv DEF IInv, PortsInv, Tracker
      <4>2. q # p => pt'[q] = pt[q]
        BY <3>4, <2>1 DEF Advance
      <4> QED
        BY <4>1, <4>2, <2>1
    <3> QED
      BY <2>2, <3>1, <3>2, <3>3, <3>4 DEF Process
  <2>3. ASSUME NEW p \in Ports, Evict(p)
        PROVE  Forward(q)
    BY <2>1, <2>3 DEF Evict, NewTracker
  <2>4. ASSUME Flush
        PROVE  Forward(q)
    <3>1. Drained(pt[q]).era = pt[q].era /\ Drained(pt[q]).eraPos = pt[q].eraPos
      BY <2>1, DrainedOK
    <3> QED
      BY <2>1, <2>4, <3>1 DEF Flush
  <2> QED
    BY <2>2, <2>3, <2>4 DEF Next
<1> QED
  BY <1>1, PortInvariant, PTL DEF Spec, ErasOnlyAdvance

-----------------------------------------------------------------------------
(* What the proofs about the feeds on top of this intake share: counting    *)
(* up, a sequence without one element, and the intake of one frame that is *)
(* apart from all the port holds.                                          *)
LEMMA UpTo ==
  ASSUME NEW k \in Nat, NEW S, 0 \in S, \A n \in 1 .. k : n - 1 \in S => n \in S
  PROVE  k \in S
<1> DEFINE Bad == {n \in 0 .. k : n \notin S}
<1>1. ASSUME Bad # {} PROVE FALSE
  <2>1. Bad \in SUBSET Nat
    OBVIOUS
  <2> HIDE DEF Bad
  <2>2. PICK n \in Bad : \A m \in Bad : n <= m
    BY <1>1, <2>1, LeastOf
  <2> USE DEF Bad
  <2>3. n # 0
    BY <2>2
  <2>4. n - 1 \in 0 .. k /\ n - 1 \notin Bad /\ n \in 1 .. k
    BY <2>2, <2>3
  <2> QED
    BY <2>2, <2>4
<1> QED
  BY <1>1

LEMMA OwnRange ==
  ASSUME NEW S, NEW r \in Seq(S)
  PROVE  r \in Seq({r[k] : k \in DOMAIN r})
<1>1. Len(r) \in Nat /\ r \in [1 .. Len(r) -> S] /\ DOMAIN r = 1 .. Len(r)
  BY LenProperties
<1>2. r \in [1 .. Len(r) -> {r[k] : k \in DOMAIN r}]
  BY <1>1
<1> QED
  BY <1>1, <1>2, SeqDef

LEMMA OneRemoved ==
  ASSUME NEW S, NEW s \in Seq(S), NEW n \in DOMAIN s
  PROVE  LET r == RemoveAt(s, n)
         IN  /\ r \in Seq(S) /\ DOMAIN r = 1 .. Len(s) - 1
             /\ \A i \in DOMAIN r : r[i] = s[IF i < n THEN i ELSE i + 1]
<1> DEFINE a == SubSeq(s, 1, n - 1)
           b == SubSeq(s, n + 1, Len(s))
<1>1. Len(s) \in Nat /\ n \in 1 .. Len(s) /\ \A i \in 1 .. Len(s) : s[i] \in S
  BY LenProperties
<1>2. a \in Seq(S) /\ Len(a) = n - 1 /\ \A i \in 1 .. n - 1 : a[i] = s[i]
  <2>1. \A i \in 1 .. n - 1 : s[i] \in S
    BY <1>1
  <2>2. /\ a \in Seq(S) /\ Len(a) = IF 1 <= n - 1 THEN n - 1 - 1 + 1 ELSE 0
        /\ \A i \in 1 .. n - 1 - 1 + 1 : a[i] = s[1 + i - 1]
    BY <1>1, <2>1, SubSeqProperties
  <2> HIDE DEF a
  <2> QED
    BY <1>1, <2>2
<1>3. b \in Seq(S) /\ Len(b) = Len(s) - n /\ \A i \in 1 .. Len(s) - n : b[i] = s[n + i]
  <2>1. \A i \in n + 1 .. Len(s) : s[i] \in S
    BY <1>1
  <2>2. /\ b \in Seq(S) /\ Len(b) = IF n + 1 <= Len(s) THEN Len(s) - (n + 1) + 1 ELSE 0
        /\ \A i \in 1 .. Len(s) - (n + 1) + 1 : b[i] = s[n + 1 + i - 1]
    BY <1>1, <2>1, SubSeqProperties
  <2>3. Len(s) - (n + 1) + 1 = Len(s) - n /\ \A i \in 1 .. Len(s) - n : n + 1 + i - 1 = n + i
    BY <1>1
  <2>4. (IF n + 1 <= Len(s) THEN Len(s) - (n + 1) + 1 ELSE 0) = Len(s) - n
    BY <1>1
  <2> HIDE DEF b
  <2> QED
    BY <2>2, <2>3, <2>4
<1>4. RemoveAt(s, n) = a \o b
  BY DEF RemoveAt
<1> HIDE DEF a, b
<1>5. /\ (a \o b) \in Seq(S) /\ Len(a \o b) = Len(a) + Len(b)
      /\ \A i \in 1 .. Len(a) + Len(b) : (a \o b)[i] = IF i <= Len(a) THEN a[i] ELSE b[i - Len(a)]
  BY <1>2, <1>3, ConcatProperties
<1>6. Len(a) + Len(b) = Len(s) - 1
  BY <1>1, <1>2, <1>3
<1>7. DOMAIN (a \o b) = 1 .. Len(s) - 1
  BY <1>5, <1>6, LenProperties
<1>8. ASSUME NEW i \in 1 .. Len(s) - 1
      PROVE  (a \o b)[i] = s[IF i < n THEN i ELSE i + 1]
  <2>1. CASE i < n
    <3>1. i \in 1 .. n - 1 /\ i <= Len(a) /\ i \in 1 .. Len(a) + Len(b)
      BY <1>1, <1>2, <1>6, <2>1
    <3>2. (a \o b)[i] = a[i]
      BY <1>5, <3>1
    <3> QED
      BY <1>2, <2>1, <3>1, <3>2
  <2>2. CASE ~(i < n)
    <3>1. i - (n - 1) \in 1 .. Len(s) - n
      BY <1>1, <2>2
    <3>2. ~(i <= n - 1) /\ i \in 1 .. Len(a) + Len(b)
      BY <1>1, <1>6, <2>2
    <3>3. (a \o b)[i] = b[i - (n - 1)]
      BY <1>2, <1>5, <3>2
    <3>4. n + (i - (n - 1)) = i + 1
      BY <1>1
    <3> QED
      BY <1>3, <2>2, <3>1, <3>3, <3>4
  <2> QED
    BY <2>1, <2>2
<1> QED
  BY <1>4, <1>5, <1>7, <1>8

TrackerFields ==
  {"era", "eraPos", "floorPos", "stragglers", "buf", "lastSeq", "first", "accepted", "dirty"}

(* The tracker a frame is pushed into: of the frame's era, and empty if it *)
(* was not of that era before.                                             *)
LEMMA OpenedOf ==
  ASSUME NEW p, DOMAIN pt[p] = TrackerFields, pt[p].eraPos \in Nat,
         pt[p].eraPos = 0 => pt[p].buf = {}, \A i \in pt[p].buf : i.rc = pt[p].era,
         NEW d, pos[d.rc] \in Nat, next \in Nat, ~Quarantines(p, d)
  PROVE  LET o == Opened(p, d)
         IN  /\ DOMAIN o = TrackerFields /\ o.era = d.rc /\ o.eraPos \in Nat /\ o.eraPos # 0
             /\ o.buf \subseteq pt[p].buf /\ \A i \in o.buf : i.rc = d.rc
<1> DEFINE t == pt[p]
           o == Opened(p, d)
<1>1. /\ DOMAIN t = TrackerFields /\ t.eraPos \in Nat /\ (t.eraPos = 0 => t.buf = {})
      /\ pos[d.rc] \in Nat /\ next \in Nat
  OBVIOUS
<1>2. \A from \in Nat : OrdinalFor(d.rc, from) \in Nat /\ OrdinalFor(d.rc, from) # 0
  BY <1>1 DEF OrdinalFor, Joins
<1>3. CASE Seeds(p, d)
  <2>1. o = Seeded(t, d.rc) /\ t.buf = {}
    <3>1. ~Advances(p, d)
      BY <1>3 DEF Seeds, Advances
    <3>3. o = Seeded(t, d.rc)
      BY <1>3, <3>1 DEF Opened
    <3>2. t.buf = {}
      BY <1>1, <1>3 DEF Seeds
    <3> QED
      BY <3>2, <3>3
  <2> HIDE DEF t, o
  <2>2. o.era = d.rc /\ o.eraPos = OrdinalFor(d.rc, 0) /\ o.buf = t.buf /\ DOMAIN o = DOMAIN t
    BY <1>1, <2>1 DEF Seeded, TrackerFields
  <2> QED
    BY <1>1, <1>2, <2>1, <2>2 DEF t, o
<1>4. CASE Advances(p, d)
  <2> DEFINE u == Drained(t)
             a == AdvanceEra(u, d.rc)
  <2>1. o = [a EXCEPT !.dirty = Late(t, d)]
    BY <1>4 DEF Opened, Advances, Seeds
  <2>2. DOMAIN u = TrackerFields /\ u.buf = {} /\ u.eraPos = t.eraPos
    <3> HIDE DEF t
    <3> QED
      BY <1>1 DEF Drained, Classify, TrackerFields
  <2> HIDE DEF t, u
  <2>3. /\ DOMAIN a = TrackerFields /\ a.buf = {} /\ a.era = d.rc
        /\ a.eraPos = OrdinalFor(d.rc, u.eraPos)
    BY <2>2 DEF AdvanceEra, TrackerFields
  <2> HIDE DEF a, o
  <2>4. DOMAIN o = TrackerFields /\ o.buf = {} /\ o.era = d.rc /\ o.eraPos = a.eraPos
    BY <2>1, <2>3 DEF TrackerFields
  <2>5. o.eraPos \in Nat /\ o.eraPos # 0
    BY <1>1, <1>2, <2>2, <2>3, <2>4
  <2> QED
    BY <2>4, <2>5 DEF o
<1>5. CASE ~Seeds(p, d) /\ ~Advances(p, d)
  <2>1. o = [t EXCEPT !.stragglers = 0]
    BY <1>5 DEF Opened
  <2>2. t.eraPos # 0 /\ d.rc = t.era
    BY <1>5 DEF Seeds, Advances, OtherEra
  <2>3. \A i \in t.buf : i.rc = t.era
    OBVIOUS
  <2> HIDE DEF t, o
  <2>4. DOMAIN o = TrackerFields /\ o.era = t.era /\ o.eraPos = t.eraPos /\ o.buf = t.buf
    BY <1>1, <2>1 DEF TrackerFields
  <2> QED
    BY <1>1, <2>2, <2>3, <2>4 DEF t, o
<1> QED
  BY <1>3, <1>4, <1>5

(* heap.Push of a number the buffer does not hold, and the head of it. *)
LEMMA PushedNew ==
  ASSUME NEW o, "buf" \in DOMAIN o, NEW d, \A i \in o.buf : i.seq # d.seq
  PROVE  LET item == [rc |-> d.rc, seq |-> d.seq, body |-> d.body, copy |-> 0]
         IN  Push(o, d) = [o EXCEPT !.buf = o.buf \cup {item}]
<1> DEFINE same == {i \in o.buf : i.seq = d.seq}
<1>1. same = {}
  OBVIOUS
<1>2. Cardinality(same) = 0
  BY <1>1, FS_EmptySet
<1> HIDE DEF same
<1>3. Push(o, d) = [o EXCEPT !.buf = o.buf \cup {[rc |-> d.rc, seq |-> d.seq, body |-> d.body,
                                                  copy |-> Cardinality(same)]}]
  BY DEF Push, same
<1> QED
  BY <1>2, <1>3

LEMMA HeadIn ==
  ASSUME NEW t, t.buf # {}, \A i \in t.buf : i.seq \in Nat /\ i.copy = 0
  PROVE  HeadOf(t) \in t.buf /\ IsHead(t, HeadOf(t))
<1>1. {i.seq : i \in t.buf} \in SUBSET Nat /\ {i.seq : i \in t.buf} # {}
  OBVIOUS
<1>2. PICK s \in {i.seq : i \in t.buf} : \A m \in {i.seq : i \in t.buf} : s <= m
  BY <1>1, LeastOf
<1>3. PICK i \in t.buf : i.seq = s
  BY <1>2
<1>4. IsHead(t, i)
  BY <1>2, <1>3 DEF IsHead
<1>5. IsHead(t, HeadOf(t))
  BY <1>4 DEF HeadOf
<1> QED
  BY <1>5 DEF IsHead

(* The places of two numbers are in their order. *)
LEMMA PlaceOrder ==
  ASSUME NEW a \in Nat, NEW b \in Nat
  PROVE  /\ a * (W + 1) \in Nat
         /\ a * (W + 1) <= b * (W + 1) => a <= b
<1> DEFINE k == W + 1
<1>1. k \in Nat /\ k >= 1
  BY WindowAssumption
<1> HIDE DEF k
<1>2. a * k \in Nat /\ b * k \in Nat
  BY <1>1
<1>3. ASSUME b < a PROVE b * k < a * k
  <2> DEFINE c == a - b
  <2>1. c \in Nat /\ c >= 1 /\ a = b + c
    BY <1>3
  <2> HIDE DEF c
  <2>2. a * k = b * k + c * k
    BY <1>1, <2>1
  <2>3. c * k \in Nat /\ c * k >= 1
    BY <1>1, <2>1
  <2> QED
    BY <1>2, <2>2, <2>3
<1> QED
  BY <1>2, <1>3 DEF k
=============================================================================
