--------------------------- MODULE IdWindowProofs ---------------------------
(***************************************************************************)
(* What the bounded ID window promises, for every limit and every set of   *)
(* ids: its size, and that a miss outside the evicted range is a true one. *)
(* The inductive invariant adds what eviction relies on: insertion numbers *)
(* tell members apart, none is ahead of next, and each member's live entry *)
(* is still queued.                                                        *)
(***************************************************************************)
EXTENDS IdWindowRefinement, FiniteSetTheorems, TLAPS

(* Insertion numbers identify members. *)
StampsDistinct ==
  \A x, y \in Members : stamp[x] = stamp[y] => x = y

StampsBehind == \A id \in Ids : stamp[id] <= next

IInv ==
  /\ TypeOK
  /\ StampsDistinct
  /\ StampsBehind
  /\ SizeBounded
  /\ EveryMemberIsQueued
  /\ MissOutsideRangeIsTrue

-----------------------------------------------------------------------------
(* Only one live entry per member: filtering a queue down to its live      *)
(* entries leaves at most as many entries as there are members.            *)
LEMMA LiveEntriesBounded ==
  ASSUME NEW st \in [Ids -> Nat], NEW q \in SUBSET Entry, IsFiniteSet(q)
  PROVE  LET kept == {e \in q : Live(st, e)}
         IN  IsFiniteSet(kept) /\ Cardinality(kept) <= Cardinality(MembersOf(st))
<1> DEFINE kept == {e \in q : Live(st, e)}
           f == [e \in kept |-> e.id]
<1>1. IsFiniteSet(MembersOf(st))
  BY IdsAssumption, FS_Subset DEF MembersOf
<1>2. f \in [kept -> MembersOf(st)]
  BY DEF Entry, Live, MembersOf
<1>3. \A d, e \in kept : f[d] = f[e] => d = e
  BY DEF Entry, Live
<1>4. f \in Injection(kept, MembersOf(st))
  BY <1>2, <1>3 DEF Injection, IsInjective
<1> QED
  BY <1>1, <1>4, FS_Injection

(* compact keeps what eviction needs: member entries stay, the queue stays *)
(* finite and within twice the limit, no entry is invented.                *)
LEMMA CompactKeepsMembers ==
  ASSUME NEW st \in [Ids -> Nat], NEW q \in SUBSET Entry, IsFiniteSet(q),
         NEW h \in Nat, Cardinality(MembersOf(st)) <= Limit,
         Compact(st, q, h)
  PROVE  /\ queue' \in SUBSET Entry /\ IsFiniteSet(queue')
         /\ Cardinality(queue') <= 2 * Limit
         /\ head' \in Nat
         /\ \A e \in q : Live(st, e) => e \in queue'
<1>1. IsFiniteSet(MembersOf(st)) /\ Cardinality(MembersOf(st)) \in Nat
  BY IdsAssumption, FS_Subset, FS_CardinalityType DEF MembersOf
<1>2. Cardinality(q) \in Nat
  BY FS_CardinalityType
<1>3. CASE Cardinality(q) <= 2 * Limit
  BY <1>3 DEF Compact
<1>4. CASE ~(Cardinality(q) <= 2 * Limit)
  <2>1. queue' = {e \in q : Live(st, e)} /\ head' = 0
    BY <1>4 DEF Compact
  <2>2. IsFiniteSet(queue') /\ Cardinality(queue') <= Cardinality(MembersOf(st))
    BY <2>1, LiveEntriesBounded
  <2>3. Cardinality(queue') \in Nat
    BY <2>2, FS_CardinalityType
  <2>4. Cardinality(queue') <= 2 * Limit
    BY <2>2, <2>3, <1>1, LimitAssumption
  <2> QED
    BY <2>1, <2>2, <2>4
<1> QED
  BY <1>3, <1>4

-----------------------------------------------------------------------------
LEMMA InitIInv == Init => IInv
<1> SUFFICES ASSUME Init PROVE IInv
  OBVIOUS
<1>1. Members = {}
  BY DEF Init, Members, MembersOf
<1>2. IsFiniteSet({}) /\ Cardinality({}) = 0
  BY FS_EmptySet
<1>3. TypeOK
  BY <1>2 DEF Init, TypeOK
<1>4. StampsDistinct /\ StampsBehind
  BY <1>1 DEF Init, StampsDistinct, StampsBehind
<1>5. SizeBounded /\ EveryMemberIsQueued /\ MissOutsideRangeIsTrue
  BY <1>1, <1>2, LimitAssumption
  DEF Init, SizeBounded, EveryMemberIsQueued, MissOutsideRangeIsTrue
<1> QED
  BY <1>3, <1>4, <1>5 DEF IInv

(* What add does to the stamps and the queue before anything is popped.    *)
LEMMA AddFacts ==
  ASSUME IInv, NEW id \in Ids
  PROVE  LET st == [stamp EXCEPT ![id] = NewNumber]
             q  == queue \cup {[id |-> id, n |-> NewNumber]}
         IN  /\ st \in [Ids -> Nat]
             /\ q \in SUBSET Entry /\ IsFiniteSet(q)
             /\ MembersOf(st) = Members \cup {id}
             /\ IsFiniteSet(MembersOf(st))
             /\ Cardinality(MembersOf(st)) \in Nat
             /\ Cardinality(MembersOf(st)) <= Limit + 1
             /\ \A x \in MembersOf(st) : [id |-> x, n |-> st[x]] \in q
             /\ \A x, y \in MembersOf(st) : st[x] = st[y] => x = y
             /\ \A x \in Ids : st[x] <= next + 1
<1> DEFINE st == [stamp EXCEPT ![id] = NewNumber]
           q  == queue \cup {[id |-> id, n |-> NewNumber]}
<1> USE DEF NewNumber
<1>1. TypeOK /\ StampsDistinct /\ StampsBehind /\ SizeBounded /\ EveryMemberIsQueued
  BY DEF IInv
<1>2. st \in [Ids -> Nat]
  BY <1>1 DEF TypeOK
<1>3. q \in SUBSET Entry /\ IsFiniteSet(q)
  <2>1. IsFiniteSet(queue) /\ queue \in SUBSET Entry /\ next \in Nat
    BY <1>1 DEF TypeOK
  <2>2. IsFiniteSet(q)
    BY <2>1, FS_AddElement
  <2>3. [id |-> id, n |-> NewNumber] \in Entry
    BY <2>1 DEF Entry
  <2> QED
    BY <2>1, <2>2, <2>3
<1>4. MembersOf(st) = Members \cup {id}
  BY <1>1 DEF TypeOK, Members, MembersOf
<1>5. IsFiniteSet(Members) /\ Cardinality(Members) \in Nat
  BY IdsAssumption, FS_Subset, FS_CardinalityType DEF Members, MembersOf
<1>6. /\ IsFiniteSet(MembersOf(st))
      /\ Cardinality(MembersOf(st)) \in Nat
      /\ Cardinality(MembersOf(st)) <= Limit + 1
  <2>1. /\ IsFiniteSet(Members \cup {id})
        /\ \/ Cardinality(Members \cup {id}) = Cardinality(Members)
           \/ Cardinality(Members \cup {id}) = Cardinality(Members) + 1
    BY <1>5, FS_AddElement
  <2>2. Cardinality(Members) <= Limit
    BY <1>1 DEF SizeBounded
  <2>3. /\ Cardinality(Members \cup {id}) \in Nat
        /\ Cardinality(Members \cup {id}) <= Limit + 1
    BY <2>1, <2>2, <1>5, LimitAssumption
  <2> HIDE DEF st
  <2> QED
    BY <2>1, <2>3, <1>4
<1>7. \A x \in MembersOf(st) : [id |-> x, n |-> st[x]] \in q
  BY <1>1, <1>4 DEF TypeOK, EveryMemberIsQueued, Members, MembersOf
<1>8. \A x, y \in MembersOf(st) : st[x] = st[y] => x = y
  BY <1>1, <1>4 DEF TypeOK, StampsDistinct, StampsBehind, Members, MembersOf
<1>9. \A x \in Ids : st[x] <= next + 1
  BY <1>1 DEF TypeOK, StampsBehind
<1> QED
  BY <1>2, <1>3, <1>4, <1>6, <1>7, <1>8, <1>9
(* An add that overfills nothing keeps the invariant. *)
LEMMA AddWithinIInv ==
  ASSUME IInv, NEW id \in Ids, next' = next + 1, AddWithin(id)
  PROVE  IInv'
<1> DEFINE st == [stamp EXCEPT ![id] = NewNumber]
           q  == queue \cup {[id |-> id, n |-> NewNumber]}
<1>1. /\ st \in [Ids -> Nat]
      /\ q \in SUBSET Entry /\ IsFiniteSet(q)
      /\ MembersOf(st) = Members \cup {id}
      /\ Cardinality(MembersOf(st)) \in Nat
      /\ \A x \in MembersOf(st) : [id |-> x, n |-> st[x]] \in q
      /\ \A x, y \in MembersOf(st) : st[x] = st[y] => x = y
      /\ \A x \in Ids : st[x] <= next + 1
  BY AddFacts
<1>2. stamp' = st /\ Members' = MembersOf(st)
  BY DEF AddWithin, Members
<1>3. TypeOK /\ MissOutsideRangeIsTrue
  BY DEF IInv
<1>4. Cardinality(MembersOf(st)) <= Limit
  BY <1>1, LimitAssumption DEF AddWithin, Overfull
<1>5. Compact(st, q, head)
  BY DEF AddWithin
<1>6. /\ queue' \in SUBSET Entry /\ IsFiniteSet(queue')
      /\ Cardinality(queue') <= 2 * Limit
      /\ head' \in Nat
      /\ \A e \in q : Live(st, e) => e \in queue'
  <2>1. head \in Nat
    BY <1>3 DEF TypeOK
  <2> HIDE DEF st, q
  <2> QED
    BY <1>1, <1>4, <1>5, <2>1, CompactKeepsMembers
<1>7. TypeOK'
  BY <1>1, <1>2, <1>3, <1>6 DEF TypeOK, AddWithin
<1>8. StampsDistinct' /\ StampsBehind' /\ SizeBounded'
  BY <1>1, <1>2, <1>4 DEF StampsDistinct, StampsBehind, SizeBounded
<1>9. EveryMemberIsQueued'
  <2>1. ASSUME NEW x \in Members'
        PROVE  [id |-> x, n |-> stamp'[x]] \in queue'
    <3>1. [id |-> x, n |-> st[x]] \in q
      BY <1>1, <1>2
    <3>2. Live(st, [id |-> x, n |-> st[x]])
      BY DEF Live
    <3> HIDE DEF st, q
    <3> QED
      BY <1>2, <1>6, <3>1, <3>2
  <2> QED
    BY <1>6, <2>1 DEF EveryMemberIsQueued
<1>10. MissOutsideRangeIsTrue'
  BY <1>1, <1>2, <1>3 DEF AddWithin, MissOutsideRangeIsTrue, MayHaveEvicted
<1> QED
  BY <1>7, <1>8, <1>9, <1>10 DEF IInv

(* An add that evicts: exactly one member leaves, the oldest, and the range *)
(* grows to cover it.                                                      *)
LEMMA AddEvictingIInv ==
  ASSUME IInv, NEW id \in Ids, next' = next + 1, AddEvicting(id)
  PROVE  IInv'
<1> DEFINE st == [stamp EXCEPT ![id] = NewNumber]
           q  == queue \cup {[id |-> id, n |-> NewNumber]}
<1>1. /\ st \in [Ids -> Nat]
      /\ q \in SUBSET Entry /\ IsFiniteSet(q)
      /\ MembersOf(st) = Members \cup {id}
      /\ IsFiniteSet(MembersOf(st))
      /\ Cardinality(MembersOf(st)) \in Nat
      /\ Cardinality(MembersOf(st)) <= Limit + 1
      /\ \A x \in MembersOf(st) : [id |-> x, n |-> st[x]] \in q
      /\ \A x, y \in MembersOf(st) : st[x] = st[y] => x = y
      /\ \A x \in Ids : st[x] <= next + 1
  BY AddFacts
<1>2. TypeOK /\ MissOutsideRangeIsTrue
  BY DEF IInv
<1>3. PICK old \in q :
        /\ Live(st, old)
        /\ \A e \in q : Live(st, e) => old.n <= e.n
        /\ stamp' = [st EXCEPT ![old.id] = 0]
        /\ Compact(stamp', {e \in q : e.n > old.n},
                   head + Cardinality(q \ {e \in q : e.n > old.n}))
        /\ NoteEviction(old.id)
        /\ forgot' = (forgot \ {id}) \cup {old.id}
  BY DEF AddEvicting
<1> DEFINE left == {e \in q : e.n > old.n}
<1>4. old.id \in Ids /\ old.n \in Nat \ {0} /\ st[old.id] = old.n
  BY <1>1, <1>3 DEF Entry, Live
<1>5. stamp' \in [Ids -> Nat] /\ Members' = MembersOf(st) \ {old.id}
  BY <1>1, <1>3, <1>4 DEF Members, MembersOf
<1>6. Cardinality(Members') <= Limit
  <2>1. old.id \in MembersOf(st)
    BY <1>1, <1>4 DEF MembersOf
  <2>2. Cardinality(MembersOf(st) \ {old.id}) = Cardinality(MembersOf(st)) - 1
    BY <1>1, <2>1, FS_RemoveElement
  <2> HIDE DEF st
  <2>3. Cardinality(MembersOf(st) \ {old.id}) <= Limit
    BY <1>1, <2>2, LimitAssumption
  <2> QED
    BY <1>5, <2>3
<1>7. left \in SUBSET Entry /\ IsFiniteSet(left) /\ IsFiniteSet(q \ left)
  BY <1>1, FS_Subset
<1>8. head + Cardinality(q \ left) \in Nat
  BY <1>2, <1>7, FS_CardinalityType DEF TypeOK
<1>9. /\ queue' \in SUBSET Entry /\ IsFiniteSet(queue')
      /\ Cardinality(queue') <= 2 * Limit
      /\ head' \in Nat
      /\ \A e \in left : Live(stamp', e) => e \in queue'
  <2>1. Members' = MembersOf(stamp')
    BY DEF Members
  <2>2. Compact(stamp', left, head + Cardinality(q \ left))
    BY <1>3
  <2> HIDE DEF left, q
  <2> QED
    BY <1>5, <1>6, <1>7, <1>8, <2>1, <2>2, CompactKeepsMembers
<1>10. TypeOK'
  <2>1. evicted' \in BOOLEAN /\ evLo' \in Nat /\ evHi' \in Nat
    BY <1>2, <1>3, <1>4, IdsAssumption DEF TypeOK, NoteEviction
  <2>2. forgot' \in SUBSET Ids /\ next' \in Nat
    BY <1>2, <1>3, <1>4 DEF TypeOK
  <2> QED
    BY <1>5, <1>9, <2>1, <2>2 DEF TypeOK
<1>11. StampsDistinct' /\ StampsBehind' /\ SizeBounded'
  <2>1. \A x \in Members' : x \in MembersOf(st) /\ stamp'[x] = st[x]
    BY <1>1, <1>3, <1>5 DEF MembersOf
  <2>2. StampsDistinct'
    BY <1>1, <2>1 DEF StampsDistinct
  <2>3. StampsBehind'
    <3>1. next \in Nat
      BY <1>2 DEF TypeOK
    <3> QED
      BY <1>1, <1>3, <3>1 DEF StampsBehind
  <2> QED
    BY <1>6, <2>2, <2>3 DEF SizeBounded
<1>12. EveryMemberIsQueued'
  <2>1. ASSUME NEW x \in Members'
        PROVE  [id |-> x, n |-> stamp'[x]] \in queue'
    <3>1. x \in MembersOf(st) /\ x # old.id /\ x \in Ids /\ stamp'[x] = st[x]
      BY <1>1, <1>3, <1>5 DEF MembersOf
    <3>2. [id |-> x, n |-> st[x]] \in q /\ st[x] \in Nat
      BY <1>1, <3>1
    <3>3. Live(st, [id |-> x, n |-> st[x]])
      BY DEF Live
    <3>4. old.n <= st[x]
      BY <1>3, <3>2, <3>3
    <3>5. st[x] # old.n
      BY <1>1, <1>4, <3>1 DEF MembersOf
    <3>6. [id |-> x, n |-> st[x]] \in left
      BY <1>4, <3>2, <3>4, <3>5
    <3>7. Live(stamp', [id |-> x, n |-> st[x]])
      BY <3>1 DEF Live
    <3> QED
      BY <1>9, <3>1, <3>6, <3>7
  <2> QED
    BY <1>9, <2>1 DEF EveryMemberIsQueued
<1>13. MissOutsideRangeIsTrue'
  <2>1. ASSUME NEW x \in forgot'
        PROVE  x \notin Members' /\ MayHaveEvicted(x)'
    <3>1. CASE x = old.id
      BY <1>2, <1>4, <1>5, <1>3, <3>1, IdsAssumption
      DEF NoteEviction, MayHaveEvicted, TypeOK
    <3>2. CASE x # old.id
      <4>1. x \in forgot /\ x # id
        BY <1>3, <3>2
      <4>2. x \notin Members /\ MayHaveEvicted(x) /\ x \in Ids
        BY <1>2, <4>1 DEF MissOutsideRangeIsTrue, TypeOK
      <4>3. x \notin Members'
        BY <1>1, <1>5, <4>1, <4>2
      <4>4. MayHaveEvicted(x)'
        BY <1>2, <1>3, <1>4, <4>2, IdsAssumption
        DEF NoteEviction, MayHaveEvicted, TypeOK
      <4> QED
        BY <4>3, <4>4
    <3> QED
      BY <3>1, <3>2
  <2> QED
    BY <2>1 DEF MissOutsideRangeIsTrue
<1> QED
  BY <1>10, <1>11, <1>6, <1>12, <1>13 DEF IInv

LEMMA RemoveIInv ==
  ASSUME IInv, NEW id \in Ids, Remove(id)
  PROVE  IInv'
<1>1. TypeOK /\ StampsDistinct /\ StampsBehind /\ SizeBounded
      /\ EveryMemberIsQueued /\ MissOutsideRangeIsTrue
  BY DEF IInv
<1>2. Members' = Members \ {id}
  BY <1>1 DEF Remove, Members, MembersOf, TypeOK
<1>3. TypeOK'
  BY <1>1 DEF Remove, TypeOK
<1>4. StampsDistinct' /\ StampsBehind'
  BY <1>1, <1>2 DEF Remove, StampsDistinct, StampsBehind, TypeOK, Members, MembersOf
<1>5. SizeBounded'
  <2>1. IsFiniteSet(Members) /\ Cardinality(Members) \in Nat
    BY IdsAssumption, FS_Subset, FS_CardinalityType DEF Members, MembersOf
  <2>2. IsFiniteSet(Members') /\ Cardinality(Members') <= Cardinality(Members)
    BY <1>2, <2>1, FS_Subset
  <2>3. Cardinality(Members') \in Nat
    BY <2>2, FS_CardinalityType
  <2> QED
    BY <1>1, <2>1, <2>2, <2>3, LimitAssumption DEF SizeBounded
<1>6. EveryMemberIsQueued'
  BY <1>1, <1>2 DEF Remove, EveryMemberIsQueued, TypeOK, Members, MembersOf
<1>7. MissOutsideRangeIsTrue'
  BY <1>1, <1>2 DEF Remove, MissOutsideRangeIsTrue, MayHaveEvicted
<1> QED
  BY <1>3, <1>4, <1>5, <1>6, <1>7 DEF IInv

LEMMA StepIInv == IInv /\ [Next]_vars => IInv'
<1> SUFFICES ASSUME IInv, [Next]_vars PROVE IInv'
  OBVIOUS
<1>1. CASE Next
  BY <1>1, AddWithinIInv, AddEvictingIInv, RemoveIInv DEF Next, Add
<1>2. CASE UNCHANGED vars
  BY <1>2 DEF vars, IInv, TypeOK, StampsDistinct, StampsBehind, SizeBounded,
     EveryMemberIsQueued, MissOutsideRangeIsTrue, Members, MayHaveEvicted
<1> QED
  BY <1>1, <1>2

-----------------------------------------------------------------------------
(* The window's invariant holds for every id set, limit and number of adds. *)
THEOREM WindowInvariant == Spec => []IInv
  BY InitIInv, StepIInv, PTL DEF Spec

(* The state is what the Go struct can hold, for every id set and limit.    *)
THEOREM WindowTyped == Spec => []TypeOK
<1>1. IInv => TypeOK
  BY DEF IInv
<1> QED
  BY <1>1, WindowInvariant, PTL

(* The window never outgrows its limit, for every limit.                   *)
THEOREM WindowSizeBounded == Spec => []SizeBounded
<1>1. IInv => SizeBounded
  BY DEF IInv
<1> QED
  BY <1>1, WindowInvariant, PTL

(* A miss outside the evicted range never hides an eviction, which is what *)
(* lets the book charge a dangling order id to the publisher.              *)
THEOREM WindowMissIsTrue == Spec => []MissOutsideRangeIsTrue
<1>1. IInv => MissOutsideRangeIsTrue
  BY DEF IInv
<1> QED
  BY <1>1, WindowInvariant, PTL

(* The queue never runs out of live entries and is compacted in time, so   *)
(* the Go loop's unchecked queue[head] is always in range.                 *)
THEOREM WindowMembersQueued == Spec => []EveryMemberIsQueued
<1>1. IInv => EveryMemberIsQueued
  BY DEF IInv
<1> QED
  BY <1>1, WindowInvariant, PTL

-----------------------------------------------------------------------------
(* IdWindow implements WindowPromise: each step of the queue is a step of  *)
(* the promise, or a stutter of it. Besides the window's invariant this    *)
(* needs that the evicted range is never upside down: a range that ends    *)
(* before it starts would denote the empty set and grow by more than one   *)
(* eviction.                                                               *)
RangeOrdered == evicted => evLo <= evHi

Mapped == [ids |-> Members, older |-> ByAge, evicted |-> EvictedRange]

RInv == IInv /\ RangeOrdered

-----------------------------------------------------------------------------
(* The promise counts members as the window does.                          *)
LEMMA SameCount == \A S : Promise!Cardinality(S) = Cardinality(S)
  BY DEF Promise!Cardinality, Cardinality

(* noteEviction widens the range to the least one that holds both.         *)
LEMMA RangeWidens ==
  ASSUME TypeOK, RangeOrdered, NEW id \in Ids, NoteEviction(id)
  PROVE  RangeOrdered' /\ EvictedRange' = Promise!Spanning(EvictedRange \cup {id})
<1>1. /\ id \in Nat /\ evLo \in Nat /\ evHi \in Nat /\ evicted \in BOOLEAN
      /\ evicted' = TRUE
      /\ evLo' = IF evicted /\ evLo <= id THEN evLo ELSE id
      /\ evHi' = IF evicted /\ id <= evHi THEN evHi ELSE id
  BY IdsAssumption DEF TypeOK, NoteEviction
<1> DEFINE S == EvictedRange \cup {id}
<1>2. RangeOrdered' /\ EvictedRange' = evLo' .. evHi'
  BY <1>1 DEF RangeOrdered, EvictedRange
<1>3. evLo' \in S /\ evHi' \in S
  BY <1>1 DEF RangeOrdered, EvictedRange
<1>4. \A x \in S : x \in Nat /\ evLo' <= x /\ x <= evHi'
  BY <1>1 DEF RangeOrdered, EvictedRange
<1> HIDE DEF S
<1>5. ASSUME NEW x \in evLo' .. evHi' PROVE x \in Promise!Spanning(S)
  BY <1>3 DEF Promise!Spanning
<1>6. ASSUME NEW x \in Promise!Spanning(S) PROVE x \in evLo' .. evHi'
  <2>1. PICK a \in S, b \in S : x \in a .. b BY DEF Promise!Spanning
  <2>2. a \in Nat /\ b \in Nat /\ evLo' <= a /\ b <= evHi' BY <1>4
  <2>3. evLo' \in Nat /\ evHi' \in Nat BY <1>3, <1>4
  <2> QED BY <2>1, <2>2, <2>3
<1>7. Promise!Spanning(S) = evLo' .. evHi' BY <1>5, <1>6
<1> QED BY <1>2, <1>7 DEF S

(* The stamp given to an added id orders it after every other member.      *)
LEMMA StampAppends ==
  ASSUME IInv, NEW id \in Ids
  PROVE  LET st == [stamp EXCEPT ![id] = NewNumber]
         IN  Promise!Appended(Mapped, id) =
               [ids     |-> MembersOf(st),
                older   |-> {p \in MembersOf(st) \X MembersOf(st) : st[p[1]] < st[p[2]]},
                evicted |-> EvictedRange]
<1> DEFINE st   == [stamp EXCEPT ![id] = NewNumber]
           rest == {p \in ByAge : id \notin {p[1], p[2]}}
           new  == {p \in MembersOf(st) \X MembersOf(st) : st[p[1]] < st[p[2]]}
<1>1. stamp \in [Ids -> Nat] /\ next \in Nat /\ StampsBehind
  BY DEF IInv, TypeOK
<1>2. MembersOf(st) = (Members \ {id}) \cup {id} /\ Members \subseteq Ids
  BY AddFacts DEF Members, MembersOf
<1>3. st[id] = next + 1 /\ \A x \in Members \ {id} : st[x] = stamp[x] /\ stamp[x] <= next
  BY <1>1, <1>2 DEF NewNumber, StampsBehind
<1>4. \A x \in Members : stamp[x] \in Nat
  BY <1>1, <1>2
<1>5. rest \cup ((Members \ {id}) \X {id}) = new
  <2> HIDE DEF st
  <2>1. ASSUME NEW p \in rest PROVE p \in new
    BY <1>2, <1>3 DEF ByAge
  <2>2. ASSUME NEW p \in (Members \ {id}) \X {id} PROVE p \in new
    <3>1. p[1] \in Members \ {id} /\ p[2] = id /\ p = <<p[1], p[2]>> OBVIOUS
    <3>2. st[p[1]] < st[p[2]] BY <1>1, <1>3, <1>4, <3>1
    <3> QED BY <1>2, <3>1, <3>2
  <2>3. ASSUME NEW p \in new PROVE p \in rest \cup ((Members \ {id}) \X {id})
    <3>1. /\ p = <<p[1], p[2]>> /\ st[p[1]] < st[p[2]]
          /\ p[1] \in (Members \ {id}) \cup {id} /\ p[2] \in (Members \ {id}) \cup {id}
      BY <1>2
    <3>2. CASE p[1] = id
      BY <1>1, <1>3, <1>4, <3>1, <3>2
    <3>3. CASE p[1] # id /\ p[2] = id
      BY <3>1, <3>3
    <3>4. CASE p[1] # id /\ p[2] # id
      BY <1>3, <3>1, <3>4 DEF ByAge
    <3> QED BY <3>2, <3>3, <3>4
  <2> QED BY <2>1, <2>2, <2>3
<1>6. Promise!Appended(Mapped, id) =
        [ids |-> Members \cup {id}, older |-> rest \cup ((Members \ {id}) \X {id}),
         evicted |-> EvictedRange]
  BY DEF Promise!Appended, Promise!Removed, Mapped
<1> QED BY <1>2, <1>5, <1>6

-----------------------------------------------------------------------------
LEMMA WithinKeepsPromise ==
  ASSUME RInv, NEW id \in Ids, next' = next + 1, AddWithin(id)
  PROVE  RangeOrdered' /\ Mapped' = Promise!Added(Mapped, id, Limit)
<1> DEFINE st == [stamp EXCEPT ![id] = NewNumber]
           all == Promise!Appended(Mapped, id)
<1>1. IInv BY DEF RInv
<1>2. all = [ids     |-> MembersOf(st),
             older   |-> {p \in MembersOf(st) \X MembersOf(st) : st[p[1]] < st[p[2]]},
             evicted |-> EvictedRange]
  BY <1>1, StampAppends
<1>3. stamp' = st /\ Members' = MembersOf(st) BY DEF AddWithin, Members
<1>4. evicted' = evicted /\ evLo' = evLo /\ evHi' = evHi BY DEF AddWithin
<1>5. Mapped' = all BY <1>2, <1>3, <1>4 DEF Mapped, ByAge, EvictedRange
<1>6. Cardinality(MembersOf(st)) <= Limit
  <2>1. Cardinality(MembersOf(st)) \in Nat BY <1>1, AddFacts
  <2> QED BY <2>1, LimitAssumption DEF AddWithin, Overfull
<1>7. Cardinality(all.ids) <= Limit BY <1>2, <1>6
<1>8. RangeOrdered' BY <1>4 DEF RInv, RangeOrdered
<1> QED BY <1>5, <1>7, <1>8, SameCount DEF Promise!Added

(* The entry popped last is the oldest member's, so the id that leaves the *)
(* queue is the one the promise drops.                                     *)
LEMMA EvictingKeepsPromise ==
  ASSUME RInv, NEW id \in Ids, next' = next + 1, AddEvicting(id)
  PROVE  RangeOrdered' /\ Mapped' = Promise!Added(Mapped, id, Limit)
<1> DEFINE st == [stamp EXCEPT ![id] = NewNumber]
           q  == queue \cup {[id |-> id, n |-> NewNumber]}
           M  == MembersOf(st)
           all == Promise!Appended(Mapped, id)
<1>1. IInv /\ TypeOK /\ RangeOrdered BY DEF RInv, IInv
<1>2. all = [ids |-> M, older |-> {p \in M \X M : st[p[1]] < st[p[2]]},
             evicted |-> EvictedRange]
  BY <1>1, StampAppends
<1>3. /\ st \in [Ids -> Nat] /\ q \in SUBSET Entry /\ M \subseteq Ids
      /\ Cardinality(M) \in Nat
      /\ \A x \in M : [id |-> x, n |-> st[x]] \in q
      /\ \A x, y \in M : st[x] = st[y] => x = y
  BY <1>1, AddFacts DEF MembersOf
<1>4. PICK old \in q :
        /\ Live(st, old)
        /\ \A e \in q : Live(st, e) => old.n <= e.n
        /\ stamp' = [st EXCEPT ![old.id] = 0]
        /\ NoteEviction(old.id)
  BY DEF AddEvicting
<1>5. old.id \in M /\ st[old.id] = old.n /\ old.n \in Nat
  BY <1>3, <1>4 DEF Entry, Live, MembersOf
<1>6. \A x \in M \ {old.id} : st[old.id] < st[x]
  <2> SUFFICES ASSUME NEW x \in M \ {old.id} PROVE st[old.id] < st[x] OBVIOUS
  <2>1. [id |-> x, n |-> st[x]] \in q /\ Live(st, [id |-> x, n |-> st[x]])
    BY <1>3 DEF Live
  <2>2. old.n <= st[x] BY <1>4, <2>1
  <2>3. st[x] # st[old.id] /\ st[x] \in Nat BY <1>3, <1>5
  <2> QED BY <1>5, <2>2, <2>3
<1> HIDE DEF st, q, M, all
<1>7. Promise!Oldest(all) = old.id
  <2> DEFINE First(x) == \A other \in M \ {x} : <<x, other>> \in all.older
  <2>1. First(old.id) BY <1>2, <1>5, <1>6
  <2>2. ASSUME NEW x \in M, First(x) PROVE x = old.id
    <3> SUFFICES ASSUME x # old.id PROVE FALSE OBVIOUS
    <3>1. st[x] < st[old.id] BY <1>2, <1>5, <2>2
    <3>2. st[old.id] < st[x] BY <1>6
    <3>3. st[x] \in Nat /\ st[old.id] \in Nat BY <1>3, <1>5
    <3> QED BY <3>1, <3>2, <3>3
  <2>3. Promise!Oldest(all) = CHOOSE x \in M : First(x)
    BY <1>2 DEF Promise!Oldest
  <2> HIDE DEF First
  <2> QED BY <1>5, <2>1, <2>2, <2>3
<1>8. RangeOrdered' /\ EvictedRange' = Promise!Spanning(EvictedRange \cup {old.id})
  <2>1. old.id \in Ids BY <1>3, <1>5
  <2> QED BY <1>1, <1>4, <2>1, RangeWidens
<1>9. Members' = M \ {old.id}
  BY <1>3, <1>4, <1>5 DEF Members, MembersOf, M
<1>10. ByAge' = {p \in {r \in M \X M : st[r[1]] < st[r[2]]} : old.id \notin {p[1], p[2]}}
  <2>1. \A x \in Members' : stamp'[x] = st[x] BY <1>3, <1>4, <1>9
  <2> QED BY <1>9, <2>1 DEF ByAge
<1>11. ~(Promise!Cardinality(all.ids) <= Limit)
  <2>1. all.ids = M /\ Cardinality(M) > Limit
    BY <1>2 DEF AddEvicting, Overfull, st, M
  <2> QED BY <1>3, <2>1, SameCount, LimitAssumption
<1>12. Promise!Added(Mapped, id, Limit)
         = [ids |-> M \ {old.id},
            older |-> {p \in all.older : old.id \notin {p[1], p[2]}},
            evicted |-> Promise!Spanning(all.evicted \cup {old.id})]
  <2> DEFINE drop == Promise!Removed(all, old.id)
  <2>1. /\ drop = [ids |-> M \ {old.id}, older |-> drop.older, evicted |-> EvictedRange]
        /\ drop.older = {p \in all.older : old.id \notin {p[1], p[2]}}
    BY <1>2 DEF Promise!Removed
  <2> HIDE DEF drop
  <2>2. Promise!Added(Mapped, id, Limit)
          = [drop EXCEPT !.evicted = Promise!Spanning(drop.evicted \cup {old.id})]
    BY <1>7, <1>11 DEF Promise!Added, drop, all
  <2>3. drop.evicted = EvictedRange /\ all.evicted = EvictedRange BY <1>2, <2>1
  <2> DEFINE wide == Promise!Spanning(drop.evicted \cup {old.id})
  <2> HIDE DEF wide
  <2>4. [drop EXCEPT !.evicted = wide]
          = [ids |-> M \ {old.id}, older |-> drop.older, evicted |-> wide]
    <3>1. drop = [ids |-> M \ {old.id}, older |-> drop.older, evicted |-> EvictedRange] BY <2>1
    <3> QED BY <3>1
  <2>5. Promise!Added(Mapped, id, Limit)
          = [ids |-> M \ {old.id}, older |-> drop.older, evicted |-> wide]
    BY <2>2, <2>4 DEF wide
  <2> QED BY <2>1, <2>3, <2>5 DEF wide
<1> QED BY <1>2, <1>8, <1>9, <1>10, <1>12 DEF Mapped

LEMMA RemoveKeepsPromise ==
  ASSUME RInv, NEW id \in Ids, Remove(id)
  PROVE  RangeOrdered' /\ Mapped' = Promise!Removed(Mapped, id)
<1>1. stamp \in [Ids -> Nat] BY DEF RInv, IInv, TypeOK
<1>2. /\ stamp' = [stamp EXCEPT ![id] = 0]
      /\ evicted' = evicted /\ evLo' = evLo /\ evHi' = evHi
  BY DEF Remove
<1>3. Members' = Members \ {id} /\ \A x \in Members' : stamp'[x] = stamp[x]
  BY <1>1, <1>2 DEF Members, MembersOf
<1>4. ByAge' = {p \in ByAge : id \notin {p[1], p[2]}} BY <1>3 DEF ByAge
<1>5. EvictedRange' = EvictedRange /\ RangeOrdered'
  BY <1>2 DEF EvictedRange, RInv, RangeOrdered
<1> QED BY <1>3, <1>4, <1>5 DEF Mapped, Promise!Removed

-----------------------------------------------------------------------------
LEMMA StartsAsPromised == Init => RInv /\ Mapped = Promise!NewWindow
<1> SUFFICES ASSUME Init PROVE RInv /\ Mapped = Promise!NewWindow OBVIOUS
<1>1. Members = {} BY DEF Init, Members, MembersOf
<1>2. ByAge = {} BY <1>1 DEF ByAge
<1> QED BY <1>1, <1>2, InitIInv
  DEF Init, RInv, RangeOrdered, Mapped, EvictedRange, Promise!NewWindow

LEMMA StepsAsPromised ==
  ASSUME RInv, [Next]_vars
  PROVE  RInv' /\ [Promise!Next]_Mapped
<1>1. IInv' BY StepIInv DEF RInv
<1>2. ASSUME NEW id \in Ids, Add(id)
      PROVE  RangeOrdered' /\ Mapped' = Promise!Added(Mapped, id, Limit)
  BY <1>2, WithinKeepsPromise, EvictingKeepsPromise DEF Add
<1>3. ASSUME NEW id \in Ids, Remove(id)
      PROVE  RangeOrdered' /\ Mapped' = Promise!Removed(Mapped, id)
  BY <1>3, RemoveKeepsPromise
<1>4. CASE Next
  BY <1>1, <1>2, <1>3, <1>4
  DEF Next, RInv, Promise!Next, Promise!AddId, Promise!RemoveId, Mapped
<1>5. CASE UNCHANGED vars
  BY <1>1, <1>5 DEF vars, RInv, RangeOrdered, Mapped, ByAge, EvictedRange, Members
<1> QED BY <1>4, <1>5

(* The queue, its stale entries, lazy eviction and compaction implement    *)
(* the window the order book is modelled on, for every limit and id set.   *)
THEOREM WindowImplementsPromise == Spec => KeepsThePromise
<1>1. Init => RInv /\ Promise!Init
  BY StartsAsPromised DEF Promise!Init, Mapped
<1>2. RInv /\ [Next]_vars => RInv' /\ [Promise!Next]_Mapped
  BY StepsAsPromised
<1> QED BY <1>1, <1>2, PTL DEF Spec, KeepsThePromise, Promise!Spec, Mapped
=============================================================================
