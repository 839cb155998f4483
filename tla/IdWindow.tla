------------------------------ MODULE IdWindow ------------------------------
(***************************************************************************)
(* The bounded ID set of the market-by-order book (engine/idwindow.go).    *)
(*                                                                         *)
(* The book remembers orders that left it, hidden orders and trade ids in  *)
(* three such windows. When a window is full, add evicts the oldest id and *)
(* widens one range, [evLo, evHi], which is all the window remembers of    *)
(* what it forgot: a miss inside the range may be an eviction, a miss      *)
(* outside it is a true miss, and only a true miss may be charged to the   *)
(* publisher.                                                              *)
(*                                                                         *)
(* The Go queue is a slice with a head index. Its entries carry strictly   *)
(* increasing insertion numbers, so the part from head on is modelled as   *)
(* the set of its entries, ordered by number; head itself is kept, because *)
(* the slots below it still belong to the slice.                           *)
(***************************************************************************)
EXTENDS Naturals, FiniteSets

CONSTANTS
  Ids,      \* the order or trade ids in play
  Limit,    \* the window's size, at least 1 (newIDWindow raises it)
  MaxAdds   \* bound on the number of add calls

ASSUME IdsAssumption   == Ids \subseteq Nat /\ IsFiniteSet(Ids)
ASSUME LimitAssumption == Limit \in Nat \ {0}

VARIABLES
  stamp,    \* members: the insertion number of an id's newest entry, 0 if none
  queue,    \* queue[head:], the entries not yet popped, some of them stale
  head,     \* popped entries the slice still holds
  next,     \* the last insertion number given out
  evicted, evLo, evHi,   \* the range of evicted ids, meaningful once evicted
  forgot    \* history: the ids whose last departure was an eviction

vars == <<stamp, queue, head, next, evicted, evLo, evHi, forgot>>

-----------------------------------------------------------------------------
Entry == [id : Ids, n : Nat \ {0}]

MembersOf(st) == {id \in Ids : st[id] # 0}
Members == MembersOf(stamp)

(* Variant for the mutation runs: any entry of a member counts as live, so *)
(* the stale entry of a re-added id evicts it.                             *)
LiveByMembership(st, e) == st[e.id] # 0

(* An entry is live while it is the newest one of its id. *)
Live(st, e) == st[e.id] = e.n

(* Variant: the loop condition is off by one. *)
OverfullByTwo(st) == Cardinality(MembersOf(st)) > Limit + 1

(* add's loop condition. *)
Overfull(st) == Cardinality(MembersOf(st)) > Limit

(* Variant: the insertion number is read before it is incremented. *)
StaleNumber == next

(* The insertion number of the entry being added. *)
NewNumber == next + 1

MayHaveEvicted(id) == evicted /\ evLo <= id /\ id <= evHi

-----------------------------------------------------------------------------
(* Variant: the range keeps its first lower end. *)
NoteEvictionUpwards(id) ==
  /\ evicted' = TRUE
  /\ evLo' = IF evicted THEN evLo ELSE id
  /\ evHi' = IF evicted /\ id <= evHi THEN evHi ELSE id

NoteEviction(id) ==
  /\ evicted' = TRUE
  /\ evLo' = IF evicted /\ evLo <= id THEN evLo ELSE id
  /\ evHi' = IF evicted /\ id <= evHi THEN evHi ELSE id

(* Variant: the queue is never compacted. *)
CompactNever(st, q, h) == queue' = q /\ head' = h

(* compact: drop the stale entries once more than twice the limit are held, *)
(* given the entries q that are left and the h slots popped before them.    *)
Compact(st, q, h) ==
  IF Cardinality(q) <= 2 * Limit
    THEN queue' = q /\ head' = h
    ELSE queue' = {e \in q : Live(st, e)} /\ head' = 0

(* add of an id that does not overfill the window: nothing is popped. *)
AddWithin(id) ==
  LET st == [stamp EXCEPT ![id] = NewNumber]
  IN  /\ ~Overfull(st)
      /\ stamp' = st
      /\ Compact(st, queue \cup {[id |-> id, n |-> NewNumber]}, head)
      /\ forgot' = forgot \ {id}
      /\ UNCHANGED <<evicted, evLo, evHi>>

(* add of one id too many: entries are popped up to and including the      *)
(* oldest live one, whose id leaves the window.                            *)
AddEvicting(id) ==
  LET st == [stamp EXCEPT ![id] = NewNumber]
      q  == queue \cup {[id |-> id, n |-> NewNumber]}
  IN  /\ Overfull(st)
      /\ \E old \in q :
           /\ Live(st, old)
           /\ \A e \in q : Live(st, e) => old.n <= e.n
           /\ LET left == {e \in q : e.n > old.n}
              IN  /\ stamp' = [st EXCEPT ![old.id] = 0]
                  /\ Compact(stamp', left, head + Cardinality(q \ left))
                  /\ NoteEviction(old.id)
                  /\ forgot' = (forgot \ {id}) \cup {old.id}

Add(id) ==
  /\ next < MaxAdds
  /\ next' = next + 1
  /\ AddWithin(id) \/ AddEvicting(id)

(* remove: the caller knows why the id goes, so the range does not change. *)
Remove(id) ==
  /\ stamp' = [stamp EXCEPT ![id] = 0]
  /\ forgot' = IF stamp[id] # 0 THEN forgot \ {id} ELSE forgot
  /\ UNCHANGED <<queue, head, next, evicted, evLo, evHi>>

Init ==
  /\ stamp = [id \in Ids |-> 0]
  /\ queue = {}
  /\ head = 0
  /\ next = 0
  /\ evicted = FALSE /\ evLo = 0 /\ evHi = 0
  /\ forgot = {}

Next == \E id \in Ids : Add(id) \/ Remove(id)

Spec == Init /\ [][Next]_vars

-----------------------------------------------------------------------------
(* Type invariant: the state is what the Go struct can hold. *)
TypeOK ==
  /\ stamp \in [Ids -> Nat]
  /\ queue \in SUBSET Entry /\ IsFiniteSet(queue)
  /\ head \in Nat
  /\ next \in Nat
  /\ evicted \in BOOLEAN /\ evLo \in Nat /\ evHi \in Nat
  /\ forgot \in SUBSET Ids

(* The window never holds more than its limit, whatever the mix of adds,   *)
(* re-adds and removes: the memory promise idwindow.go makes for an era.   *)
SizeBounded == Cardinality(Members) <= Limit

(* An id the window evicted and did not see again is inside the evicted    *)
(* range, so a miss outside the range is a true miss. checkOrderCancel and *)
(* checkOrderExecute charge the publisher on such a miss.                  *)
MissOutsideRangeIsTrue ==
  \A id \in forgot : id \notin Members /\ MayHaveEvicted(id)

(* The entries not yet popped stay within twice the limit, and every       *)
(* member still has its live entry among them, so eviction always finds    *)
(* something to evict (the Go loop indexes queue[head] unchecked).         *)
EveryMemberIsQueued ==
  /\ Cardinality(queue) <= 2 * Limit
  /\ \A id \in Members : [id |-> id, n |-> stamp[id]] \in queue
=============================================================================
