---------------------------- MODULE RecencyWindow ----------------------------
(***************************************************************************)
(* What a bounded id window promises its callers: it holds the ids added   *)
(* most recently, up to a limit, and for the ids it dropped it remembers   *)
(* only the range they span. IdWindow is the Go data structure that keeps  *)
(* this promise; the order book is modelled on the promise.                *)
(***************************************************************************)
EXTENDS Integers, FiniteSets

(* ids: the members. older: which member was added before which. evicted:  *)
(* the range of dropped ids.                                               *)
NewWindow == [ids |-> {}, older |-> {}, evicted |-> {}]

Has(w, id) == id \in w.ids

MayHaveEvicted(w, id) == id \in w.evicted

Removed(w, id) ==
  [ids     |-> w.ids \ {id},
   older   |-> {p \in w.older : id \notin {p[1], p[2]}},
   evicted |-> w.evicted]

(* id becomes the newest member, whether it was one before or not.         *)
Appended(w, id) ==
  [ids     |-> w.ids \cup {id},
   older   |-> Removed(w, id).older \cup ((w.ids \ {id}) \X {id}),
   evicted |-> w.evicted]

Oldest(w) == CHOOSE id \in w.ids : \A other \in w.ids \ {id} : <<id, other>> \in w.older

(* The least range that covers a set of ids.                               *)
Spanning(S) == UNION {UNION {a .. b : b \in S} : a \in S}

(* One id too many drops the oldest one and widens the range.              *)
Added(w, id, limit) ==
  LET all == Appended(w, id)
  IN  IF Cardinality(all.ids) <= limit THEN all
      ELSE [Removed(all, Oldest(all)) EXCEPT !.evicted = Spanning(@ \cup {Oldest(all)})]
=============================================================================
