------------------------- MODULE IdWindowRefinement -------------------------
(***************************************************************************)
(* IdWindow implements WindowPromise. The refinement mapping orders the    *)
(* members by the number of their newest entry and reads the evicted range *)
(* off its bounds; the queue, its stale entries and the compaction are     *)
(* hidden by it.                                                           *)
(***************************************************************************)
EXTENDS IdWindow

ByAge == {p \in Members \X Members : stamp[p[1]] < stamp[p[2]]}

EvictedRange == IF evicted THEN evLo .. evHi ELSE {}

Promise == INSTANCE WindowPromise WITH
  window <- [ids |-> Members, older |-> ByAge, evicted |-> EvictedRange]

(* Every add and remove of the queue, with its stale entries, lazy         *)
(* eviction and compaction, does to the members and to the evicted range   *)
(* exactly what the promise of a window says: no member is lost early, in  *)
(* the wrong order or without widening the range.                          *)
KeepsThePromise == Promise!Spec
=============================================================================
