---------------------------- MODULE WindowPromise ----------------------------
(***************************************************************************)
(* The abstract specification of an id window: RecencyWindow as a machine. *)
(***************************************************************************)
EXTENDS RecencyWindow

CONSTANTS Ids, Limit

VARIABLE window

AddId(id)    == window' = Added(window, id, Limit)
RemoveId(id) == window' = Removed(window, id)

Init == window = NewWindow
Next == \E id \in Ids : AddId(id) \/ RemoveId(id)

Spec == Init /\ [][Next]_window
=============================================================================
