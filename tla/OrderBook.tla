------------------------------ MODULE OrderBook ------------------------------
(***************************************************************************)
(* The market-by-order book of one instrument (engine/book.go) with the    *)
(* referential rules that read and change it (engine/gate.go, checkOrder*, *)
(* checkTradeExecGrouping, checkBatchAtomicityConsistency).                *)
(*                                                                         *)
(* Operators on the book's value, one per message. Each returns the book   *)
(* after the message and the verdicts on it: the rules it breaks, or       *)
(* "unverified" where a window may have forgotten the id. A verdict is a   *)
(* Violation only where the consumer gate holds; that is the caller's.     *)
(*                                                                         *)
(* Abstractions. The windows are RecencyWindow, which IdWindow implements. *)
(* side stands for everything an order keeps and nothing computes with     *)
(* (side, price, flags, entry time). Hidden orders never enter live, so    *)
(* the branches for a hidden live order are left out. Price bounds depend  *)
(* on the message and the reference data only.                             *)
(***************************************************************************)
EXTENDS RecencyWindow

CONSTANTS
  OrderIds,     \* order ids, u64 in the code
  MaxRemoved,   \* maxRemovedIDs
  MaxHidden,    \* maxHiddenIDs
  MaxTrades     \* maxExecTradeIDs

ASSUME OrderIdsAssumption == OrderIds \subseteq Nat
ASSUME WindowsAssumption  == {MaxRemoved, MaxHidden, MaxTrades} \subseteq Nat \ {0}

-----------------------------------------------------------------------------
NoOrder == [side |-> "none", source |-> 0, left |-> 0]

NewBook ==
  [ live |-> [o \in OrderIds |-> NoOrder],
    removed |-> NewWindow, hidden |-> NewWindow, trades |-> NewWindow ]

Live(bk, o) == bk.live[o] # NoOrder

Resting(bk) == {o \in OrderIds : Live(bk, o)}

(* An order leaves the book and is remembered as removed.                  *)
Retire(bk, o) ==
  [bk EXCEPT !.live[o] = NoOrder, !.removed = Added(@, o, MaxRemoved)]

After(bk, verdicts) == [book |-> bk, verdicts |-> verdicts]

-----------------------------------------------------------------------------
(* applyOrderAddFull. A hidden order is only remembered; a visible one     *)
(* replaces whatever rests under its id and is no longer a removed id.     *)
Inserted(bk, m) ==
  IF m.hidden THEN [bk EXCEPT !.hidden = Added(@, m.order, MaxHidden)]
  ELSE [bk EXCEPT !.live[m.order] = [side |-> m.side, source |-> m.source, left |-> m.qty],
                  !.removed = Removed(@, m.order)]

OnAdd(bk, m) ==
  After(Inserted(bk, m),
        IF ~m.hidden /\ Live(bk, m.order) THEN {"DUPLICATE_LIVE_ORDERADD"} ELSE {})

SourceDrift(order, m) ==
  IF m.source # 0 /\ order.source # 0 /\ m.source # order.source
    THEN {"SOURCE_ID_CONSISTENCY"} ELSE {}

(* A buyer takes from the asks, a seller from the bids.                    *)
WrongSide(order, m) ==
  IF \/ m.aggressor = "buyer"  /\ order.side # "ask"
     \/ m.aggressor = "seller" /\ order.side # "bid"
    THEN {"SIDE_PRICE_CONSISTENCY"} ELSE {}

ForgottenByHidden(bk, o) == MayHaveEvicted(bk.hidden, o)   \* variant: removed ids are not asked

(* mayHaveForgotten.                                                       *)
MayHaveForgotten(bk, o) == MayHaveEvicted(bk.removed, o) \/ MayHaveEvicted(bk.hidden, o)

(* Variant: the removed ids are asked before the hidden range.             *)
OnAbsentRemovedFirst(bk, o, dangling) ==
  IF Has(bk.hidden, o)           THEN {}
  ELSE IF Has(bk.removed, o)     THEN {"OPERATION_AFTER_REMOVAL"}
  ELSE IF MayHaveForgotten(bk, o) THEN {"unverified"}
  ELSE {dangling}

(* A cancel or an execution of an id that is not live.                     *)
OnAbsent(bk, o, dangling) ==
  IF Has(bk.hidden, o)                 THEN {}
  ELSE IF MayHaveEvicted(bk.hidden, o) THEN {"unverified"}
  ELSE IF Has(bk.removed, o)           THEN {"OPERATION_AFTER_REMOVAL"}
  ELSE IF MayHaveForgotten(bk, o)      THEN {"unverified"}
  ELSE {dangling}

OnCancel(bk, m) ==
  IF Live(bk, m.order)
    THEN After(Retire(bk, m.order), SourceDrift(bk.live[m.order], m))
    ELSE After(bk, OnAbsent(bk, m.order, "CANCEL_DANGLING_ORDER"))

QuantityRules(order, m) ==
  IF m.qty > order.left             THEN {"EXEC_OVERFILL"}
  ELSE IF m.full /\ m.qty # order.left THEN {"FULLFILL_FLAG_DISAGREEMENT"}
  ELSE {}

FillsUpFlagged(order, m) == m.full       \* variant: only the flag removes an order

(* The order leaves on the flag, whatever the quantities say, and when     *)
(* nothing of it remains. An overfill without the flag changes nothing.    *)
FillsUp(order, m) == m.full \/ m.qty = order.left

OnExecute(bk, m) ==
  LET noted == IF m.trade # 0 THEN [bk EXCEPT !.trades = Added(@, m.trade, MaxTrades)] ELSE bk
      order == bk.live[m.order]
  IN  CASE ~Live(bk, m.order) ->
             After(noted, OnAbsent(bk, m.order, "EXEC_DANGLING_ORDER"))
        [] Live(bk, m.order) ->
             After(CASE FillsUp(order, m) -> Retire(noted, m.order)
                     [] ~FillsUp(order, m) /\ m.qty < order.left ->
                          [noted EXCEPT !.live[m.order].left = @ - m.qty]
                     [] OTHER -> noted,
                   SourceDrift(order, m) \cup WrongSide(order, m) \cup QuantityRules(order, m))

(* A Trade with an id needs an OrderExecute that carried it.               *)
OnTrade(bk, m) ==
  After(bk, IF m.trade = 0 \/ Has(bk.trades, m.trade) THEN {}
            ELSE IF MayHaveEvicted(bk.trades, m.trade) THEN {"unverified"}
            ELSE {"EXEC_GROUPING"})

(* BatchBoundary: no live order may be left with nothing.                  *)
OnBoundary(bk) ==
  After(bk, IF \E o \in Resting(bk) : bk.live[o].left = 0
              THEN {"ATOMICITY_CONSISTENCY"} ELSE {})

OnOrderMessage(bk, m) ==
  CASE m.type = "add"     -> OnAdd(bk, m)
    [] m.type = "cancel"  -> OnCancel(bk, m)
    [] m.type = "execute" -> OnExecute(bk, m)
    [] m.type = "trade"   -> OnTrade(bk, m)
=============================================================================
