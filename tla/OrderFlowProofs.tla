--------------------------- MODULE OrderFlowProofs ---------------------------
(***************************************************************************)
(* The live orders of the book are the true ones, no lawful message is     *)
(* charged and no broken one is passed over or misnamed: for every set of  *)
(* ids, sources and trades, every quantity and every size of the windows.  *)
(*                                                                         *)
(* BookIsTruth is inductive once the book and the truth are typed; Mirrors *)
(* states it id by id. The windows do not matter to it: no message changes *)
(* the live orders by what a window holds. The verdicts rest on Remembers: *)
(* an id that left the book is still held or inside the evicted range, and *)
(* what a window holds did leave.                                          *)
(***************************************************************************)
EXTENDS OrderFlow, TLAPS

Fates == {[fate |-> "new"], [fate |-> "hidden"], [fate |-> "gone"]}

IsBook(b) ==
  /\ DOMAIN b = {"live", "removed", "hidden", "trades"}
  /\ b.live \in [OrderIds -> Orders \cup {NoOrder}]

IsTruth(t) == t \in [OrderIds -> Orders \cup Fates]

Mirrors(b, t) ==
  \A o \in OrderIds : b.live[o] = IF t[o] \in Orders THEN t[o] ELSE NoOrder

IInv == IsBook(bk) /\ IsTruth(truth) /\ Mirrors(bk, truth)

-----------------------------------------------------------------------------
(* Orders, the absent order and the fates are different things.            *)
LEMMA FatesAreNoOrders == Fates \cap Orders = {} /\ NoOrder \notin Orders
<1>1. ASSUME NEW r \in Orders PROVE r \notin Fates
  <2>1. DOMAIN r = {"side", "source", "left"} BY DEF Orders
  <2>2. \A f \in Fates : DOMAIN f = {"fate"} BY DEF Fates
  <2>3. "side" \notin {"fate"} OBVIOUS
  <2> QED BY <2>1, <2>2, <2>3
<1>2. \A r \in Orders : r.left \in 1 .. MaxLots BY DEF Orders
<1>3. NoOrder.left = 0 BY DEF NoOrder
<1> QED BY <1>1, <1>2, <1>3, FlowAssumption DEF FlowAssumption

(* What rests is what mirrors the truth.                                   *)
LEMMA MirrorIsTruth == IInv => BookIsTruth
<1> SUFFICES ASSUME IInv PROVE BookIsTruth OBVIOUS
<1>1. Visible = {o \in OrderIds : truth[o] \in Orders}
  BY FatesAreNoOrders DEF Visible, New, Hidden, Gone, IInv, IsTruth, Fates
<1>2. Resting(bk) = {o \in OrderIds : truth[o] \in Orders}
  BY FatesAreNoOrders DEF Resting, Live, IInv, Mirrors
<1> QED BY <1>1, <1>2 DEF BookIsTruth, IInv, Mirrors

-----------------------------------------------------------------------------
(* What each message does to the live orders.                              *)
LEMMA AddLives ==
  ASSUME NEW b, IsBook(b), NEW o \in OrderIds, NEW order \in Orders
  PROVE  LET after == OnAdd(b, Add(o, order, FALSE)).book
         IN  IsBook(after) /\ after.live = [b.live EXCEPT ![o] = order]
<1>1. order = [side |-> order.side, source |-> order.source, left |-> order.left]
  BY DEF Orders
<1> QED BY <1>1 DEF OnAdd, Inserted, Add, After, IsBook

LEMMA AddHiddenLives ==
  ASSUME NEW b, IsBook(b), NEW o \in OrderIds, NEW order \in Orders
  PROVE  LET after == OnAdd(b, Add(o, order, TRUE)).book
         IN  IsBook(after) /\ after.live = b.live
BY DEF OnAdd, Inserted, Add, After, IsBook

LEMMA RetireLives ==
  ASSUME NEW b, IsBook(b), NEW o \in OrderIds
  PROVE  IsBook(Retire(b, o)) /\ Retire(b, o).live = [b.live EXCEPT ![o] = NoOrder]
BY DEF Retire, IsBook

LEMMA CancelLives ==
  ASSUME NEW b, IsBook(b), NEW o \in OrderIds, NEW s
  PROVE  LET after == OnCancel(b, Cancel(o, s)).book
         IN  IsBook(after) /\ after.live = [b.live EXCEPT ![o] = NoOrder]
<1>1. CASE Live(b, o) BY <1>1, RetireLives DEF OnCancel, Cancel, After
<1>2. CASE ~Live(b, o) BY <1>2 DEF OnCancel, Cancel, After, Live, IsBook
<1> QED BY <1>1, <1>2

LEMMA ExecuteLives ==
  ASSUME NEW b, IsBook(b), NEW o \in OrderIds, Live(b, o),
         NEW q \in 1 .. MaxLots, q <= b.live[o].left, NEW f \in BOOLEAN, f => q = b.live[o].left,
         NEW s, NEW a, NEW t
  PROVE  LET after == OnExecute(b, Execute(o, s, a, q, f, t)).book
             left  == b.live[o].left
         IN  /\ IsBook(after)
             /\ after.live = [b.live EXCEPT ![o] = IF q = left THEN NoOrder
                                                   ELSE [@ EXCEPT !.left = left - q]]
<1> DEFINE m == Execute(o, s, a, q, f, t)
           noted == IF m.trade # 0 THEN [b EXCEPT !.trades = Added(@, m.trade, MaxTrades)]
                    ELSE b
           order == b.live[o]
<1>1. IsBook(noted) /\ noted.live = b.live BY DEF IsBook
<1>2. m.order = o /\ m.qty = q /\ m.full = f BY DEF Execute
<1>3. order \in Orders BY DEF IsBook, Live
<1>4. order.left \in 1 .. MaxLots BY <1>3 DEF Orders
<1>5. FillsUp(order, m) <=> q = order.left BY <1>2 DEF FillsUp
<1>6. CASE q = order.left
  <2>1. OnExecute(b, m).book = Retire(noted, o)
    BY <1>2, <1>5, <1>6 DEF OnExecute, After
  <2>2. IsBook(Retire(noted, o)) /\ Retire(noted, o).live = [noted.live EXCEPT ![o] = NoOrder]
    <3> HIDE DEF noted
    <3> QED BY <1>1, RetireLives
  <2> HIDE DEF noted
  <2> QED BY <1>1, <1>6, <2>1, <2>2
<1>7. CASE q # order.left
  <2>1. q < order.left BY <1>4, <1>7, FlowAssumption DEF FlowAssumption
  <2>2. OnExecute(b, m).book = [noted EXCEPT !.live[o].left = @ - q]
    BY <1>2, <1>5, <1>7, <2>1 DEF OnExecute, After
  <2>3. [order EXCEPT !.left = order.left - q] \in Orders
    <3>1. order.left - q \in 1 .. MaxLots BY <1>4, <2>1, FlowAssumption DEF FlowAssumption
    <3> QED BY <1>3, <3>1 DEF Orders
  <2>4. [noted EXCEPT !.live[o].left = @ - q].live
          = [b.live EXCEPT ![o] = [@ EXCEPT !.left = order.left - q]]
    BY <1>1 DEF IsBook
  <2> QED BY <1>1, <1>7, <2>2, <2>3, <2>4 DEF IsBook
<1> QED BY <1>6, <1>7

(* An operation on an id that is not live leaves the live orders alone.    *)
LEMMA AbsentLives ==
  ASSUME NEW b, IsBook(b), NEW m, ~Live(b, m.order)
  PROVE  LET after == OnExecute(b, m).book
         IN  IsBook(after) /\ after.live = b.live
BY DEF OnExecute, After, IsBook

-----------------------------------------------------------------------------
(* An id whose order and fate change alike keeps the mirror.               *)
LEMMA MirrorMoves ==
  ASSUME IInv, NEW o \in OrderIds, NEW t \in Orders \cup Fates,
         truth' = [truth EXCEPT ![o] = t], IsBook(bk'),
         bk'.live = [bk.live EXCEPT ![o] = IF t \in Orders THEN t ELSE NoOrder]
  PROVE  IInv'
BY DEF IInv, IsBook, IsTruth, Mirrors

LEMMA MirrorStays ==
  ASSUME IInv, truth' = truth, IsBook(bk'), bk'.live = bk.live
  PROVE  IInv'
BY DEF IInv, IsBook, IsTruth, Mirrors

LEMMA FlowStarts == FlowInit => IInv
<1> SUFFICES ASSUME FlowInit PROVE IInv OBVIOUS
<1>1. IsBook(bk) BY DEF FlowInit, NewBook, IsBook
<1>2. IsTruth(truth) BY DEF FlowInit, IsTruth, Fates
<1>3. [fate |-> "new"] \notin Orders BY FatesAreNoOrders DEF Fates
<1> QED BY <1>1, <1>2, <1>3 DEF FlowInit, NewBook, IInv, Mirrors

-----------------------------------------------------------------------------
(* Which book and which truth a lawful message leaves.                     *)
LEMMA TellsBook ==
  ASSUME NEW m, NEW fates, Tell(m, fates)
  PROVE  bk' = OnOrderMessage(bk, m).book /\ truth' = fates
BY DEF Tell

LEMMA OpenKeeps ==
  ASSUME IInv, NEW o \in OrderIds, NEW order \in Orders,
         OpenOrder(o, order) \/ OpenHidden(o, order)
  PROVE  IInv'
<1> IsBook(bk) BY DEF IInv
<1>1. CASE OpenOrder(o, order)
  <2>1. bk' = OnAdd(bk, Add(o, order, FALSE)).book
    BY <1>1, TellsBook DEF OpenOrder, OnOrderMessage, Add
  <2>2. truth' = [truth EXCEPT ![o] = order] BY <1>1, TellsBook DEF OpenOrder
  <2>3. IsBook(bk') /\ bk'.live = [bk.live EXCEPT ![o] = order] BY <2>1, AddLives
  <2> QED BY <2>2, <2>3, MirrorMoves
<1>2. CASE OpenHidden(o, order)
  <2>1. bk' = OnAdd(bk, Add(o, order, TRUE)).book
    BY <1>2, TellsBook DEF OpenHidden, OnOrderMessage, Add
  <2>2. truth' = [truth EXCEPT ![o] = [fate |-> "hidden"]]
    BY <1>2, TellsBook DEF OpenHidden
  <2>3. truth[o] \notin Orders
    BY <1>2, FatesAreNoOrders DEF OpenHidden, New, Gone, Fates
  <2>4. IsBook(bk') /\ bk'.live = bk.live BY <2>1, AddHiddenLives
  <2>5. bk.live[o] = NoOrder BY <2>3 DEF IInv, Mirrors
  <2>6. bk'.live = [bk.live EXCEPT ![o] = NoOrder] BY <2>4, <2>5 DEF IsBook
  <2>7. [fate |-> "hidden"] \in Fates \ Orders BY FatesAreNoOrders DEF Fates
  <2> QED BY <2>2, <2>4, <2>6, <2>7, MirrorMoves
<1> QED BY <1>1, <1>2

LEMMA CancelKeeps ==
  ASSUME IInv, NEW o \in OrderIds, CancelOrder(o) PROVE IInv'
<1> IsBook(bk) BY DEF IInv
<1>1. PICK s : Tell(Cancel(o, s), [truth EXCEPT ![o] = [fate |-> "gone"]]) BY DEF CancelOrder
<1>2. bk' = OnCancel(bk, Cancel(o, s)).book
  BY <1>1, TellsBook DEF OnOrderMessage, Cancel
<1>3. truth' = [truth EXCEPT ![o] = [fate |-> "gone"]] BY <1>1, TellsBook
<1>4. [fate |-> "gone"] \in Fates \ Orders BY FatesAreNoOrders DEF Fates
<1> QED BY <1>2, <1>3, <1>4, CancelLives, MirrorMoves

(* A visible id mirrors an order, any other id nothing.                    *)
LEMMA VisibleMirrors ==
  ASSUME IInv, NEW o \in OrderIds
  PROVE  /\ o \in Visible => truth[o] \in Orders /\ bk.live[o] = truth[o] /\ Live(bk, o)
         /\ o \in Hidden  => ~Live(bk, o) /\ bk.live[o] = NoOrder
<1>1. CASE o \in Visible
  <2>1. truth[o] \in Orders
    BY <1>1 DEF IInv, IsTruth, Visible, New, Hidden, Gone, Fates
  <2>2. truth[o] \notin Fates BY <2>1, FatesAreNoOrders
  <2>3. o \notin Hidden BY <2>2 DEF Hidden, Fates
  <2> QED BY <2>1, <2>3, FatesAreNoOrders DEF IInv, Mirrors, Live
<1>2. CASE o \in Hidden
  <2>1. truth[o] \notin Orders BY <1>2, FatesAreNoOrders DEF Hidden, Fates
  <2> QED BY <1>2, <2>1 DEF IInv, Mirrors, Live, Visible
<1> QED BY <1>1, <1>2

LEMMA ExecuteKeeps ==
  ASSUME IInv, NEW o \in OrderIds, NEW q \in 1 .. MaxLots, NEW t, ExecuteOrder(o, q, t)
  PROVE  IInv'
<1> DEFINE left == truth[o].left
           fate == IF q = left THEN [fate |-> "gone"] ELSE [truth[o] EXCEPT !.left = @ - q]
<1>1. PICK a \in {"unknown", IF truth[o].side = "ask" THEN "buyer" ELSE "seller"},
           f \in {q = left, FALSE} :
        Tell(Execute(o, truth[o].source, a, q, f, t), [truth EXCEPT ![o] = fate])
  BY DEF ExecuteOrder
<1>2. o \in Visible /\ q <= left BY DEF ExecuteOrder
<1>3. truth[o] \in Orders /\ bk.live[o] = truth[o] /\ Live(bk, o) BY <1>2, VisibleMirrors
<1>4. IsBook(bk) BY DEF IInv
<1>5. bk' = OnExecute(bk, Execute(o, truth[o].source, a, q, f, t)).book
  BY <1>1, TellsBook DEF OnOrderMessage, Execute
<1>6. truth' = [truth EXCEPT ![o] = fate] BY <1>1, TellsBook
<1>7. f \in BOOLEAN /\ (f => q = left) OBVIOUS
<1>8. /\ IsBook(bk')
      /\ bk'.live = [bk.live EXCEPT ![o] = IF q = left THEN NoOrder
                                           ELSE [@ EXCEPT !.left = left - q]]
  BY <1>2, <1>3, <1>4, <1>5, <1>7, ExecuteLives
<1>9. CASE q = left
  <2>1. fate \in Fates \ Orders BY <1>9, FatesAreNoOrders DEF Fates
  <2> QED BY <1>6, <1>8, <1>9, <2>1, MirrorMoves
<1>10. CASE q # left
  <2>1. left - q \in 1 .. MaxLots
    <3>1. left \in 1 .. MaxLots BY <1>3 DEF Orders
    <3> QED BY <1>2, <1>10, <3>1, FlowAssumption DEF FlowAssumption
  <2>2. fate = [truth[o] EXCEPT !.left = left - q] BY <1>10
  <2>3. fate \in Orders BY <1>3, <2>1, <2>2 DEF Orders
  <2>4. bk'.live = [bk.live EXCEPT ![o] = fate] BY <1>3, <1>8, <1>10, <2>2 DEF IInv, IsBook
  <2> QED BY <1>6, <1>8, <2>3, <2>4, MirrorMoves
<1> QED BY <1>9, <1>10

LEMMA OperateHiddenKeeps ==
  ASSUME IInv, NEW o \in OrderIds, NEW t, OperateHidden(o, t) PROVE IInv'
<1>1. PICK m \in {Cancel(o, 0), Execute(o, 0, "unknown", 1, TRUE, t)} : Tell(m, truth)
  BY DEF OperateHidden
<1>2. ~Live(bk, o) /\ bk.live[o] = NoOrder BY VisibleMirrors DEF OperateHidden
<1>3. IsBook(bk) BY DEF IInv
<1>4. truth' = truth BY <1>1, TellsBook
<1>5. CASE m = Cancel(o, 0)
  <2>1. bk' = OnCancel(bk, m).book BY <1>1, <1>5, TellsBook DEF OnOrderMessage, Cancel
  <2>2. IsBook(bk') /\ bk'.live = [bk.live EXCEPT ![o] = NoOrder]
    BY <1>3, <1>5, <2>1, CancelLives
  <2>3. bk'.live = bk.live BY <1>2, <1>3, <2>2 DEF IsBook
  <2> QED BY <1>4, <2>2, <2>3, MirrorStays
<1>6. CASE m = Execute(o, 0, "unknown", 1, TRUE, t)
  <2>1. bk' = OnExecute(bk, m).book BY <1>1, <1>6, TellsBook DEF OnOrderMessage, Execute
  <2>2. m.order = o BY <1>6 DEF Execute
  <2>3. IsBook(bk') /\ bk'.live = bk.live BY <1>2, <1>3, <2>1, <2>2, AbsentLives
  <2> QED BY <1>4, <2>3, MirrorStays
<1> QED BY <1>5, <1>6

LEMMA TradeKeeps ==
  ASSUME IInv, NEW t, ReportTrade(t) PROVE IInv'
<1>1. bk' = bk BY TellsBook DEF ReportTrade, OnOrderMessage, Trade, OnTrade, After
<1>2. truth' = truth BY TellsBook DEF ReportTrade
<1> QED BY <1>1, <1>2, MirrorStays DEF IInv

LEMMA BreakKeeps ==
  ASSUME IInv, BreakIdentity \/ BreakTerms PROVE IInv'
<1>1. bk' = bk /\ truth' = truth BY DEF BreakIdentity, BreakTerms, Break
<1> QED BY <1>1, MirrorStays DEF IInv

(* The mirror is kept by every message, lawful or not.                     *)
LEMMA FlowKeeps == IInv /\ [FlowNext]_flowVars => IInv'
<1> SUFFICES ASSUME IInv, [FlowNext]_flowVars PROVE IInv' OBVIOUS
<1>1. ASSUME NEW o \in OrderIds, NEW order \in Orders,
             OpenOrder(o, order) \/ OpenHidden(o, order)
      PROVE  IInv'
  BY <1>1, OpenKeeps
<1>2. ASSUME NEW o \in OrderIds, CancelOrder(o) PROVE IInv' BY <1>2, CancelKeeps
<1>3. ASSUME NEW o \in OrderIds, NEW q \in 1 .. MaxLots, NEW t \in TradeIds,
             ExecuteOrder(o, q, t)
      PROVE  IInv'
  BY <1>3, ExecuteKeeps
<1>4. ASSUME NEW o \in OrderIds, NEW t \in TradeIds, OperateHidden(o, t) PROVE IInv'
  BY <1>4, OperateHiddenKeeps
<1>5. ASSUME NEW t \in TradeIds, ReportTrade(t) PROVE IInv' BY <1>5, TradeKeeps
<1>6. CASE BreakIdentity \/ BreakTerms BY <1>6, BreakKeeps
<1>7. CASE UNCHANGED flowVars BY <1>7, MirrorStays DEF flowVars, IInv
<1> QED BY <1>1, <1>2, <1>3, <1>4, <1>5, <1>6, <1>7 DEF FlowNext

-----------------------------------------------------------------------------
(* What the windows know of the ids that left.                             *)
Known(w, x) == Has(w, x) \/ MayHaveEvicted(w, x)

IsWindow(w) == w.ids \subseteq Int /\ w.evicted \subseteq Int

RemembersOrders(b, t) ==
  /\ IsWindow(b.removed) /\ IsWindow(b.hidden)
  /\ \A o \in OrderIds :
       /\ t[o] = [fate |-> "hidden"] => Known(b.hidden, o)
       /\ t[o] = [fate |-> "gone"]   => Known(b.removed, o)
       /\ Has(b.hidden, o)  => t[o] = [fate |-> "hidden"]
       /\ Has(b.removed, o) => t[o] \in {[fate |-> "gone"], [fate |-> "hidden"]}

RemembersTrades(b, tr) ==
  /\ IsWindow(b.trades)
  /\ \A x \in TradeIds \ {0} : /\ x \in tr => Known(b.trades, x)
                               /\ Has(b.trades, x) => x \in tr

Remembers == RemembersOrders(bk, truth) /\ RemembersTrades(bk, traded)

VerdictsRight == LawfulNeverCharged /\ DefectsAreNamed

SInv == IInv /\ Remembers /\ VerdictsRight

(* A range covers the integers it is made to span, and only integers.      *)
LEMMA SpanningCovers ==
  ASSUME NEW S
  PROVE  S \cap Int \subseteq Spanning(S) /\ Spanning(S) \subseteq Int
<1>1. \A x : x \in Spanning(S) <=> \E a, b \in S : x \in a .. b BY DEF Spanning
<1> QED BY <1>1

(* Adding an id forgets nothing: what was held or inside the range still   *)
(* is, and only the added id may be new among the members.                 *)
LEMMA AddedKnows ==
  ASSUME NEW w, IsWindow(w), NEW id \in Int, NEW limit
  PROVE  LET after == Added(w, id, limit)
         IN  /\ IsWindow(after)
             /\ Known(after, id)
             /\ \A x : Known(w, x) => Known(after, x)
             /\ \A x : Has(after, x) => Has(w, x) \/ x = id
<1> DEFINE all  == Appended(w, id)
           drop == Removed(all, Oldest(all))
           wide == Spanning(drop.evicted \cup {Oldest(all)})
<1>1. all.ids = w.ids \cup {id} /\ all.evicted = w.evicted BY DEF Appended
<1>2. drop.ids = all.ids \ {Oldest(all)} /\ drop.evicted = w.evicted BY <1>1 DEF Removed
<1>3. DOMAIN drop = {"ids", "older", "evicted"} BY DEF Removed
<1> HIDE DEF all, drop
<1>4. w.evicted \subseteq Int /\ w.ids \subseteq Int BY DEF IsWindow
<1>5. /\ \A x \in Int : x \in w.evicted \/ x = Oldest(all) => x \in wide
      /\ wide \subseteq Int
  BY <1>2, SpanningCovers
<1> HIDE DEF wide
<1>6. CASE Cardinality(all.ids) <= limit
  <2>1. Added(w, id, limit) = all BY <1>6 DEF Added, all
  <2> QED BY <1>1, <1>4, <2>1 DEF IsWindow, Known, Has, MayHaveEvicted
<1>7. CASE ~(Cardinality(all.ids) <= limit)
  <2>1. Added(w, id, limit) = [drop EXCEPT !.evicted = wide]
    BY <1>7 DEF Added, all, drop, wide
  <2>2. /\ Added(w, id, limit).ids = all.ids \ {Oldest(all)}
        /\ Added(w, id, limit).evicted = wide
    BY <1>2, <1>3, <2>1
  <2> QED BY <1>1, <1>4, <1>5, <2>2 DEF IsWindow, Known, Has, MayHaveEvicted
<1> QED BY <1>6, <1>7

LEMMA RemovedKnows ==
  ASSUME NEW w, IsWindow(w), NEW id
  PROVE  LET after == Removed(w, id)
         IN  /\ IsWindow(after)
             /\ \A x : x # id /\ Known(w, x) => Known(after, x)
             /\ \A x : Has(after, x) => Has(w, x) /\ x # id
BY DEF Removed, IsWindow, Known, Has, MayHaveEvicted

-----------------------------------------------------------------------------
(* What each message does to the windows.                                  *)
LEMMA AddWindows ==
  ASSUME NEW b, IsBook(b), NEW m
  PROVE  LET after == OnAdd(b, m).book
         IN  /\ after.removed = IF m.hidden THEN b.removed ELSE Removed(b.removed, m.order)
             /\ after.hidden = IF m.hidden THEN Added(b.hidden, m.order, MaxHidden) ELSE b.hidden
             /\ after.trades = b.trades
BY DEF OnAdd, Inserted, After, IsBook

LEMMA RetireWindows ==
  ASSUME NEW b, IsBook(b), NEW o
  PROVE  /\ Retire(b, o).removed = Added(b.removed, o, MaxRemoved)
         /\ Retire(b, o).hidden = b.hidden /\ Retire(b, o).trades = b.trades
BY DEF Retire, IsBook

LEMMA CancelWindows ==
  ASSUME NEW b, IsBook(b), NEW m
  PROVE  LET after == OnCancel(b, m).book
         IN  /\ after.removed = IF Live(b, m.order) THEN Added(b.removed, m.order, MaxRemoved)
                                ELSE b.removed
             /\ after.hidden = b.hidden /\ after.trades = b.trades
BY RetireWindows DEF OnCancel, After

LEMMA ExecuteWindows ==
  ASSUME NEW b, IsBook(b), NEW m
  PROVE  LET after == OnExecute(b, m).book
         IN  /\ after.removed = IF Live(b, m.order) /\ FillsUp(b.live[m.order], m)
                                THEN Added(b.removed, m.order, MaxRemoved) ELSE b.removed
             /\ after.hidden = b.hidden
             /\ after.trades = IF m.trade # 0 THEN Added(b.trades, m.trade, MaxTrades)
                               ELSE b.trades
<1> DEFINE noted == IF m.trade # 0 THEN [b EXCEPT !.trades = Added(@, m.trade, MaxTrades)]
                    ELSE b
           order == b.live[m.order]
<1>1. /\ IsBook(noted)
      /\ noted.removed = b.removed /\ noted.hidden = b.hidden
      /\ noted.trades = IF m.trade # 0 THEN Added(b.trades, m.trade, MaxTrades) ELSE b.trades
  BY DEF IsBook
<1>2. CASE ~Live(b, m.order)
  <2>1. OnExecute(b, m).book = noted BY <1>2 DEF OnExecute, After
  <2> HIDE DEF noted
  <2> QED BY <1>1, <1>2, <2>1
<1>3. CASE Live(b, m.order) /\ FillsUp(order, m)
  <2>1. OnExecute(b, m).book = Retire(noted, m.order) BY <1>3 DEF OnExecute, After
  <2> HIDE DEF noted
  <2> QED BY <1>1, <1>3, <2>1, RetireWindows
<1>4. CASE Live(b, m.order) /\ ~FillsUp(order, m)
  <2>1. \/ OnExecute(b, m).book = noted
        \/ OnExecute(b, m).book = [noted EXCEPT !.live[m.order].left = @ - m.qty]
    BY <1>4 DEF OnExecute, After
  <2> HIDE DEF noted
  <2> QED BY <1>1, <1>4, <2>1 DEF IsBook
<1> QED BY <1>2, <1>3, <1>4

(* Executing under a trade id leaves it known.                             *)
LEMMA TradeRemembered ==
  ASSUME NEW b, NEW c, NEW tr, NEW t \in TradeIds, RemembersTrades(b, tr),
         c.trades = IF t # 0 THEN Added(b.trades, t, MaxTrades) ELSE b.trades
  PROVE  RemembersTrades(c, tr \cup {t})
<1>1. t \in Int /\ IsWindow(b.trades) BY FlowAssumption DEF FlowAssumption, RemembersTrades
<1>2. CASE t = 0 BY <1>2 DEF RemembersTrades
<1>3. CASE t # 0 BY <1>1, <1>3, AddedKnows DEF RemembersTrades
<1> QED BY <1>2, <1>3

LEMMA TradesStay ==
  ASSUME NEW b, NEW c, NEW tr, RemembersTrades(b, tr), c.trades = b.trades
  PROVE  RemembersTrades(c, tr)
BY DEF RemembersTrades

LEMMA OrdersStay ==
  ASSUME NEW b, NEW c, NEW t, RemembersOrders(b, t), c.removed = b.removed, c.hidden = b.hidden
  PROVE  RemembersOrders(c, t)
BY DEF RemembersOrders

(* An id whose fate changes while it is known as what it becomes.          *)
LEMMA RetiredRemembered ==
  ASSUME NEW b, NEW c, NEW t \in [OrderIds -> Orders \cup Fates], NEW o \in OrderIds,
         RemembersOrders(b, t), c.hidden = b.hidden,
         c.removed = Added(b.removed, o, MaxRemoved), t[o] \in Orders
  PROVE  RemembersOrders(c, [t EXCEPT ![o] = [fate |-> "gone"]])
<1> DEFINE u == [t EXCEPT ![o] = [fate |-> "gone"]]
<1>1. o \in Int BY OrderIdsAssumption
<1>2. IsWindow(b.removed) /\ IsWindow(b.hidden) BY DEF RemembersOrders
<1>3. \A p \in OrderIds : u[p] = IF p = o THEN [fate |-> "gone"] ELSE t[p] OBVIOUS
<1>4. t[o] # [fate |-> "hidden"] BY FatesAreNoOrders DEF Fates
<1>5. [fate |-> "gone"] # [fate |-> "hidden"]
  <2>1. "gone" # "hidden" OBVIOUS
  <2> QED BY <2>1
<1> HIDE DEF u
<1>6. /\ IsWindow(c.removed) /\ Known(c.removed, o)
      /\ \A x : Known(b.removed, x) => Known(c.removed, x)
      /\ \A x : Has(c.removed, x) => Has(b.removed, x) \/ x = o
  BY <1>1, <1>2, AddedKnows
<1>7. RemembersOrders(c, u) BY <1>2, <1>3, <1>4, <1>5, <1>6 DEF RemembersOrders
<1> QED BY <1>7 DEF u

LEMMA OpenedRemembered ==
  ASSUME NEW b, NEW c, NEW t \in [OrderIds -> Orders \cup Fates], NEW o \in OrderIds,
         NEW order \in Orders, RemembersOrders(b, t), c.hidden = b.hidden,
         c.removed = Removed(b.removed, o), t[o] # [fate |-> "hidden"]
  PROVE  RemembersOrders(c, [t EXCEPT ![o] = order])
<1> DEFINE u == [t EXCEPT ![o] = order]
<1>1. IsWindow(b.removed) /\ IsWindow(b.hidden) BY DEF RemembersOrders
<1>2. \A p \in OrderIds : u[p] = IF p = o THEN order ELSE t[p] OBVIOUS
<1>3. order # [fate |-> "hidden"] /\ order # [fate |-> "gone"]
  BY FatesAreNoOrders DEF Fates
<1> HIDE DEF u
<1>4. /\ IsWindow(c.removed)
      /\ \A x : x # o /\ Known(b.removed, x) => Known(c.removed, x)
      /\ \A x : Has(c.removed, x) => Has(b.removed, x) /\ x # o
  BY <1>1, RemovedKnows
<1>5. RemembersOrders(c, u) BY <1>1, <1>2, <1>3, <1>4 DEF RemembersOrders
<1> QED BY <1>5 DEF u

LEMMA HiddenRemembered ==
  ASSUME NEW b, NEW c, NEW t \in [OrderIds -> Orders \cup Fates], NEW o \in OrderIds,
         RemembersOrders(b, t), c.removed = b.removed,
         c.hidden = Added(b.hidden, o, MaxHidden)
  PROVE  RemembersOrders(c, [t EXCEPT ![o] = [fate |-> "hidden"]])
<1> DEFINE u == [t EXCEPT ![o] = [fate |-> "hidden"]]
<1>1. o \in Int BY OrderIdsAssumption
<1>2. IsWindow(b.removed) /\ IsWindow(b.hidden) BY DEF RemembersOrders
<1>3. \A p \in OrderIds : u[p] = IF p = o THEN [fate |-> "hidden"] ELSE t[p] OBVIOUS
<1>4. [fate |-> "gone"] # [fate |-> "hidden"]
  <2>1. "gone" # "hidden" OBVIOUS
  <2> QED BY <2>1
<1> HIDE DEF u
<1>5. /\ IsWindow(c.hidden) /\ Known(c.hidden, o)
      /\ \A x : Known(b.hidden, x) => Known(c.hidden, x)
      /\ \A x : Has(c.hidden, x) => Has(b.hidden, x) \/ x = o
  BY <1>1, <1>2, AddedKnows
<1>6. RemembersOrders(c, u) BY <1>2, <1>3, <1>4, <1>5 DEF RemembersOrders
<1> QED BY <1>6 DEF u

(* A visible id whose order changes is known by nothing it must forget.    *)
LEMMA ChangedRemembered ==
  ASSUME NEW b, NEW c, NEW t \in [OrderIds -> Orders \cup Fates], NEW o \in OrderIds,
         NEW order \in Orders, RemembersOrders(b, t), t[o] \in Orders,
         c.removed = b.removed, c.hidden = b.hidden
  PROVE  RemembersOrders(c, [t EXCEPT ![o] = order])
<1>1. /\ order # [fate |-> "hidden"] /\ order # [fate |-> "gone"]
      /\ t[o] # [fate |-> "hidden"] /\ t[o] # [fate |-> "gone"]
  BY FatesAreNoOrders DEF Fates
<1> QED BY <1>1 DEF RemembersOrders

-----------------------------------------------------------------------------
(* The verdicts on each kind of message.                                   *)
Verified == {"unverified"}

(* A cancel or an execution of a hidden id is skipped or unverifiable.     *)
LEMMA HiddenExcused ==
  ASSUME NEW b, NEW t, NEW o \in OrderIds, NEW dangling,
         RemembersOrders(b, t), t[o] = [fate |-> "hidden"]
  PROVE  OnAbsent(b, o, dangling) \subseteq Verified
BY DEF OnAbsent, RemembersOrders, Known, Verified

(* One of an id that left is a use after removal, or unverifiable.         *)
LEMMA GoneNamed ==
  ASSUME NEW b, NEW t, NEW o \in OrderIds, NEW dangling,
         RemembersOrders(b, t), t[o] = [fate |-> "gone"]
  PROVE  LET v == OnAbsent(b, o, dangling)
         IN  v # {} /\ v \subseteq {"OPERATION_AFTER_REMOVAL", "unverified"}
<1>1. ~Has(b.hidden, o)
  <2>1. [fate |-> "gone"] # [fate |-> "hidden"]
    <3>1. "gone" # "hidden" OBVIOUS
    <3> QED BY <3>1
  <2> QED BY <2>1 DEF RemembersOrders
<1>2. Has(b.removed, o) \/ MayHaveForgotten(b, o)
  BY DEF RemembersOrders, Known, MayHaveForgotten
<1> QED BY <1>1, <1>2 DEF OnAbsent

(* One of an id that was never added dangles, or is unverifiable.          *)
LEMMA NewNamed ==
  ASSUME NEW b, NEW t, NEW o \in OrderIds, NEW dangling,
         RemembersOrders(b, t), t[o] = [fate |-> "new"]
  PROVE  LET v == OnAbsent(b, o, dangling)
         IN  v # {} /\ v \subseteq {dangling, "unverified"}
<1>1. [fate |-> "new"] # [fate |-> "hidden"] /\ [fate |-> "new"] # [fate |-> "gone"]
  <2>1. "new" # "hidden" /\ "new" # "gone" OBVIOUS
  <2> QED BY <2>1
<1>2. ~Has(b.hidden, o) /\ ~Has(b.removed, o) BY <1>1 DEF RemembersOrders
<1> QED BY <1>2 DEF OnAbsent

(* What an execution and a cancel are charged with.                        *)
LEMMA ExecuteVerdicts ==
  ASSUME NEW b, NEW m
  PROVE  OnExecute(b, m).verdicts =
           IF Live(b, m.order)
             THEN SourceDrift(b.live[m.order], m) \cup WrongSide(b.live[m.order], m)
                    \cup QuantityRules(b.live[m.order], m)
             ELSE OnAbsent(b, m.order, "EXEC_DANGLING_ORDER")
BY DEF OnExecute, After

LEMMA CancelVerdicts ==
  ASSUME NEW b, NEW m
  PROVE  OnCancel(b, m).verdicts =
           IF Live(b, m.order) THEN SourceDrift(b.live[m.order], m)
           ELSE OnAbsent(b, m.order, "CANCEL_DANGLING_ORDER")
BY DEF OnCancel, After

(* No live order is ever left with nothing.                                *)
LEMMA BoundaryClean == ASSUME NEW b, IsBook(b) PROVE OnBoundary(b).verdicts = {}
<1>1. ASSUME NEW o \in Resting(b) PROVE b.live[o].left # 0
  <2>1. b.live[o] \in Orders BY <1>1 DEF IsBook, Resting, Live
  <2>2. b.live[o].left \in 1 .. MaxLots BY <2>1 DEF Orders
  <2> QED BY <2>2, FlowAssumption DEF FlowAssumption
<1> QED BY <1>1 DEF OnBoundary, After

-----------------------------------------------------------------------------
(* A lawful message keeps the verdicts right when it is charged nothing.   *)
LEMMA TellKeepsVerdicts ==
  ASSUME SInv, NEW m, NEW fates, Tell(m, fates), IInv', Remembers',
         OnOrderMessage(bk, m).verdicts \subseteq Verified
  PROVE  SInv'
<1>1. bk' = OnOrderMessage(bk, m).book BY TellsBook
<1>2. OnBoundary(OnOrderMessage(bk, m).book).verdicts = {}
  <2>1. IsBook(bk') BY DEF IInv
  <2> QED BY <1>1, <2>1, BoundaryClean
<1>3. charged' = {} BY <1>2 DEF Tell, SInv, VerdictsRight, LawfulNeverCharged, Verified
<1>4. broken' = broken BY DEF Tell
<1> QED BY <1>3, <1>4 DEF SInv, VerdictsRight, LawfulNeverCharged, DefectsAreNamed

LEMMA OpenRight ==
  ASSUME SInv, NEW o \in OrderIds, NEW order \in Orders,
         OpenOrder(o, order) \/ OpenHidden(o, order)
  PROVE  SInv'
<1>1. IInv /\ IsBook(bk) /\ truth \in [OrderIds -> Orders \cup Fates] /\ Remembers
  BY DEF SInv, IInv, IsTruth
<1>2. IInv' BY <1>1, OpenKeeps
<1>3. traded' = traded BY DEF OpenOrder, OpenHidden
<1>4. truth[o] \in Fates /\ truth[o] # [fate |-> "hidden"]
  <2>1. [fate |-> "new"] # [fate |-> "hidden"] /\ [fate |-> "gone"] # [fate |-> "hidden"]
    <3>1. "new" # "hidden" /\ "gone" # "hidden" OBVIOUS
    <3> QED BY <3>1
  <2> QED BY <2>1 DEF OpenOrder, OpenHidden, New, Gone, Fates
<1>5. ~Live(bk, o) BY <1>1, <1>4, FatesAreNoOrders DEF IInv, Mirrors, Live
<1>6. CASE OpenOrder(o, order)
  <2> DEFINE m == Add(o, order, FALSE)
  <2>1. Tell(m, [truth EXCEPT ![o] = order]) BY <1>6 DEF OpenOrder
  <2>2. OnOrderMessage(bk, m) = OnAdd(bk, m) /\ m.order = o /\ ~m.hidden
    BY DEF OnOrderMessage, Add
  <2> HIDE DEF m
  <2>3. /\ bk'.removed = Removed(bk.removed, o)
        /\ bk'.hidden = bk.hidden /\ bk'.trades = bk.trades
    BY <1>1, <2>1, <2>2, AddWindows, TellsBook
  <2>4. RemembersOrders(bk', [truth EXCEPT ![o] = order])
    BY <1>1, <1>4, <2>3, OpenedRemembered DEF Remembers
  <2>5. Remembers'
    BY <1>1, <1>3, <2>1, <2>3, <2>4, TradesStay, TellsBook DEF Remembers
  <2>6. OnOrderMessage(bk, m).verdicts \subseteq Verified BY <1>5, <2>2 DEF OnAdd, After
  <2> QED BY <1>2, <2>1, <2>5, <2>6, TellKeepsVerdicts
<1>7. CASE OpenHidden(o, order)
  <2> DEFINE m == Add(o, order, TRUE)
  <2>1. Tell(m, [truth EXCEPT ![o] = [fate |-> "hidden"]]) BY <1>7 DEF OpenHidden
  <2>2. OnOrderMessage(bk, m) = OnAdd(bk, m) /\ m.order = o /\ m.hidden
    BY DEF OnOrderMessage, Add
  <2> HIDE DEF m
  <2>3. /\ bk'.removed = bk.removed
        /\ bk'.hidden = Added(bk.hidden, o, MaxHidden) /\ bk'.trades = bk.trades
    BY <1>1, <2>1, <2>2, AddWindows, TellsBook
  <2>4. RemembersOrders(bk', [truth EXCEPT ![o] = [fate |-> "hidden"]])
    BY <1>1, <2>3, HiddenRemembered DEF Remembers
  <2>5. Remembers'
    BY <1>1, <1>3, <2>1, <2>3, <2>4, TradesStay, TellsBook DEF Remembers
  <2>6. OnOrderMessage(bk, m).verdicts \subseteq Verified BY <2>2 DEF OnAdd, After
  <2> QED BY <1>2, <2>1, <2>5, <2>6, TellKeepsVerdicts
<1> QED BY <1>6, <1>7

LEMMA CancelRight ==
  ASSUME SInv, NEW o \in OrderIds, CancelOrder(o) PROVE SInv'
<1>1. IInv /\ IsBook(bk) /\ truth \in [OrderIds -> Orders \cup Fates] /\ Remembers
  BY DEF SInv, IInv, IsTruth
<1>2. IInv' BY <1>1, CancelKeeps
<1>3. traded' = traded BY DEF CancelOrder
<1>4. truth[o] \in Orders /\ bk.live[o] = truth[o] /\ Live(bk, o)
  BY <1>1, VisibleMirrors DEF CancelOrder
<1>5. PICK s \in {0, truth[o].source} :
        Tell(Cancel(o, s), [truth EXCEPT ![o] = [fate |-> "gone"]])
  BY DEF CancelOrder
<1> DEFINE m == Cancel(o, s)
<1>6. Tell(m, [truth EXCEPT ![o] = [fate |-> "gone"]]) BY <1>5
<1>7. /\ OnOrderMessage(bk, m) = OnCancel(bk, m)
      /\ m.order = o /\ m.source \in {0, truth[o].source}
  BY DEF OnOrderMessage, Cancel
<1> HIDE DEF m
<1>8. /\ bk'.removed = Added(bk.removed, o, MaxRemoved)
      /\ bk'.hidden = bk.hidden /\ bk'.trades = bk.trades
  BY <1>1, <1>4, <1>6, <1>7, CancelWindows, TellsBook
<1>9. RemembersOrders(bk', [truth EXCEPT ![o] = [fate |-> "gone"]])
  BY <1>1, <1>4, <1>8, RetiredRemembered DEF Remembers
<1>10. Remembers' BY <1>1, <1>3, <1>6, <1>8, <1>9, TradesStay, TellsBook DEF Remembers
<1>11. OnOrderMessage(bk, m).verdicts \subseteq Verified
  BY <1>4, <1>7, CancelVerdicts DEF SourceDrift
<1> QED BY <1>2, <1>6, <1>10, <1>11, TellKeepsVerdicts

LEMMA ExecuteRight ==
  ASSUME SInv, NEW o \in OrderIds, NEW q \in 1 .. MaxLots, NEW t \in TradeIds,
         ExecuteOrder(o, q, t)
  PROVE  SInv'
<1> DEFINE left == truth[o].left
           fate == IF q = left THEN [fate |-> "gone"] ELSE [truth[o] EXCEPT !.left = @ - q]
<1>1. IInv /\ IsBook(bk) /\ truth \in [OrderIds -> Orders \cup Fates] /\ Remembers
  BY DEF SInv, IInv, IsTruth
<1>2. IInv' BY <1>1, ExecuteKeeps
<1>3. traded' = traded \cup {t} /\ q <= left BY DEF ExecuteOrder
<1>4. truth[o] \in Orders /\ bk.live[o] = truth[o] /\ Live(bk, o)
  BY <1>1, VisibleMirrors DEF ExecuteOrder
<1>5. PICK a \in {"unknown", IF truth[o].side = "ask" THEN "buyer" ELSE "seller"},
           f \in {q = left, FALSE} :
        Tell(Execute(o, truth[o].source, a, q, f, t), [truth EXCEPT ![o] = fate])
  BY DEF ExecuteOrder
<1> DEFINE m == Execute(o, truth[o].source, a, q, f, t)
<1>6. /\ OnOrderMessage(bk, m) = OnExecute(bk, m)
      /\ m.order = o /\ m.trade = t
      /\ m.source = truth[o].source /\ m.aggressor = a /\ m.qty = q /\ m.full = f
      /\ f => q = left
      /\ Tell(m, [truth EXCEPT ![o] = fate])
  BY <1>5 DEF OnOrderMessage, Execute
<1> HIDE DEF m
<1>7. left \in 1 .. MaxLots /\ left \in Nat /\ q \in Nat
  BY <1>4, FlowAssumption DEF Orders, FlowAssumption
<1>8. FillsUp(bk.live[o], m) <=> q = left BY <1>4, <1>6 DEF FillsUp
<1>9. /\ bk'.removed = IF q = left THEN Added(bk.removed, o, MaxRemoved) ELSE bk.removed
      /\ bk'.hidden = bk.hidden
      /\ bk'.trades = IF t # 0 THEN Added(bk.trades, t, MaxTrades) ELSE bk.trades
  BY <1>1, <1>4, <1>6, <1>8, ExecuteWindows, TellsBook
<1>10. RemembersOrders(bk', [truth EXCEPT ![o] = fate])
  <2>1. CASE q = left
    BY <1>1, <1>4, <1>9, <2>1, RetiredRemembered DEF Remembers
  <2>2. CASE q # left
    <3>1. left - q \in 1 .. MaxLots BY <1>3, <1>7, <2>2, FlowAssumption DEF FlowAssumption
    <3>2. fate \in Orders BY <1>4, <2>2, <3>1 DEF Orders
    <3> HIDE DEF fate
    <3> QED BY <1>1, <1>4, <1>9, <2>2, <3>2, ChangedRemembered DEF Remembers
  <2> QED BY <2>1, <2>2
<1>11. Remembers'
  BY <1>1, <1>3, <1>6, <1>9, <1>10, TradeRemembered, TellsBook DEF Remembers
<1>12. OnExecute(bk, m).verdicts = {}
  <2>1. SourceDrift(bk.live[o], m) = {} BY <1>4, <1>6 DEF SourceDrift
  <2>2. WrongSide(bk.live[o], m) = {}
    <3>1. truth[o].side \in {"bid", "ask"} BY <1>4, FlowAssumption DEF Orders, FlowAssumption
    <3>2. a = "unknown" \/ (truth[o].side = "ask" /\ a = "buyer")
                       \/ (truth[o].side = "bid" /\ a = "seller")
      BY <3>1
    <3> QED BY <1>4, <1>6, <3>2 DEF WrongSide
  <2>3. QuantityRules(bk.live[o], m) = {}
    BY <1>3, <1>4, <1>6, <1>7 DEF QuantityRules
  <2> QED BY <1>4, <1>6, <2>1, <2>2, <2>3, ExecuteVerdicts
<1>13. OnOrderMessage(bk, m).verdicts \subseteq Verified BY <1>6, <1>12
<1> HIDE DEF fate
<1> QED BY <1>2, <1>6, <1>11, <1>13, TellKeepsVerdicts

LEMMA OperateHiddenRight ==
  ASSUME SInv, NEW o \in OrderIds, NEW t \in TradeIds, OperateHidden(o, t) PROVE SInv'
<1>1. IInv /\ IsBook(bk) /\ Remembers BY DEF SInv, IInv
<1>2. IInv' BY <1>1, OperateHiddenKeeps
<1>3. ~Live(bk, o) /\ truth[o] = [fate |-> "hidden"]
  BY <1>1, VisibleMirrors DEF OperateHidden, Hidden
<1>4. PICK m \in {Cancel(o, 0), Execute(o, 0, "unknown", 1, TRUE, t)} :
        /\ Tell(m, truth)
        /\ traded' = IF m.type = "execute" THEN traded \cup {t} ELSE traded
  BY DEF OperateHidden
<1>5. CASE m = Cancel(o, 0)
  <2>1. OnOrderMessage(bk, m) = OnCancel(bk, m) /\ m.order = o /\ traded' = traded
    BY <1>4, <1>5 DEF OnOrderMessage, Cancel
  <2>2. bk'.removed = bk.removed /\ bk'.hidden = bk.hidden /\ bk'.trades = bk.trades
    BY <1>1, <1>3, <1>4, <2>1, CancelWindows, TellsBook
  <2>3. Remembers'
    BY <1>1, <1>4, <2>1, <2>2, OrdersStay, TradesStay, TellsBook DEF Remembers
  <2>4. OnOrderMessage(bk, m).verdicts \subseteq Verified
    BY <1>1, <1>3, <2>1, CancelVerdicts, HiddenExcused DEF Remembers
  <2> QED BY <1>2, <1>4, <2>3, <2>4, TellKeepsVerdicts
<1>6. CASE m = Execute(o, 0, "unknown", 1, TRUE, t)
  <2>1. /\ OnOrderMessage(bk, m) = OnExecute(bk, m) /\ m.order = o /\ m.trade = t
        /\ traded' = traded \cup {t}
    BY <1>4, <1>6 DEF OnOrderMessage, Execute
  <2>2. /\ bk'.removed = bk.removed /\ bk'.hidden = bk.hidden
        /\ bk'.trades = IF t # 0 THEN Added(bk.trades, t, MaxTrades) ELSE bk.trades
    BY <1>1, <1>3, <1>4, <2>1, ExecuteWindows, TellsBook
  <2>3. Remembers'
    BY <1>1, <1>4, <2>1, <2>2, OrdersStay, TradeRemembered, TellsBook DEF Remembers
  <2>4. OnOrderMessage(bk, m).verdicts \subseteq Verified
    <3>1. OnAbsent(bk, o, "EXEC_DANGLING_ORDER") \subseteq Verified
      BY <1>1, <1>3, HiddenExcused DEF Remembers
    <3>2. OnExecute(bk, m).verdicts = OnAbsent(bk, o, "EXEC_DANGLING_ORDER")
      BY <1>3, <2>1, ExecuteVerdicts
    <3> QED BY <2>1, <3>1, <3>2
  <2> QED BY <1>2, <1>4, <2>3, <2>4, TellKeepsVerdicts
<1> QED BY <1>4, <1>5, <1>6

LEMMA TradeRight ==
  ASSUME SInv, NEW t \in TradeIds, ReportTrade(t) PROVE SInv'
<1>1. IInv /\ Remembers BY DEF SInv
<1>2. IInv' BY <1>1, TradeKeeps
<1>3. Tell(Trade(t), truth) /\ traded' = traded /\ t \in traded \cup {0} BY DEF ReportTrade
<1>4. OnOrderMessage(bk, Trade(t)) = OnTrade(bk, Trade(t)) BY DEF OnOrderMessage, Trade
<1>5. bk' = bk /\ truth' = truth BY <1>3, <1>4, TellsBook DEF OnTrade, After
<1>6. Remembers' BY <1>1, <1>3, <1>5 DEF Remembers
<1>7. OnTrade(bk, Trade(t)).verdicts \subseteq Verified
  <2>1. t = 0 \/ Known(bk.trades, t) BY <1>1, <1>3 DEF Remembers, RemembersTrades
  <2> QED BY <2>1 DEF OnTrade, After, Trade, Known, Verified
<1> QED BY <1>2, <1>3, <1>4, <1>6, <1>7, TellKeepsVerdicts

-----------------------------------------------------------------------------
(* A message that breaks a rule leaves the book alone, and its verdict.    *)
LEMMA NamesIt ==
  ASSUME SInv, NEW m, NEW rule, Break(m, rule),
         OnOrderMessage(bk, m).verdicts # {},
         OnOrderMessage(bk, m).verdicts \subseteq {rule, "unverified"}
  PROVE  SInv'
<1>1. broken' = "named" /\ UNCHANGED <<bk, truth, traded, charged>> BY DEF Break
<1>2. IInv' BY <1>1, MirrorStays DEF SInv, IInv
<1>3. Remembers' BY <1>1 DEF SInv, Remembers
<1> QED BY <1>1, <1>2, <1>3
  DEF SInv, VerdictsRight, LawfulNeverCharged, DefectsAreNamed

LEMMA IdentityNamed == SInv /\ BreakIdentity => SInv'
<1> SUFFICES ASSUME SInv, BreakIdentity PROVE SInv' OBVIOUS
<1>1. IInv /\ IsBook(bk) /\ RemembersOrders(bk, truth) /\ RemembersTrades(bk, traded)
  BY DEF SInv, IInv, Remembers
<1>2. ASSUME NEW o \in Visible, NEW order \in Orders,
             Break(Add(o, order, FALSE), "DUPLICATE_LIVE_ORDERADD")
      PROVE  SInv'
  <2> DEFINE m == Add(o, order, FALSE)
  <2>1. Live(bk, o) BY <1>1, VisibleMirrors DEF Visible
  <2>2. OnOrderMessage(bk, m) = OnAdd(bk, m) /\ m.order = o /\ ~m.hidden
    BY DEF OnOrderMessage, Add
  <2> HIDE DEF m
  <2>3. OnOrderMessage(bk, m).verdicts = {"DUPLICATE_LIVE_ORDERADD"}
    BY <2>1, <2>2 DEF OnAdd, After
  <2>4. Break(m, "DUPLICATE_LIVE_ORDERADD") BY <1>2 DEF m
  <2> QED BY <2>3, <2>4, NamesIt
<1>3. ASSUME NEW o \in OrderIds, truth[o] \in Fates, NEW m, NEW rule, NEW dangling,
             \/ m = Cancel(o, 0) /\ dangling = "CANCEL_DANGLING_ORDER"
             \/ m = StrayExecute(o) /\ dangling = "EXEC_DANGLING_ORDER"
      PROVE  OnOrderMessage(bk, m).verdicts = OnAbsent(bk, o, dangling)
  <2>1. ~Live(bk, o) BY <1>1, <1>3, FatesAreNoOrders DEF IInv, Mirrors, Live
  <2>2. m.order = o
    BY <1>3 DEF StrayExecute, Execute, Cancel
  <2>3. CASE m = Cancel(o, 0) /\ dangling = "CANCEL_DANGLING_ORDER"
    <3>1. OnOrderMessage(bk, m) = OnCancel(bk, m) BY <2>3 DEF OnOrderMessage, Cancel
    <3> QED BY <2>1, <2>2, <2>3, <3>1, CancelVerdicts
  <2>4. CASE m = StrayExecute(o) /\ dangling = "EXEC_DANGLING_ORDER"
    <3>1. OnOrderMessage(bk, m) = OnExecute(bk, m)
      BY <2>4 DEF OnOrderMessage, StrayExecute, Execute
    <3> QED BY <2>1, <2>2, <2>4, <3>1, ExecuteVerdicts
  <2> QED BY <1>3, <2>3, <2>4
<1>4. ASSUME NEW o \in Gone, NEW m \in {Cancel(o, 0), StrayExecute(o)},
             Break(m, "OPERATION_AFTER_REMOVAL")
      PROVE  SInv'
  <2>1. o \in OrderIds /\ truth[o] = [fate |-> "gone"] /\ truth[o] \in Fates
    BY DEF Gone, Fates
  <2>2. PICK dangling : OnOrderMessage(bk, m).verdicts = OnAbsent(bk, o, dangling)
    BY <1>3, <2>1
  <2>3. /\ OnAbsent(bk, o, dangling) # {}
        /\ OnAbsent(bk, o, dangling) \subseteq {"OPERATION_AFTER_REMOVAL", "unverified"}
    BY <1>1, <2>1, GoneNamed
  <2> QED BY <1>4, <2>2, <2>3, NamesIt
<1>5. ASSUME NEW o \in New, NEW m, NEW rule, Break(m, rule),
             \/ m = Cancel(o, 0) /\ rule = "CANCEL_DANGLING_ORDER"
             \/ m = StrayExecute(o) /\ rule = "EXEC_DANGLING_ORDER"
      PROVE  SInv'
  <2>1. o \in OrderIds /\ truth[o] = [fate |-> "new"] /\ truth[o] \in Fates
    BY DEF New, Fates
  <2>2. OnOrderMessage(bk, m).verdicts = OnAbsent(bk, o, rule) BY <1>3, <1>5, <2>1
  <2>3. /\ OnAbsent(bk, o, rule) # {}
        /\ OnAbsent(bk, o, rule) \subseteq {rule, "unverified"}
    BY <1>1, <2>1, NewNamed
  <2> QED BY <1>5, <2>2, <2>3, NamesIt
<1>6. ASSUME NEW t \in TradeIds \ (traded \cup {0}), Break(Trade(t), "EXEC_GROUPING")
      PROVE  SInv'
  <2>1. OnOrderMessage(bk, Trade(t)) = OnTrade(bk, Trade(t)) BY DEF OnOrderMessage, Trade
  <2>2. t # 0 /\ ~Has(bk.trades, t) BY <1>1, <1>6 DEF RemembersTrades
  <2>3. /\ OnTrade(bk, Trade(t)).verdicts # {}
        /\ OnTrade(bk, Trade(t)).verdicts \subseteq {"EXEC_GROUPING", "unverified"}
    BY <2>2 DEF OnTrade, After, Trade
  <2> QED BY <1>6, <2>1, <2>3, NamesIt
<1> QED BY <1>2, <1>4, <1>5, <1>6 DEF BreakIdentity

LEMMA TermsNamed == SInv /\ BreakTerms => SInv'
<1> SUFFICES ASSUME SInv, BreakTerms PROVE SInv' OBVIOUS
<1>1. IInv BY DEF SInv
<1>2. PICK o \in Visible :
        LET r == truth[o]
            against == IF r.side = "ask" THEN "seller" ELSE "buyer"
        IN  \/ \E f \in BOOLEAN : Break(Execute(o, 0, "unknown", r.left + 1, f, 0), "EXEC_OVERFILL")
            \/ /\ r.left > 1
               /\ Break(Execute(o, 0, "unknown", 1, TRUE, 0), "FULLFILL_FLAG_DISAGREEMENT")
            \/ Break(Execute(o, 0, against, 1, FALSE, 0), "SIDE_PRICE_CONSISTENCY")
            \/ \E s \in Sources \ {0, r.source} :
                 r.source # 0 /\ Break(Cancel(o, s), "SOURCE_ID_CONSISTENCY")
  BY DEF BreakTerms
<1> DEFINE r == truth[o]
           against == IF r.side = "ask" THEN "seller" ELSE "buyer"
<1>3. r \in Orders /\ bk.live[o] = r /\ Live(bk, o) BY <1>1, VisibleMirrors DEF Visible
<1>4. r.left \in Nat /\ r.left >= 1 /\ r.side \in {"bid", "ask"}
  <2>1. r.left \in 1 .. MaxLots /\ r.side \in Sides BY <1>3 DEF Orders
  <2> HIDE DEF r
  <2>2. MaxLots \in Nat /\ Sides \subseteq {"bid", "ask"} BY FlowAssumption DEF FlowAssumption
  <2>3. r.left \in Nat /\ r.left >= 1 BY <2>1, <2>2
  <2> QED BY <2>1, <2>2, <2>3
<1>5. ASSUME NEW m, m.type = "execute", m.order = o, m.source = 0
      PROVE  OnOrderMessage(bk, m).verdicts = WrongSide(r, m) \cup QuantityRules(r, m)
  <2>1. OnOrderMessage(bk, m) = OnExecute(bk, m) BY <1>5 DEF OnOrderMessage
  <2>2. SourceDrift(r, m) = {} BY <1>5 DEF SourceDrift
  <2> QED BY <1>3, <1>5, <2>1, <2>2, ExecuteVerdicts
<1>6. ASSUME NEW f \in BOOLEAN, Break(Execute(o, 0, "unknown", r.left + 1, f, 0), "EXEC_OVERFILL")
      PROVE  SInv'
  <2> DEFINE m == Execute(o, 0, "unknown", r.left + 1, f, 0)
  <2>1. /\ m.type = "execute" /\ m.order = o /\ m.source = 0
        /\ m.aggressor = "unknown" /\ m.qty = r.left + 1
    BY DEF Execute
  <2> HIDE DEF m
  <2>2. OnOrderMessage(bk, m).verdicts = {"EXEC_OVERFILL"}
    BY <1>4, <1>5, <2>1 DEF WrongSide, QuantityRules
  <2>3. Break(m, "EXEC_OVERFILL") BY <1>6 DEF m
  <2> QED BY <2>2, <2>3, NamesIt
<1>7. ASSUME r.left > 1, NEW m, m = Execute(o, 0, "unknown", 1, TRUE, 0),
             Break(m, "FULLFILL_FLAG_DISAGREEMENT")
      PROVE  SInv'
  <2>1. /\ m.type = "execute" /\ m.order = o /\ m.source = 0
        /\ m.aggressor = "unknown" /\ m.qty = 1 /\ m.full
    BY <1>7 DEF Execute
  <2>2. WrongSide(r, m) = {} BY <2>1 DEF WrongSide
  <2>3. QuantityRules(r, m) = {"FULLFILL_FLAG_DISAGREEMENT"}
    <3> DEFINE rest == r.left
    <3>1. rest > 1 BY <1>7
    <3>2. rest \in Nat BY <1>4
    <3> HIDE DEF rest
    <3>3. ~(m.qty > rest) /\ m.qty # rest BY <2>1, <3>1, <3>2
    <3> QED BY <2>1, <3>3 DEF QuantityRules, rest
  <2>4. OnOrderMessage(bk, m).verdicts = {"FULLFILL_FLAG_DISAGREEMENT"}
    BY <1>5, <2>1, <2>2, <2>3
  <2> QED BY <1>7, <2>4, NamesIt
<1>8. ASSUME NEW m, m = Execute(o, 0, against, 1, FALSE, 0), Break(m, "SIDE_PRICE_CONSISTENCY")
      PROVE  SInv'
  <2>1. /\ m.type = "execute" /\ m.order = o /\ m.source = 0
        /\ m.aggressor = against /\ m.qty = 1 /\ ~m.full
    BY <1>8 DEF Execute
  <2>2. QuantityRules(r, m) = {} BY <1>4, <2>1 DEF QuantityRules
  <2>3. WrongSide(r, m) = {"SIDE_PRICE_CONSISTENCY"} BY <1>4, <2>1 DEF WrongSide
  <2>4. OnOrderMessage(bk, m).verdicts = {"SIDE_PRICE_CONSISTENCY"}
    BY <1>5, <2>1, <2>2, <2>3
  <2> QED BY <1>8, <2>4, NamesIt
<1>9. ASSUME NEW s \in Sources \ {0, r.source}, r.source # 0,
             Break(Cancel(o, s), "SOURCE_ID_CONSISTENCY")
      PROVE  SInv'
  <2>1. /\ OnOrderMessage(bk, Cancel(o, s)) = OnCancel(bk, Cancel(o, s))
        /\ Cancel(o, s).order = o /\ Cancel(o, s).source = s
    BY DEF OnOrderMessage, Cancel
  <2>2. OnOrderMessage(bk, Cancel(o, s)).verdicts = {"SOURCE_ID_CONSISTENCY"}
    BY <1>3, <1>9, <2>1, CancelVerdicts DEF SourceDrift
  <2> QED BY <1>9, <2>2, NamesIt
<1> QED BY <1>2, <1>6, <1>7, <1>8, <1>9

-----------------------------------------------------------------------------
LEMMA VerdictsStart == FlowInit => SInv
<1> SUFFICES ASSUME FlowInit PROVE SInv OBVIOUS
<1>1. IInv BY FlowStarts
<1>2. [fate |-> "new"] # [fate |-> "hidden"] /\ [fate |-> "new"] # [fate |-> "gone"]
  <2>1. "new" # "hidden" /\ "new" # "gone" OBVIOUS
  <2> QED BY <2>1
<1>3. Remembers
  BY <1>2 DEF FlowInit, NewBook, NewWindow, Remembers, RemembersOrders, RemembersTrades,
     IsWindow, Has
<1> QED BY <1>1, <1>3 DEF FlowInit, SInv, VerdictsRight, LawfulNeverCharged, DefectsAreNamed

LEMMA VerdictsKept == SInv /\ [FlowNext]_flowVars => SInv'
<1> SUFFICES ASSUME SInv, [FlowNext]_flowVars PROVE SInv' OBVIOUS
<1>1. ASSUME NEW o \in OrderIds, NEW order \in Orders,
             OpenOrder(o, order) \/ OpenHidden(o, order)
      PROVE  SInv'
  BY <1>1, OpenRight
<1>2. ASSUME NEW o \in OrderIds, CancelOrder(o) PROVE SInv' BY <1>2, CancelRight
<1>3. ASSUME NEW o \in OrderIds, NEW q \in 1 .. MaxLots, NEW t \in TradeIds,
             ExecuteOrder(o, q, t)
      PROVE  SInv'
  BY <1>3, ExecuteRight
<1>4. ASSUME NEW o \in OrderIds, NEW t \in TradeIds, OperateHidden(o, t) PROVE SInv'
  BY <1>4, OperateHiddenRight
<1>5. ASSUME NEW t \in TradeIds, ReportTrade(t) PROVE SInv' BY <1>5, TradeRight
<1>6. CASE BreakIdentity BY <1>6, IdentityNamed
<1>7. CASE BreakTerms BY <1>7, TermsNamed
<1>8. CASE UNCHANGED flowVars
  <2>1. IInv' BY <1>8, MirrorStays DEF flowVars, SInv, IInv
  <2> QED BY <1>8, <2>1
      DEF flowVars, SInv, Remembers, VerdictsRight, LawfulNeverCharged, DefectsAreNamed
<1> QED BY <1>1, <1>2, <1>3, <1>4, <1>5, <1>6, <1>7, <1>8 DEF FlowNext

(* A publisher that respects its orders' lives is never charged, however   *)
(* small the windows and whatever they forgot.                             *)
THEOREM LawfulFlowUncharged == FlowSpec => []LawfulNeverCharged
<1>1. FlowInit => SInv BY VerdictsStart
<1>2. SInv /\ [FlowNext]_flowVars => SInv' BY VerdictsKept
<1>3. SInv => LawfulNeverCharged BY DEF SInv, VerdictsRight
<1> QED BY <1>1, <1>2, <1>3, PTL DEF FlowSpec

(* A message that breaks an order's life or terms is named for what it is, *)
(* or reported as unverifiable, however small the windows.                 *)
THEOREM BrokenFlowNamed == FlowSpec => []DefectsAreNamed
<1>1. FlowInit => SInv BY VerdictsStart
<1>2. SInv /\ [FlowNext]_flowVars => SInv' BY VerdictsKept
<1>3. SInv => DefectsAreNamed BY DEF SInv, VerdictsRight
<1> QED BY <1>1, <1>2, <1>3, PTL DEF FlowSpec

(* The live orders of a trusted book are the true ones, whatever ids,      *)
(* quantities and windows there are.                                       *)
THEOREM LiveOrdersAreTrue == FlowSpec => []BookIsTruth
<1>1. FlowInit => IInv BY FlowStarts
<1>2. IInv /\ [FlowNext]_flowVars => IInv' BY FlowKeeps
<1>3. IInv => BookIsTruth BY MirrorIsTruth
<1> QED BY <1>1, <1>2, <1>3, PTL DEF FlowSpec

(* A batch boundary never finds a live order with nothing left, so the     *)
(* atomicity rule never charges a lawful publisher.                        *)
THEOREM NoEmptyOrderRests == FlowSpec => [](OnBoundary(bk).verdicts = {})
<1>1. FlowInit => IInv BY FlowStarts
<1>2. IInv /\ [FlowNext]_flowVars => IInv' BY FlowKeeps
<1>3. IInv => OnBoundary(bk).verdicts = {} BY BoundaryClean DEF IInv
<1> QED BY <1>1, <1>2, <1>3, PTL DEF FlowSpec
=============================================================================
