------------------------------ MODULE OrderFlow ------------------------------
(***************************************************************************)
(* A trusted book against the order flow it is told about: a publisher     *)
(* that does what market-by-order/spec.md asks, and, as its last message,  *)
(* may break one rule. truth is what really became of each order id.       *)
(***************************************************************************)
EXTENDS OrderBook

CONSTANTS
  Sides,        \* a subset of {"bid", "ask"}
  Sources,      \* source ids a message may carry, 0 for unknown
  TradeIds,     \* trade ids, 0 for none
  MaxLots       \* bound on the quantity of an order

ASSUME FlowAssumption ==
  /\ Sides \subseteq {"bid", "ask"} /\ Sources \subseteq Nat
  /\ TradeIds \subseteq Nat /\ 0 \in TradeIds /\ MaxLots \in Nat

VARIABLES
  bk,        \* the tool's book
  truth,     \* per id: "new", "hidden", "gone", or the order that rests
  traded,    \* trade ids the publisher executed under
  charged,   \* rules charged for a lawful message
  broken     \* "lawful", or how the book took the message that broke a rule

flowVars == <<bk, truth, traded, charged, broken>>

-----------------------------------------------------------------------------
Orders  == [side : Sides, source : Sources, left : 1 .. MaxLots]
New     == {o \in OrderIds : truth[o] = [fate |-> "new"]}
Hidden  == {o \in OrderIds : truth[o] = [fate |-> "hidden"]}
Gone    == {o \in OrderIds : truth[o] = [fate |-> "gone"]}
Visible == OrderIds \ (New \cup Hidden \cup Gone)

Add(o, order, hidden) ==
  [type |-> "add", order |-> o, side |-> order.side, source |-> order.source,
   qty |-> order.left, hidden |-> hidden]
Cancel(o, s) == [type |-> "cancel", order |-> o, source |-> s]
Execute(o, s, a, q, f, t) ==
  [type |-> "execute", order |-> o, source |-> s, aggressor |-> a, qty |-> q,
   full |-> f, trade |-> t]
Trade(t) == [type |-> "trade", trade |-> t]

Lawful == broken = "lawful"

(* A message the publisher may send.                                       *)
Tell(m, fates) ==
  LET told == OnOrderMessage(bk, m)
      seen == OnBoundary(told.book)
  IN  /\ Lawful
      /\ bk' = told.book
      /\ charged' = charged \cup ((told.verdicts \cup seen.verdicts) \ {"unverified"})
      /\ truth' = fates
      /\ UNCHANGED broken

(* The book takes an id that left for a new order, visible or hidden.      *)
OpenOrder(o, order) ==
  /\ o \in New \cup Gone
  /\ Tell(Add(o, order, FALSE), [truth EXCEPT ![o] = order])
  /\ UNCHANGED traded

OpenHidden(o, order) ==
  /\ o \in New \cup Gone
  /\ Tell(Add(o, order, TRUE), [truth EXCEPT ![o] = [fate |-> "hidden"]])
  /\ UNCHANGED traded

CancelOrder(o) ==
  /\ o \in Visible
  /\ \E s \in {0, truth[o].source} :
       Tell(Cancel(o, s), [truth EXCEPT ![o] = [fate |-> "gone"]])
  /\ UNCHANGED traded

(* An execution of q lots; the flag is set when nothing remains.           *)
ExecuteOrder(o, q, t) ==
  /\ o \in Visible /\ q <= truth[o].left
  /\ \E a \in {"unknown", IF truth[o].side = "ask" THEN "buyer" ELSE "seller"},
        f \in {q = truth[o].left, FALSE} :
       Tell(Execute(o, truth[o].source, a, q, f, t),
            [truth EXCEPT ![o] = IF q = truth[o].left THEN [fate |-> "gone"]
                                 ELSE [truth[o] EXCEPT !.left = @ - q]])
  /\ traded' = traded \cup {t}

(* Hidden orders may be operated on at any time: nothing is known of them. *)
OperateHidden(o, t) ==
  /\ o \in Hidden
  /\ \E m \in {Cancel(o, 0), Execute(o, 0, "unknown", 1, TRUE, t)} :
       /\ Tell(m, truth)
       /\ traded' = IF m.type = "execute" THEN traded \cup {t} ELSE traded

ReportTrade(t) ==
  /\ t \in traded \cup {0}
  /\ Tell(Trade(t), truth)
  /\ UNCHANGED traded

-----------------------------------------------------------------------------
(* The last message breaks a rule, the rule the book should name.          *)
Break(m, rule) ==
  LET verdicts == OnOrderMessage(bk, m).verdicts
  IN  /\ Lawful
      /\ broken' = CASE verdicts = {}                           -> "silent"
                     [] verdicts \subseteq {rule, "unverified"}  -> "named"
                     [] OTHER                                    -> "misnamed"
      /\ UNCHANGED <<bk, truth, traded, charged>>

StrayExecute(o) == Execute(o, 0, "unknown", 1, FALSE, 0)

BreakIdentity ==
  \/ \E o \in Visible, order \in Orders : Break(Add(o, order, FALSE), "DUPLICATE_LIVE_ORDERADD")
  \/ \E o \in Gone : \E m \in {Cancel(o, 0), StrayExecute(o)} : Break(m, "OPERATION_AFTER_REMOVAL")
  \/ \E o \in New : \/ Break(Cancel(o, 0), "CANCEL_DANGLING_ORDER")
                    \/ Break(StrayExecute(o), "EXEC_DANGLING_ORDER")
  \/ \E t \in TradeIds \ (traded \cup {0}) : Break(Trade(t), "EXEC_GROUPING")

BreakTerms ==
  \E o \in Visible :
    LET r == truth[o]
        against == IF r.side = "ask" THEN "seller" ELSE "buyer"
    IN  \/ \E f \in BOOLEAN : Break(Execute(o, 0, "unknown", r.left + 1, f, 0), "EXEC_OVERFILL")
        \/ /\ r.left > 1
           /\ Break(Execute(o, 0, "unknown", 1, TRUE, 0), "FULLFILL_FLAG_DISAGREEMENT")
        \/ Break(Execute(o, 0, against, 1, FALSE, 0), "SIDE_PRICE_CONSISTENCY")
        \/ \E s \in Sources \ {0, r.source} :
             r.source # 0 /\ Break(Cancel(o, s), "SOURCE_ID_CONSISTENCY")

FlowInit ==
  /\ bk = NewBook
  /\ truth = [o \in OrderIds |-> [fate |-> "new"]]
  /\ traded = {}
  /\ charged = {}
  /\ broken = "lawful"

FlowNext ==
  \/ \E o \in OrderIds, order \in Orders : OpenOrder(o, order) \/ OpenHidden(o, order)
  \/ \E o \in OrderIds : CancelOrder(o)
  \/ \E o \in OrderIds, q \in 1 .. MaxLots, t \in TradeIds : ExecuteOrder(o, q, t)
  \/ \E o \in OrderIds, t \in TradeIds : OperateHidden(o, t)
  \/ \E t \in TradeIds : ReportTrade(t)
  \/ BreakIdentity
  \/ BreakTerms

FlowSpec == FlowInit /\ [][FlowNext]_flowVars

-----------------------------------------------------------------------------
(* A publisher that respects its orders' lives is never charged by the     *)
(* referential rules, however the bounded windows forget hidden orders,    *)
(* removed ones and trade ids.                                             *)
LawfulNeverCharged == charged = {}

(* A message that breaks an order's life or terms is charged under the     *)
(* rule it broke, or reported as unverifiable: never passed over, and a    *)
(* removed order never taken for one that was never added.                 *)
DefectsAreNamed == broken \in {"lawful", "named"}

(* The live orders are exactly the visible ones that rest, with what is    *)
(* left of each: what every later verdict and the snapshot oracle rest on. *)
BookIsTruth ==
  Resting(bk) = Visible /\ \A o \in Visible : bk.live[o] = truth[o]
=============================================================================
