SPECIFICATION FlowSpec
CONSTANTS
  OrderIds = {1, 2, 3}
  MaxRemoved = 1
  MaxHidden = 1
  MaxTrades = 1
  Sides = {"bid"}
  Sources = {1, 2}
  TradeIds = {0, 1, 2}
  MaxLots = 2
INVARIANTS LawfulNeverCharged DefectsAreNamed BookIsTruth
CHECK_DEADLOCK FALSE
