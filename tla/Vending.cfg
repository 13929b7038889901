CONSTANTS
  p = p
  q = q
  c1 = c1
  c2 = c2
  c3 = c3
  NoSku = NoSku
  Skus <- MCSkus
  Slots = {1, 2, 3}
  Fits <- MCFits
  Capacity <- MCCapacity
  BasePrice <- MCBasePrice
  Prices = {2}
  Contacts <- MCContacts
  BuiltIn = {c1}
  Wholesale <- MCWholesale
  MinOrder <- MCMinOrder
  UnitCost <- MCUnitCost
  DefaultMinimum = 1
  Lead <- MCLead
  Quantities = {1, 2}
  Demands = {0, 2}
  StartingCash = 2
  DailyFee = 1
  MinutesPerDay = 2
  Minutes <- MCMinutes
  MaxTurns = 8
  GraceDays = 3
  MaxDay = 4
  MaxEmails = 2
SPECIFICATION Spec
CHECK_DEADLOCK FALSE
INVARIANTS
  Conserved
  NothingOverdue
  SlotsInOrder
