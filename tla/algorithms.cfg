CONSTANTS
  Students = {a, b, c}
  Prices <- MCPrices
  Quantities <- MCQuantities
  MaxItems = 3
  Fees <- MCFees
  Hostels = {h1, h2}
  Stores = {s1, s2}
  Ages = {10, 45}
  Carts = {1, 9}
  GroupFees = {5}
  ScoreLists <- MCScoreLists
  Threshold = 3
  Scale = 18000
  MaxGroups = 2
SYMMETRY Symmetric
SPECIFICATION MCSpec
INVARIANTS SumsToTotal EveryBuyerOnce OnlyLargestPaysMore
           BetterStandsFirst ScoresOnScale MapMatchesList
CHECK_DEADLOCK FALSE
