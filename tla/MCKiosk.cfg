CONSTANTS
  Writers = {w1, w2}
  NumLeds = 3
  Numbers <- MCNumbers
  Prices <- MCPrices
  MaxDigits = 3
  Orders <- MCOrders
SPECIFICATION KSpec
SYMMETRY Symmetry
INVARIANT DarkWhenIdle
INVARIANT ShowsThePrice
INVARIANT SegmentsOfTheLast
INVARIANT DevicesAgree
