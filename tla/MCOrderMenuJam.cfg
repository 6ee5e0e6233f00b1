CONSTANTS
  NumRestaurants = 2
  Price <- MCPrice
  Distance <- MCDistance
  Quantities <- MCQuantities
  Word = 8
SPECIFICATION FairSpec
PROPERTY InputIsRead
