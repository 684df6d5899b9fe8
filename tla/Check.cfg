SPECIFICATION CheckSpec
CONSTANTS
  Names <- AllNames
  Trees <- AllTrees
  Statements <- AllStatements
  Lists <- AllLists
INVARIANTS CallsAreSaturated RefersToOwnSlots ExpressionsTyped ErrorsOfOneBody
CHECK_DEADLOCK FALSE
