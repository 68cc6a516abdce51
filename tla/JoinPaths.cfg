CONSTANTS
  Root = "Person"
  LeftOf <- MCLeftOf
  RightOf <- MCRightOf
  ColumnsOf <- MCColumnsOf
  Selections <- MCKeyFirst
  MaxJoins = 4
  Styles = {"reopen", "configure"}
SPECIFICATION Spec
INVARIANTS
  JoinsReachable
  ChainsKeepOrder
  ReopeningKeepsJoins
  ColumnsSplitRight
CHECK_DEADLOCK FALSE
