SPECIFICATION Spec
CONSTANTS
  HandlerIds = {"h", "g", "u", Empty}
  Properties = {"a", "b", "c", " a", " "}
  Trim <- MCTrim
  Pointers = {"pa", "pb", "px"}
  Addable = {"pa", "pb"}
  Filters = {1, 2, 3, 9}
  ValidFilters = {1, 2, 3}
  Topics = {"t", "u", "v", "w"}
  Matches <- MCMatches
  Configs <- MCConfigs
  Whole = Whole
  Empty = Empty
  NotMade = NotMade
INVARIANTS
  TypeOK
  MetricHasOnePlace
  CountIsBound
  AskedIsBound
  SubscribedIsHandled
CHECK_DEADLOCK FALSE
