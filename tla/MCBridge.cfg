SPECIFICATION BridgeSpec
CONSTANTS
  w1 = w1
  w2 = w2
  mOne = mOne
  mTwo = mTwo
  t1 = t1
  on = on
  off = off
  str = str
  Empty = Empty
  NoData = NoData
  NoType = NoType
  NoUnit = NoUnit
  None = None
  Workers = {w1, w2}
  Order <- MCOrder
  TypeOf <- MCTypeOf
  UnitOf <- MCUnitOf
  Metrics = {mOne, mTwo}
  Topics = {t1}
  WireTopics = {t1}
  Values = {on, off}
  Types = {str, UnknownType}
  UnknownType = UnknownType
  Times = {1}
  LabelTexts = {t1}
  Id <- MCId
  Style <- MCStyle
  PropertyActions <- MCPropertyActions
  LabelActions <- MCLabelActions
  ValueActions <- MCValueActions
  TopicTrim <- MCTopicTrim
  JsonHandlers = {}
  ValueHandlers = {"V"}
  HandlersFor <- MCHandlersFor
  Pointers = {}
  MetricsAt <- MCMetricsAt
  ValueMetrics <- MCValueMetrics
  MetricCount <- MCMetricCount
  Payloads <- MCPayloads
SYMMETRY WorkerSymmetry
PROPERTIES
  ImplementsExporter
