SPECIFICATION Spec
CONSTANTS
  mTemp = mTemp
  mBatt = mBatt
  mPlug = mPlug
  tj = tj
  tb = tb
  tn = tn
  loc = loc
  on = on
  off = off
  str = str
  raw = raw
  Empty = Empty
  NoData = NoData
  Metrics <- MCMetrics
  Topics <- MCTopics
  WireTopics <- MCTopics
  Values = {on, off, raw}
  Types = {str, UnknownType}
  UnknownType = UnknownType
  Times = {1}
  LabelTexts = {tj, tb, tn, loc}
  Id <- MCId
  Style <- MCStyle
  PropertyActions <- MCPropertyActions
  LabelActions <- MCLabelActions
  ValueActions <- MCValueActions
  TopicTrim <- MCTopicTrim
  JsonHandlers = {"J"}
  ValueHandlers = {"V"}
  HandlersFor <- MCHandlersFor
  Pointers = {"pa", "pb", "pc"}
  MetricsAt <- MCMetricsAt
  ValueMetrics <- MCValueMetrics
  MetricCount <- MCMetricCount
  Payloads <- MCPayloads
INVARIANTS
  TypeOK
  FreshBatch
  ReserveSuffices
PROPERTIES
  ImplementsLatestReadings
