SPECIFICATION Spec
CONSTANTS
  w1 = w1
  w2 = w2
  temp1 = temp1
  temp2 = temp2
  batt = batt
  gauge = gauge
  percent = percent
  open = open
  NoUnit = NoUnit
  NoType = NoType
  None = None
  Workers = {w1, w2}
  Series <- MCSeries
  Order <- MCOrder
  Messages <- MCMessages
  Samples <- MCSamples
  NoSample = NoSample
  NameOf <- MCNameOf
  TypeOf <- MCTypeOf
  UnitOf <- MCUnitOf
SYMMETRY WorkerSymmetry
INVARIANTS
  TypeOK
  AnswerIsSnapshot
  AnswerIsAnnounced
