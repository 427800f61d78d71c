-------------------------- MODULE MqttIngestProofs --------------------------
(***************************************************************************)
(* Type correctness of MqttIngest and FreshBatch, for any configuration.   *)
(*                                                                         *)
(* FreshBatch says what the elements of the vector are; it does not say    *)
(* what is still to be done with the message.  BatchInv adds that: what is *)
(* left of the handlers, of the scalars and of the metrics is of the       *)
(* message that is handled, and a JSON handler that runs has that message  *)
(* in its visitor.                                                         *)
(***************************************************************************)
EXTENDS MqttIngest, SequenceTheorems, NaturalsInduction, WellFoundedInduction,
        TLAPS

\* The handlers that are left, and the one that runs, handle the message.
LeftOfHandlers ==
  msg # Idle => /\ \A i \in DOMAIN handlers : Handles(handlers[i], msg.topic)
                /\ handler # Empty => Handles(handler, msg.topic)

\* Between messages nothing is left.
NothingLeft ==
  msg = Idle => /\ handler = Empty
                /\ handlers = <<>> /\ readings = <<>> /\ metrics = <<>>

\* Scalars are left to a JSON handler only, and are of the payload.
LeftOfReadings ==
  readings # <<>> =>
    /\ handler \in JsonHandlers
    /\ \A i \in DOMAIN readings :
         \E j \in DOMAIN msg.payload.scalars :
           readings[i] = msg.payload.scalars[j]

\* The metrics that are left are to be told the reading.
LeftOfMetrics ==
  metrics # <<>> =>
    /\ handler # Empty
    /\ reading \in Reading
    /\ \A k \in DOMAIN metrics :
         Tells(handler, msg.payload, metrics[k], reading)

\* The handler that runs has the topic and the time of the message.
ContextIsMessage ==
  msg # Idle /\ handler # Empty =>
    Context.topic = msg.topic /\ Context.ts = msg.ts

BatchInv ==
  /\ TypeOK
  /\ NothingLeft
  /\ LeftOfHandlers
  /\ LeftOfReadings
  /\ LeftOfMetrics
  /\ ContextIsMessage
  /\ FreshBatch

-----------------------------------------------------------------------------
(***************************************************************************)
(* Properties and labels stay labels.                                      *)
(***************************************************************************)
LEMMA EventPropsType ==
  ASSUME NEW m \in Metrics, NEW topic \in Topics, NEW q \in Labels
  PROVE  /\ EventProps(q, m, topic) \in Labels
         /\ EventProps(q, m, topic) =
              PropertyActions(m, topic,
                [n \in LabelNames |-> IF n = "topic" THEN topic ELSE Empty])
PROOF
  <1> DEFINE start ==
        [n \in LabelNames |-> IF n = "topic" THEN topic ELSE Empty]
  <1>1. topic \in LabelTexts
    BY DataAssumption
  <1>2. start \in Labels
    BY <1>1 DEF Labels
  <1>3. [Clear(q) EXCEPT !["topic"] = topic] = start
    BY DEF Clear, LabelNames
  <1>4. PropertyActions(m, topic, start) \in Labels
    BY <1>2, DataAssumption
  <1> QED
    BY <1>3, <1>4 DEF EventProps

(***************************************************************************)
(* What Event leaves in the object does not depend on what was in it, nor  *)
(* on the properties the metric had: it is the sample of the reading.      *)
(***************************************************************************)
LEMMA EventMakesSample ==
  ASSUME NEW m \in Metrics, NEW topic \in Topics, NEW r \in Reading,
         NEW ts \in Times, NEW d \in MetricData, NEW q \in Labels
  PROVE  EventData(d, EventProps(q, m, topic), m, topic, r, ts)
           = Sample(m, topic, r, ts)
PROOF
  <1> DEFINE p == EventProps(q, m, topic)
             start == [n \in LabelNames |->
                         IF n = "topic" THEN topic ELSE Empty]
             first == [n \in LabelNames |->
                         IF n = "topic" THEN topic ELSE p["location"]]
  <1>1. p = PropertyActions(m, topic, start)
    BY EventPropsType
  <1>2. [Clear(d.labels) EXCEPT !["location"] = p["location"],
                                !["topic"] = topic] = first
    BY DEF Clear, LabelNames
  <1>3. EventLabels(d.labels, p, m, topic) = LabelActions(m, topic, p, first)
    BY <1>2 DEF EventLabels
  <1> DEFINE v == ValueActions(m, r.value, r.type)
             l == EventLabels(d.labels, p, m, topic)
  <1>4. EventData(d, p, m, topic, r, ts) =
          [d EXCEPT !.id = Id(m), !.style = Style(m),
                    !.value = v.value, !.type = v.type, !.ts = ts,
                    !.location = p["location"], !.labels = l]
    BY DEF EventData
  <1>5. Sample(m, topic, r, ts) =
          [id |-> Id(m), style |-> Style(m), value |-> v.value, type |-> v.type,
           ts |-> ts, location |-> p["location"], labels |-> l]
    BY <1>1, <1>3 DEF Sample
  <1> HIDE DEF p, first, v, l
  <1>6. EventData(d, p, m, topic, r, ts) = Sample(m, topic, r, ts)
    BY <1>4, <1>5 DEF MetricData
  <1> QED
    BY <1>6 DEF p

(***************************************************************************)
(* A sample is a MetricData.                                               *)
(***************************************************************************)
LEMMA SampleType ==
  ASSUME NEW m \in Metrics, NEW topic \in Topics, NEW r \in Reading,
         NEW ts \in Times
  PROVE  Sample(m, topic, r, ts) \in MetricData
PROOF
  <1> DEFINE start == [n \in LabelNames |->
                         IF n = "topic" THEN topic ELSE Empty]
             p == PropertyActions(m, topic, start)
             first == [n \in LabelNames |->
                         IF n = "topic" THEN topic ELSE p["location"]]
             v == ValueActions(m, r.value, r.type)
  <1>1. topic \in LabelTexts
    BY DataAssumption
  <1>2. start \in Labels
    BY <1>1 DEF Labels
  <1>3. p \in Labels
    BY <1>2, DataAssumption
  <1>4. p["location"] \in LabelTexts \cup {Empty}
    BY <1>3 DEF Labels, LabelNames
  <1>5. first \in Labels
    BY <1>1, <1>4 DEF Labels
  <1>6. LabelActions(m, topic, p, first) \in Labels
    BY <1>3, <1>5, DataAssumption
  <1>7. v \in Reading
    BY DataAssumption
  <1>8. Id(m) \in Names /\ Style(m) \in Styles
    BY DEF Names, Styles
  <1>9. Sample(m, topic, r, ts) =
          [id |-> Id(m), style |-> Style(m), value |-> v.value, type |-> v.type,
           ts |-> ts, location |-> p["location"],
           labels |-> LabelActions(m, topic, p, first)]
    BY DEF Sample
  <1>10. v.value \in Values /\ v.type \in Types
    BY <1>7 DEF Reading
  <1> HIDE DEF p, v, first
  <1> QED
    BY <1>4, <1>6, <1>8, <1>9, <1>10 DEF MetricData

(***************************************************************************)
(* A non-empty set of positions of the vector has a last one.              *)
(***************************************************************************)
LEMMA LastOfIsIn ==
  ASSUME NEW n \in Nat, NEW S \in SUBSET (1 .. n), S # {}
  PROVE  LastOf(S) \in S /\ \A i \in S : i <= LastOf(S)
PROOF
  <1> DEFINE T == {n - i : i \in S}
  <1>1. T \subseteq Nat /\ T # {}
    <2>1. \A i \in S : i \in 1 .. n
      OBVIOUS
    <2>2. \A i \in S : n - i \in Nat
      BY <2>1
    <2> QED
      BY <2>2
  <1>2. PICK x \in T : \A y \in T : ~ (<<y, x>> \in OpToRel(<, Nat))
    BY <1>1, NatLessThanWellFounded, WFMin
  <1>3. ASSUME NEW y \in T  PROVE x <= y
    <2>1. x \in Nat /\ y \in Nat
      BY <1>1
    <2>2. <<y, x>> \in Nat \X Nat
      BY <2>1
    <2>3. ~ (y < x)
      BY <1>2, <2>2 DEF OpToRel
    <2> QED
      BY <2>1, <2>3
  <1>4. PICK i \in S : x = n - i
    OBVIOUS
  <1>5. \A j \in S : j <= i
    BY <1>3, <1>4
  <1> QED
    BY <1>5 DEF LastOf

-----------------------------------------------------------------------------
(***************************************************************************)
(* What the state is made of while a message is handled.                   *)
(***************************************************************************)
LEMMA RunningMessage ==
  ASSUME TypeOK, msg # Idle
  PROVE  /\ msg \in Message
         /\ msg.topic \in Topics /\ msg.ts \in Times
         /\ msg.payload \in Payloads
         /\ msg.payload.text \in Values
         /\ msg.payload.scalars \in Seq(JsonReading)
         /\ HandlersFor[msg.topic] \in Seq(Handlers)
PROOF
  <1>1. msg \in Message
    BY DEF TypeOK
  <1>2. msg.topic \in Topics /\ msg.ts \in Times /\ msg.payload \in Payloads
    BY <1>1 DEF Message
  <1>3. msg.payload \in PayloadType
    BY <1>2, HandlersAssumption
  <1>4. msg.payload.text \in Values /\ msg.payload.scalars \in Seq(JsonReading)
    BY <1>3 DEF PayloadType
  <1>5. HandlersFor[msg.topic] \in Seq(Handlers)
    BY <1>2, HandlersAssumption
  <1> QED
    BY <1>1, <1>2, <1>4, <1>5

(***************************************************************************)
(* The initial states.                                                     *)
(***************************************************************************)
LEMMA InitBatchInv ==
  ASSUME Init
  PROVE  BatchInv
PROOF
  <1>1. NoLabels \in Labels
    BY DEF NoLabels, Labels
  <1>2. \A m \in Metrics : NewMetricData(m) \in MetricData
    BY <1>1 DEF NewMetricData, BlankData, MetricData, Names, Styles
  <1>3. scratch \in [Metrics -> MetricData]
    BY <1>2 DEF Init
  <1>4. props \in [Metrics -> Labels]
    BY <1>1 DEF Init
  <1>5. parser \in [JsonHandlers -> ParserType]
    BY DEF Init, ParserType, ResetParser
  <1>6. /\ handlers \in Seq(Handlers) /\ readings \in Seq(JsonReading)
        /\ metrics \in Seq(Metrics) /\ slots \in Seq(MetricData)
        /\ size \in 0 .. Len(slots)
    BY DEF Init
  <1>7. cache \in [Series -> MetricData \cup {NoData}]
    BY DEF Init
  <1>8. TypeOK
    BY <1>3, <1>4, <1>5, <1>6, <1>7 DEF TypeOK, Init
  <1> QED
    BY <1>8 DEF BatchInv, Init, NothingLeft, LeftOfHandlers, LeftOfReadings,
                LeftOfMetrics, ContextIsMessage, FreshBatch

(***************************************************************************)
(* A message comes in: the vector is empty, all its handlers are left.     *)
(***************************************************************************)
LEMMA OnMessageBatchInv ==
  ASSUME BatchInv, NEW w \in WireTopics, NEW payload \in Payloads,
         NEW ts \in Times, OnMessage(w, payload, ts)
  PROVE  BatchInv'
PROOF
  <1> DEFINE topic == TopicTrim[w]
  <1>1. topic \in Topics
    BY HandlersAssumption
  <1>2. HandlersFor[topic] \in Seq(Handlers)
    BY <1>1, HandlersAssumption
  <1>3. /\ msg' \in Message /\ msg' # Idle /\ msg'.topic = topic
    BY <1>1 DEF OnMessage, Message, Idle
  <1>4. TypeOK'
    <2>1. handlers' \in Seq(Handlers)
      BY <1>2 DEF OnMessage
    <2>2. size' \in 0 .. Len(slots')
      <3>1. Len(slots) \in Nat
        BY DEF BatchInv, TypeOK
      <3> QED
        BY <3>1 DEF OnMessage
    <2> QED
      BY <1>3, <2>1, <2>2 DEF BatchInv, TypeOK, OnMessage
  <1>5. NothingLeft'
    BY <1>3 DEF NothingLeft
  <1>6. handler' = Empty /\ readings' = <<>> /\ metrics' = <<>>
    BY DEF BatchInv, NothingLeft, OnMessage
  <1>7. LeftOfHandlers'
    BY <1>3, <1>6 DEF LeftOfHandlers, Handles, OnMessage
  <1>8. LeftOfReadings' /\ LeftOfMetrics' /\ ContextIsMessage'
    BY <1>6 DEF LeftOfReadings, LeftOfMetrics, ContextIsMessage
  <1>9. FreshBatch'
    BY DEF FreshBatch, OnMessage
  <1> QED
    BY <1>4, <1>5, <1>7, <1>8, <1>9 DEF BatchInv

(***************************************************************************)
(* The parser and the visitor of a handler that starts are reset and told  *)
(* the topic and the time, whatever they were.                             *)
(***************************************************************************)
LEMMA SetUpParserSets ==
  ASSUME NEW p
  PROVE  /\ SetUpParser(p) =
              [state |-> "reset", topic |-> msg.topic, ts |-> msg.ts]
         /\ [SetUpParser(p) EXCEPT !.state = "spent"] =
              [state |-> "spent", topic |-> msg.topic, ts |-> msg.ts]
PROOF
  <1> DEFINE q == ResetParser
  <1>1. q \in [state : {"reset"}, topic : {Empty}, ts : {Empty}]
    BY DEF ResetParser
  <1>2. SetUpParser(p) = [q EXCEPT !.topic = msg.topic, !.ts = msg.ts]
    BY DEF SetUpParser
  <1> HIDE DEF q
  <1>3. SetUpParser(p) = [state |-> "reset", topic |-> msg.topic, ts |-> msg.ts]
    BY <1>1, <1>2
  <1>4. \A x \in [state : {"reset"}, topic : {msg.topic}, ts : {msg.ts}] :
          [x EXCEPT !.state = "spent"] =
            [state |-> "spent", topic |-> msg.topic, ts |-> msg.ts]
    OBVIOUS
  <1>5. SetUpParser(p)
          \in [state : {"reset"}, topic : {msg.topic}, ts : {msg.ts}]
    BY <1>3
  <1> QED
    BY <1>3, <1>4, <1>5

(***************************************************************************)
(* A handler starts: it handles the topic, what it is left with is of the  *)
(* payload, and a JSON handler has been told the topic and the time.       *)
(***************************************************************************)
LEMMA HandlerEventBatchInv ==
  ASSUME BatchInv, HandlerEvent
  PROVE  BatchInv'
PROOF
  <1> DEFINE h == Head(handlers)
             p == SetUpParser(parser[h])
  <1>1. TypeOK /\ msg # Idle /\ readings = <<>> /\ metrics = <<>>
    BY DEF BatchInv, HandlerEvent, HandlerDone
  <1>2. /\ handlers \in Seq(Handlers) /\ handlers # <<>>
        /\ handlers' = Tail(handlers) /\ handler' = h
        /\ UNCHANGED <<msg, slots, size, scratch, props, cache>>
    BY <1>1 DEF HandlerEvent, TypeOK
  <1>3. /\ msg.topic \in Topics /\ msg.ts \in Times
        /\ msg.payload.text \in Values
        /\ msg.payload.scalars \in Seq(JsonReading)
    BY <1>1, RunningMessage
  <1>4. /\ h \in Handlers /\ Tail(handlers) \in Seq(Handlers)
        /\ \A i \in DOMAIN Tail(handlers) : Tail(handlers)[i] = handlers[i + 1]
        /\ \A i \in DOMAIN Tail(handlers) : i + 1 \in DOMAIN handlers
        /\ 1 \in DOMAIN handlers /\ h = handlers[1]
    BY <1>2, HeadTailProperties, LenProperties
  <1>5. h # Empty
    BY <1>4, HandlersAssumption
  <1>6. LeftOfHandlers'
    <2>1. \A i \in DOMAIN handlers : Handles(handlers[i], msg.topic)
      BY <1>1 DEF BatchInv, LeftOfHandlers
    <2>2. Handles(h, msg.topic)
      BY <1>4, <2>1
    <2>3. \A i \in DOMAIN Tail(handlers) : Handles(Tail(handlers)[i], msg.topic)
      BY <1>4, <2>1
    <2> QED
      BY <1>2, <2>2, <2>3 DEF LeftOfHandlers, Handles
  <1>7. NothingLeft' /\ FreshBatch'
    BY <1>1, <1>2 DEF BatchInv, NothingLeft, FreshBatch
  <1>8. reserved' \in Nat
    <2>1. MetricCount[h] \in Nat
      BY <1>4, HandlersAssumption
    <2> QED
      BY <1>1, <2>1 DEF HandlerEvent, ReserveFor, TypeOK
  <1>9. CASE h \in JsonHandlers
    <2>1. h \notin ValueHandlers
      BY <1>9, HandlersAssumption
    <2>2. /\ readings' = Reported(p, msg.payload)
          /\ parser' = [parser EXCEPT ![h] = [p EXCEPT !.state = "spent"]]
          /\ UNCHANGED <<reading, metrics>>
      BY <2>1 DEF HandlerEvent
    <2>3. p = [state |-> "reset", topic |-> msg.topic, ts |-> msg.ts]
      BY SetUpParserSets
    <2>4. readings' = msg.payload.scalars
      BY <2>2, <2>3 DEF Reported
    <2>5. [p EXCEPT !.state = "spent"]
            = [state |-> "spent", topic |-> msg.topic, ts |-> msg.ts]
      BY SetUpParserSets
    <2>6. [p EXCEPT !.state = "spent"] \in ParserType
      BY <1>3, <2>5 DEF ParserType
    <2>7. parser' \in [JsonHandlers -> ParserType]
      BY <1>1, <2>2, <2>6 DEF TypeOK
    <2>8. parser'[h].topic = msg.topic /\ parser'[h].ts = msg.ts
      BY <1>1, <1>9, <2>2, <2>5 DEF TypeOK
    <2>9. TypeOK'
      BY <1>1, <1>2, <1>3, <1>4, <1>8, <2>2, <2>4, <2>7 DEF TypeOK
    <2>10. LeftOfReadings' /\ LeftOfMetrics'
      BY <1>1, <1>2, <1>9, <2>2, <2>4 DEF LeftOfReadings, LeftOfMetrics
    <2>11. ContextIsMessage'
      BY <1>2, <1>9, <2>8 DEF ContextIsMessage, Context
    <2> QED
      BY <1>6, <1>7, <2>9, <2>10, <2>11 DEF BatchInv
  <1>10. CASE h \in ValueHandlers
    <2>1. h \notin JsonHandlers
      BY <1>10, HandlersAssumption
    <2>2. /\ reading' = [value |-> msg.payload.text, type |-> UnknownType]
          /\ metrics' = ValueMetrics[h]
          /\ UNCHANGED <<readings, parser>>
      BY <2>1 DEF HandlerEvent
    <2>3. reading' \in Reading
      BY <1>3, <2>2, HandlersAssumption DEF Reading
    <2>4. metrics' \in Seq(Metrics)
      BY <1>10, <2>2, HandlersAssumption
    <2>5. TypeOK'
      BY <1>1, <1>2, <1>4, <1>8, <2>2, <2>3, <2>4 DEF TypeOK
    <2>6. LeftOfReadings'
      BY <1>1, <2>2 DEF LeftOfReadings
    <2>7. \A k \in DOMAIN metrics' : Tells(h, msg.payload, metrics'[k], reading')
      BY <1>10, <2>2 DEF Tells
    <2>8. LeftOfMetrics'
      BY <1>2, <1>5, <2>3, <2>7 DEF LeftOfMetrics
    <2>9. ContextIsMessage'
      BY <1>2, <2>1 DEF ContextIsMessage, Context
    <2> QED
      BY <1>6, <1>7, <2>5, <2>6, <2>8, <2>9 DEF BatchInv
  <1> QED
    BY <1>4, <1>9, <1>10 DEF Handlers

(***************************************************************************)
(* A scalar is reported: its metrics are told it.                          *)
(***************************************************************************)
LEMMA JsonScalarBatchInv ==
  ASSUME BatchInv, JsonScalar
  PROVE  BatchInv'
PROOF
  <1> DEFINE r == Head(readings)
  <1>1. /\ TypeOK /\ readings # <<>> /\ metrics = <<>>
        /\ readings \in Seq(JsonReading)
        /\ readings' = Tail(readings)
        /\ reading' = [value |-> r.value, type |-> r.type]
        /\ metrics' = MetricsAt[handler][r.at]
        /\ UNCHANGED <<msg, handlers, handler, reserved,
                       slots, size, scratch, props, parser, cache>>
    BY DEF BatchInv, JsonScalar, TypeOK
  <1>2. msg # Idle
    BY <1>1 DEF BatchInv, NothingLeft
  <1>3. /\ r \in JsonReading /\ Tail(readings) \in Seq(JsonReading)
        /\ \A i \in DOMAIN Tail(readings) : Tail(readings)[i] = readings[i + 1]
        /\ \A i \in DOMAIN Tail(readings) : i + 1 \in DOMAIN readings
        /\ 1 \in DOMAIN readings /\ r = readings[1]
    BY <1>1, HeadTailProperties, LenProperties
  <1>4. /\ handler \in JsonHandlers
        /\ \A i \in DOMAIN readings :
             \E j \in DOMAIN msg.payload.scalars :
               readings[i] = msg.payload.scalars[j]
    BY <1>1 DEF BatchInv, LeftOfReadings
  <1>5. PICK j \in DOMAIN msg.payload.scalars : r = msg.payload.scalars[j]
    BY <1>3, <1>4
  <1>6. reading' \in Reading
    BY <1>1, <1>3 DEF Reading, JsonReading
  <1>7. metrics' \in Seq(Metrics)
    BY <1>1, <1>3, <1>4, HandlersAssumption DEF JsonReading
  <1>8. TypeOK'
    BY <1>1, <1>3, <1>6, <1>7 DEF TypeOK
  <1>9. LeftOfReadings'
    BY <1>1, <1>3, <1>4 DEF LeftOfReadings
  <1>10. LeftOfMetrics'
    <2>1. \A k \in DOMAIN metrics' :
            Tells(handler, msg.payload, metrics'[k], reading')
      BY <1>1, <1>4, <1>5 DEF Tells
    <2>2. handler # Empty
      BY <1>4, HandlersAssumption DEF Handlers
    <2> QED
      BY <1>1, <1>6, <2>1, <2>2 DEF LeftOfMetrics
  <1>11. NothingLeft' /\ LeftOfHandlers' /\ ContextIsMessage' /\ FreshBatch'
    BY <1>1, <1>2 DEF BatchInv, NothingLeft, LeftOfHandlers, Handles,
                      ContextIsMessage, Context, FreshBatch
  <1> QED
    BY <1>8, <1>9, <1>10, <1>11 DEF BatchInv

(***************************************************************************)
(* swap_data_back keeps the objects objects, and the elements before the   *)
(* back as they are.                                                       *)
(***************************************************************************)
LEMMA SwapDataBackKeeps ==
  ASSUME TypeOK, NEW m \in Metrics, NEW d \in MetricData, SwapDataBack(m, d)
  PROVE  /\ slots' \in Seq(MetricData)
         /\ size' = size + 1 /\ size' \in 0 .. Len(slots')
         /\ scratch' \in [Metrics -> MetricData]
         /\ \A i \in 1 .. size : slots'[i] = slots[i]
         /\ slots'[size + 1] = d
PROOF
  <1>1. /\ slots \in Seq(MetricData) /\ Len(slots) \in Nat
        /\ size \in 0 .. Len(slots) /\ size \in Nat
    BY DEF TypeOK
  <1>2. size' = size + 1
    BY DEF SwapDataBack
  <1>3. BlankData \in MetricData
    BY DEF BlankData, MetricData, NoLabels, Labels
  <1>4. CASE size < Len(slots)
    <2>1. size + 1 \in 1 .. Len(slots)
      BY <1>1, <1>4
    <2>2. slots' = [slots EXCEPT ![size + 1] = d]
      BY <1>4 DEF SwapDataBack
    <2>3. /\ slots' \in Seq(MetricData) /\ Len(slots') = Len(slots)
          /\ \A i \in 1 .. Len(slots) :
               slots'[i] = IF i = size + 1 THEN d ELSE slots[i]
      BY <1>1, <2>1, <2>2, ExceptSeq
    <2>4. BackSlot \in MetricData
      BY <1>1, <1>4, <2>1, ElementOfSeq DEF BackSlot
    <2>5. scratch' \in [Metrics -> MetricData]
      BY <2>4 DEF SwapDataBack, TypeOK
    <2> QED
      BY <1>1, <1>2, <2>1, <2>3, <2>5
  <1>5. CASE ~ (size < Len(slots))
    <2>1. size = Len(slots)
      BY <1>1, <1>5
    <2>2. slots' = Append(slots, d)
      BY <1>5 DEF SwapDataBack
    <2>3. /\ slots' \in Seq(MetricData) /\ Len(slots') = Len(slots) + 1
          /\ \A i \in 1 .. Len(slots) : slots'[i] = slots[i]
          /\ slots'[Len(slots) + 1] = d
      BY <1>1, <2>2, AppendProperties
    <2>4. BackSlot = BlankData
      BY <1>5 DEF BackSlot
    <2>5. scratch' \in [Metrics -> MetricData]
      BY <1>3, <2>4 DEF SwapDataBack, TypeOK
    <2> QED
      BY <1>1, <1>2, <2>1, <2>3, <2>5
  <1> QED
    BY <1>4, <1>5

(***************************************************************************)
(* A metric puts at the back the sample of the reading it is given.        *)
(***************************************************************************)
LEMMA MetricEventPuts ==
  ASSUME BatchInv, MetricEvent
  PROVE  /\ slots' \in Seq(MetricData)
         /\ size' = size + 1 /\ size' \in 0 .. Len(slots')
         /\ scratch' \in [Metrics -> MetricData]
         /\ props' \in [Metrics -> Labels]
         /\ \A i \in 1 .. size : slots'[i] = slots[i]
         /\ slots'[size + 1] =
              Sample(Head(metrics), msg.topic, reading, msg.ts)
PROOF
  <1> DEFINE m == Head(metrics)
             p == EventProps(props[m], m, Context.topic)
             d == EventData(scratch[m], p, m, Context.topic,
                            reading, Context.ts)
  <1>1. /\ TypeOK /\ metrics # <<>> /\ metrics \in Seq(Metrics)
        /\ props' = [props EXCEPT ![m] = p]
        /\ SwapDataBack(m, d)
    BY DEF BatchInv, MetricEvent, TypeOK
  <1>2. msg # Idle
    BY <1>1 DEF BatchInv, NothingLeft
  <1>3. m \in Metrics
    BY <1>1, HeadTailProperties
  <1>4. handler # Empty /\ reading \in Reading
    BY <1>1 DEF BatchInv, LeftOfMetrics
  <1>5. Context.topic = msg.topic /\ Context.ts = msg.ts
    BY <1>2, <1>4 DEF BatchInv, ContextIsMessage
  <1>6. Context.topic \in Topics /\ Context.ts \in Times
    BY <1>1, <1>2, <1>5, RunningMessage
  <1>7. scratch[m] \in MetricData /\ props[m] \in Labels
    BY <1>1, <1>3 DEF TypeOK
  <1>8. d = Sample(m, msg.topic, reading, msg.ts) /\ d \in MetricData
    BY <1>3, <1>4, <1>5, <1>6, <1>7, EventMakesSample, SampleType
  <1>9. p \in Labels
    BY <1>3, <1>6, <1>7, EventPropsType
  <1> HIDE DEF m, p, d
  <1>10. props' \in [Metrics -> Labels]
    BY <1>1, <1>9 DEF TypeOK
  <1>11. /\ slots' \in Seq(MetricData)
         /\ size' = size + 1 /\ size' \in 0 .. Len(slots')
         /\ scratch' \in [Metrics -> MetricData]
         /\ \A i \in 1 .. size : slots'[i] = slots[i]
         /\ slots'[size + 1] = d
    BY <1>1, <1>3, <1>8, SwapDataBackKeeps
  <1> QED
    BY <1>8, <1>10, <1>11 DEF m

(***************************************************************************)
(* That sample is a sample of the message.                                 *)
(***************************************************************************)
LEMMA MetricEventBatchInv ==
  ASSUME BatchInv, MetricEvent
  PROVE  BatchInv'
PROOF
  <1> DEFINE m == Head(metrics)
  <1>1. /\ TypeOK /\ metrics # <<>> /\ metrics \in Seq(Metrics)
        /\ metrics' = Tail(metrics)
        /\ UNCHANGED <<msg, handlers, handler, readings, reading, reserved,
                       parser, cache>>
    BY DEF BatchInv, MetricEvent, TypeOK
  <1>2. msg # Idle
    BY <1>1 DEF BatchInv, NothingLeft
  <1>3. /\ m \in Metrics /\ Tail(metrics) \in Seq(Metrics)
        /\ \A i \in DOMAIN Tail(metrics) : Tail(metrics)[i] = metrics[i + 1]
        /\ \A i \in DOMAIN Tail(metrics) : i + 1 \in DOMAIN metrics
        /\ 1 \in DOMAIN metrics /\ m = metrics[1]
    BY <1>1, HeadTailProperties, LenProperties
  <1>4. /\ handler # Empty /\ handler \in Handlers
        /\ reading \in Reading
        /\ \A k \in DOMAIN metrics :
             Tells(handler, msg.payload, metrics[k], reading)
    BY <1>1 DEF BatchInv, LeftOfMetrics, TypeOK
  <1> HIDE DEF m
  <1>5. /\ slots' \in Seq(MetricData)
        /\ size' = size + 1 /\ size' \in 0 .. Len(slots')
        /\ scratch' \in [Metrics -> MetricData]
        /\ props' \in [Metrics -> Labels]
        /\ \A i \in 1 .. size : slots'[i] = slots[i]
        /\ slots'[size + 1] = Sample(m, msg.topic, reading, msg.ts)
    BY MetricEventPuts DEF m
  <1>6. TypeOK'
    BY <1>1, <1>3, <1>5 DEF TypeOK
  <1>7. LeftOfMetrics'
    BY <1>1, <1>3, <1>4 DEF LeftOfMetrics
  <1>8. FreshBatch'
    <2>1. SUFFICES ASSUME NEW i \in 1 .. size'
                   PROVE  \E g \in Handlers, n \in Metrics, r \in Reading :
                            /\ Handles(g, msg.topic)
                            /\ Tells(g, msg.payload, n, r)
                            /\ slots'[i] = Sample(n, msg.topic, r, msg.ts)
      BY <1>1 DEF FreshBatch
    <2>2. CASE i \in 1 .. size
      BY <1>2, <1>5, <2>2 DEF BatchInv, FreshBatch
    <2>3. CASE i = size + 1
      <3>1. Handles(handler, msg.topic)
        BY <1>2, <1>4 DEF BatchInv, LeftOfHandlers
      <3>2. Tells(handler, msg.payload, m, reading)
        BY <1>3, <1>4
      <3> QED
        BY <1>3, <1>4, <1>5, <2>3, <3>1, <3>2
    <2>4. size \in Nat
      BY <1>1 DEF TypeOK
    <2> QED
      BY <1>5, <2>2, <2>3, <2>4
  <1>9. NothingLeft' /\ LeftOfHandlers' /\ LeftOfReadings' /\ ContextIsMessage'
    BY <1>1, <1>2 DEF BatchInv, NothingLeft, LeftOfHandlers, LeftOfReadings,
                      ContextIsMessage, Context
  <1> QED
    BY <1>6, <1>7, <1>8, <1>9 DEF BatchInv

(***************************************************************************)
(* What is published is made of objects of the vector.                     *)
(***************************************************************************)
LEMMA AddToCacheBatchInv ==
  ASSUME BatchInv, AddToCache
  PROVE  BatchInv'
PROOF
  <1>1. /\ TypeOK /\ msg' = Idle /\ handler' = Empty
        /\ reading' = NoReading /\ reserved' = 0
        /\ handlers = <<>> /\ readings = <<>> /\ metrics = <<>>
        /\ cache' = Updated /\ slots' \in {slots, Exchanged}
        /\ UNCHANGED <<handlers, readings, metrics, size, scratch, props, parser>>
    BY DEF BatchInv, AddToCache, HandlerDone
  <1>2. /\ slots \in Seq(MetricData) /\ Len(slots) \in Nat
        /\ size \in 0 .. Len(slots) /\ size \in Nat
        /\ cache \in [Series -> MetricData \cup {NoData}]
    BY <1>1 DEF TypeOK
  <1>3. \A i \in 1 .. Len(slots) : slots[i] \in MetricData
    BY <1>2, ElementOfSeq
  <1>4. cache' \in [Series -> MetricData \cup {NoData}]
    <2>1. SUFFICES ASSUME NEW s \in Series
                   PROVE  Updated[s] \in MetricData \cup {NoData}
      BY <1>1 DEF Updated
    <2>2. CASE InBatch(s) = {}
      BY <1>2, <2>2 DEF Updated
    <2>3. CASE InBatch(s) # {}
      <3>1. InBatch(s) \in SUBSET (1 .. size)
        BY DEF InBatch
      <3>2. LastOf(InBatch(s)) \in 1 .. size
        BY <1>2, <2>3, <3>1, LastOfIsIn
      <3>3. slots[LastOf(InBatch(s))] \in MetricData
        BY <1>2, <1>3, <3>2
      <3> QED
        BY <2>3, <3>3 DEF Updated
    <2> QED
      BY <2>2, <2>3
  <1>5. Exchanged \in Seq(MetricData) /\ Len(Exchanged) = Len(slots)
    <2>1. \A i \in 1 .. Len(slots) : SeriesOf(slots[i]) \in Series
      BY <1>3 DEF SeriesOf, Series, MetricData
    <2>2. \A i \in 1 .. Len(slots) : Exchanged[i] \in MetricData
      BY <1>2, <1>3, <2>1 DEF Exchanged
    <2>3. Exchanged \in [1 .. Len(slots) -> MetricData]
      BY <2>2 DEF Exchanged
    <2> QED
      BY <1>2, <2>3, IsASeq, LenProperties
  <1>6. slots' \in Seq(MetricData) /\ size' \in 0 .. Len(slots')
    BY <1>1, <1>2, <1>5
  <1>7. TypeOK'
    BY <1>1, <1>4, <1>6 DEF TypeOK
  <1> QED
    BY <1>1, <1>7 DEF BatchInv, NothingLeft, LeftOfHandlers, LeftOfReadings,
                      LeftOfMetrics, ContextIsMessage, FreshBatch

-----------------------------------------------------------------------------
(***************************************************************************)
(* BatchInv is an invariant: it holds at the start and every step of the   *)
(* client keeps it.                                                        *)
(***************************************************************************)
THEOREM BatchInvariant == Spec => []BatchInv
PROOF
  <1>1. Init => BatchInv
    BY InitBatchInv
  <1>2. BatchInv /\ [Next]_vars => BatchInv'
    <2>1. SUFFICES ASSUME BatchInv, [Next]_vars  PROVE BatchInv'
      OBVIOUS
    <2>2. CASE \E w \in WireTopics, p \in Payloads, t \in Times :
                 OnMessage(w, p, t)
      BY <2>1, <2>2, OnMessageBatchInv
    <2>3. CASE HandlerEvent
      BY <2>1, <2>3, HandlerEventBatchInv
    <2>4. CASE JsonScalar
      BY <2>1, <2>4, JsonScalarBatchInv
    <2>5. CASE MetricEvent
      BY <2>1, <2>5, MetricEventBatchInv
    <2>6. CASE AddToCache
      BY <2>1, <2>6, AddToCacheBatchInv
    <2>7. CASE UNCHANGED vars
      BY <2>1, <2>7 DEF vars, locals, BatchInv, TypeOK, NothingLeft,
                        LeftOfHandlers, LeftOfReadings, LeftOfMetrics,
                        ContextIsMessage, Context, FreshBatch
    <2> QED
      BY <2>1, <2>2, <2>3, <2>4, <2>5, <2>6, <2>7 DEF Next
  <1> QED
    BY <1>1, <1>2, PTL DEF Spec

(***************************************************************************)
(* The state has its type: in particular the logical size of the vector    *)
(* never passes its storage, and every recycled object stays an object.    *)
(***************************************************************************)
THEOREM TypeCorrect == Spec => []TypeOK
PROOF
  <1>1. BatchInv => TypeOK
    BY DEF BatchInv
  <1> QED
    BY <1>1, BatchInvariant, PTL

(***************************************************************************)
(* Recycling is invisible: whatever the message, the configured actions    *)
(* and the messages before it, the vector holds samples of this message    *)
(* only (mqtt_client.cpp:125-137, prometheus_metric.cpp:96-137).           *)
(***************************************************************************)
THEOREM FreshBatchHolds == Spec => []FreshBatch
PROOF
  <1>1. BatchInv => FreshBatch
    BY DEF BatchInv
  <1> QED
    BY <1>1, BatchInvariant, PTL
=============================================================================
