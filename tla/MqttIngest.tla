----------------------------- MODULE MqttIngest -----------------------------
(***************************************************************************)
(* The path of an MQTT message through the bridge: mqtt_client::on_message *)
(* finds the handlers of the topic, every handler turns the payload into   *)
(* readings and gives them to its metrics, every metric puts one sample in *)
(* the client's vector, and the vector is added to the metric cache.       *)
(*                                                                         *)
(* All of it runs on the thread of the network loop, one message at a      *)
(* time.  The steps are those at which the state kept between messages is  *)
(* touched: the vector, whose elements survive clear(Keep), the object and *)
(* the properties of each metric, and the parser and the visitor of each   *)
(* JSON handler.                                                           *)
(***************************************************************************)
EXTENDS Handlers

VARIABLES
  msg,       \* the message on_message is running for, Idle between messages
  handlers,  \* handlers of the message that have not run yet
  handler,   \* the handler that is running
  readings,  \* scalars the parser has still to report to the handler
  reading,   \* the reading that is being applied
  metrics,   \* metrics that have still to be given the reading
  reserved,  \* metric_count: what the vector is reserved for
  slots,     \* storage of m_metric_data: elements past size are kept
  size,      \* its logical size
  scratch,   \* scratch[m]: Metric::m_metric_data
  props,     \* props[m]: Metric::m_metric_properties
  parser,    \* parser[h]: m_parser of a JSON handler and its visitor
  cache      \* MetricDataCache: the last sample of each series

locals == <<msg, handlers, handler, readings, reading, metrics, reserved>>
vars == <<locals, slots, size, scratch, props, parser, cache>>

Idle == [running |-> FALSE]

Message == [running : {TRUE}, topic : Topics, payload : Payloads, ts : Times]

NoReading == [value |-> Empty, type |-> Empty]

(***************************************************************************)
(* A parser that was used is spent until it is reset; the visitor holds    *)
(* the topic and the timestamp of the message it was last set up for.      *)
(***************************************************************************)
ParserType ==
  [state : {"reset", "spent"},
   topic : Topics \cup {Empty}, ts : Times \cup {Empty}]

ResetParser == [state |-> "reset", topic |-> Empty, ts |-> Empty]

TypeOK ==
  /\ msg \in Message \cup {Idle}
  /\ handlers \in Seq(Handlers)
  /\ handler \in Handlers \cup {Empty}
  /\ readings \in Seq(JsonReading)
  /\ reading \in Reading \cup {NoReading}
  /\ metrics \in Seq(Metrics)
  /\ reserved \in Nat
  /\ slots \in Seq(MetricData)
  /\ size \in 0 .. Len(slots)
  /\ scratch \in [Metrics -> MetricData]
  /\ props \in [Metrics -> Labels]
  /\ parser \in [JsonHandlers -> ParserType]
  /\ cache \in [Series -> MetricData \cup {NoData}]

Init ==
  /\ msg = Idle
  /\ handlers = <<>>
  /\ handler = Empty
  /\ readings = <<>>
  /\ reading = NoReading
  /\ metrics = <<>>
  /\ reserved = 0
  /\ slots = <<>>
  /\ size = 0
  /\ scratch = [m \in Metrics |-> NewMetricData(m)]
  /\ props = [m \in Metrics |-> NoLabels]
  /\ parser = [h \in JsonHandlers |-> ResetParser]
  /\ cache = [s \in Series |-> NoData]

-----------------------------------------------------------------------------
(***************************************************************************)
(* on_message up to its loop over the handlers: the topic is trimmed, a    *)
(* topic without handlers is ignored, the clock is read once and the       *)
(* vector is cleared with its elements kept.                               *)
(***************************************************************************)
OnMessage(wire, payload, ts) ==
  LET topic == TopicTrim[wire]
  IN /\ msg = Idle
     /\ HandlersFor[topic] # <<>>
     /\ msg' = [running |-> TRUE, topic |-> topic,
                payload |-> payload, ts |-> ts]
     /\ handlers' = HandlersFor[topic]
     /\ reserved' = 0
     /\ size' = 0
     /\ UNCHANGED <<handler, readings, reading, metrics,
                    slots, scratch, props, parser, cache>>

\* The scalars a parser reports: none if it was not reset after its last use.
Reported(p, payload) == IF p.state = "spent" THEN <<>> ELSE payload.scalars

(***************************************************************************)
(* MqttJsonHandler::Event before write_some: parser and visitor are reset, *)
(* then the visitor is told the topic and the time of the message.         *)
(***************************************************************************)
\* A mutant: the parser and the handler it feeds are not reset.
SetUpParserNoReset(p) ==
  [p EXCEPT !.topic = msg.topic, !.ts = msg.ts]

SetUpParser(p) ==
  [ResetParser EXCEPT !.topic = msg.topic, !.ts = msg.ts]

\* The handler and the reading before it are done with.
HandlerDone == readings = <<>> /\ metrics = <<>>

(***************************************************************************)
(* The loop over the handlers: the metrics of the next one are reserved    *)
(* for and its Event is called.  A JSON handler writes the payload to its  *)
(* parser, and whatever it reports, and however it ends, the parser is     *)
(* spent afterwards: its error code is not looked at.  A value handler     *)
(* gives the whole payload to each of its metrics.                         *)
(***************************************************************************)
\* A mutant: the vector is reserved for this handler only.
ReserveForOne(h) == MetricCount[h]

ReserveFor(h) == reserved + MetricCount[h]

HandlerEvent ==
  LET h == Head(handlers)
  IN /\ msg # Idle
     /\ HandlerDone
     /\ handlers # <<>>
     /\ handlers' = Tail(handlers)
     /\ handler' = h
     /\ reserved' = ReserveFor(h)
     /\ \/ /\ h \in JsonHandlers
           /\ LET p == SetUpParser(parser[h])
              IN /\ readings' = Reported(p, msg.payload)
                 /\ parser' = [parser EXCEPT ![h] = [p EXCEPT !.state = "spent"]]
           /\ UNCHANGED <<reading, metrics>>
        \/ /\ h \in ValueHandlers
           /\ reading' = [value |-> msg.payload.text, type |-> UnknownType]
           /\ metrics' = ValueMetrics[h]
           /\ UNCHANGED <<readings, parser>>
     /\ UNCHANGED <<msg, slots, size, scratch, props, cache>>

(***************************************************************************)
(* The parser reports its next scalar: JsonVisitor::apply is called with   *)
(* the metrics bound to its pointer, if there are any.                     *)
(***************************************************************************)
JsonScalar ==
  LET r == Head(readings)
  IN /\ metrics = <<>>
     /\ readings # <<>>
     /\ readings' = Tail(readings)
     /\ reading' = [value |-> r.value, type |-> r.type]
     /\ metrics' = MetricsAt[handler][r.at]
     /\ UNCHANGED <<msg, handlers, handler, reserved,
                    slots, size, scratch, props, parser, cache>>

\* Where Event's topic and timestamp come from: the visitor or the arguments.
Context ==
  IF handler \in JsonHandlers
  THEN parser[handler]
  ELSE [state |-> "reset", topic |-> msg.topic, ts |-> msg.ts]

(***************************************************************************)
(* swap_data_back: the vector grows by one element, a kept one if there is *)
(* one past its size, and that element changes places with the metric's.   *)
(***************************************************************************)
BackSlot == IF size < Len(slots) THEN slots[size + 1] ELSE BlankData

\* A mutant: a vector that has no kept element left does not grow.
SwapDataBackInPlace(m, data) ==
  /\ slots' = IF size < Len(slots)
              THEN [slots EXCEPT ![size + 1] = data]
              ELSE slots
  /\ size' = size + 1
  /\ scratch' = [scratch EXCEPT ![m] = BackSlot]

SwapDataBack(m, data) ==
  /\ slots' = IF size < Len(slots)
              THEN [slots EXCEPT ![size + 1] = data]
              ELSE Append(slots, data)
  /\ size' = size + 1
  /\ scratch' = [scratch EXCEPT ![m] = BackSlot]

\* Metric::Event of the next metric, as the handlers call it in their loops.
MetricEvent ==
  LET m == Head(metrics)
      p == EventProps(props[m], m, Context.topic)
  IN /\ metrics # <<>>
     /\ metrics' = Tail(metrics)
     /\ props' = [props EXCEPT ![m] = p]
     /\ SwapDataBack(m, EventData(scratch[m], p, m, Context.topic,
                                  reading, Context.ts))
     /\ UNCHANGED <<msg, handlers, handler, readings, reading, reserved,
                    parser, cache>>

-----------------------------------------------------------------------------
(***************************************************************************)
(* MetricDataCache::Add takes the vector under its lock: each series it    *)
(* has a sample of gets the last one.  It is given the vector by reference *)
(* and may copy the samples or exchange them for those they replace.       *)
(***************************************************************************)
InBatch(s) == {i \in 1 .. size : SeriesOf(slots[i]) = s}

LastOf(S) == CHOOSE i \in S : \A j \in S : j <= i

Updated ==
  [s \in Series |-> IF InBatch(s) = {} THEN cache[s]
                                       ELSE slots[LastOf(InBatch(s))]]

Exchanged ==
  [i \in 1 .. Len(slots) |->
     LET old == cache[SeriesOf(slots[i])]
     IN IF i <= size /\ old # NoData THEN old ELSE slots[i]]

\* The end of on_message: the whole vector is added to the cache, and the
\* local variables go.
AddToCache ==
  /\ msg # Idle
  /\ HandlerDone
  /\ handlers = <<>>
  /\ cache' = Updated
  /\ slots' \in {slots, Exchanged}
  /\ msg' = Idle
  /\ handler' = Empty
  /\ reading' = NoReading
  /\ reserved' = 0
  /\ UNCHANGED <<handlers, readings, metrics, size, scratch, props, parser>>

Next ==
  \/ \E w \in WireTopics, p \in Payloads, t \in Times : OnMessage(w, p, t)
  \/ HandlerEvent
  \/ JsonScalar
  \/ MetricEvent
  \/ AddToCache

Spec == Init /\ [][Next]_vars

-----------------------------------------------------------------------------
(***************************************************************************)
(* Handler h gives metric m the reading r of the payload.                  *)
(***************************************************************************)
Tells(h, payload, m, r) ==
  \/ /\ h \in JsonHandlers
     /\ \E i \in DOMAIN payload.scalars :
          LET s == payload.scalars[i]
          IN /\ r = [value |-> s.value, type |-> s.type]
             /\ \E k \in DOMAIN MetricsAt[h][s.at] : m = MetricsAt[h][s.at][k]
  \/ /\ h \in ValueHandlers
     /\ r = [value |-> payload.text, type |-> UnknownType]
     /\ \E k \in DOMAIN ValueMetrics[h] : m = ValueMetrics[h][k]

\* h is one of the handlers of the topic.
Handles(h, topic) ==
  \E k \in DOMAIN HandlersFor[topic] : h = HandlersFor[topic][k]

(***************************************************************************)
(* Recycling is invisible: while a message is handled, every element of    *)
(* the vector is the sample of a reading of this message for a metric of   *)
(* one of its handlers, in all of its fields, whichever messages and       *)
(* metrics filled that object before (prometheus_metric.cpp:96-137,        *)
(* mqtt_client.cpp:125-137).                                               *)
(***************************************************************************)
FreshBatch ==
  msg # Idle =>
    \A i \in 1 .. size :
      \E h \in Handlers, m \in Metrics, r \in Reading :
        /\ Handles(h, msg.topic)
        /\ Tells(h, msg.payload, m, r)
        /\ slots[i] = Sample(m, msg.topic, r, msg.ts)

(***************************************************************************)
(* The reservation made from the configured metric counts is enough for    *)
(* the samples of the message, unless a document says a pointer twice      *)
(* (mqtt_client.cpp:132-133, configure_mqtt_handlers.cpp:97 and 200).      *)
(***************************************************************************)
SaysOnce(payload) ==
  \A i, j \in DOMAIN payload.scalars :
    payload.scalars[i].at = payload.scalars[j].at => i = j

ReserveSuffices == msg # Idle /\ SaysOnce(msg.payload) => size <= reserved

Latest == INSTANCE LatestReadings WITH cache <- cache

(***************************************************************************)
(* Handling a message, with all its steps and all the state kept between   *)
(* messages, is the delivery of the whole message at once: nothing of it   *)
(* is published before the last step, nothing is lost, doubled or          *)
(* reordered, and nothing of an earlier message shows                      *)
(* (mqtt_client.cpp:106-142).                                              *)
(***************************************************************************)
ImplementsLatestReadings == Latest!Spec
=============================================================================
