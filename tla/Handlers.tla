------------------------------ MODULE Handlers ------------------------------
(***************************************************************************)
(* What the configuration leaves the client with: which handlers a topic   *)
(* has, which metrics a handler gives which reading, and what a payload is *)
(* to the two kinds of handler.  All of it is fixed before the client      *)
(* connects.                                                               *)
(***************************************************************************)
EXTENDS MetricData, FiniteSets

CONSTANTS
  WireTopics,     \* topics as the broker sends them
  TopicTrim,      \* [WireTopics -> Topics], yy_mqtt::topic_trim
  JsonHandlers, ValueHandlers,
  HandlersFor,    \* [Topics -> Seq(Handlers)], what m_topics.find returns
  Pointers,       \* JSON pointers
  MetricsAt,      \* [JsonHandlers -> [Pointers -> Seq(Metrics)]]
  ValueMetrics,   \* [ValueHandlers -> Seq(Metrics)]
  MetricCount,    \* [Handlers -> Nat], MqttHandler::m_metric_count
  Payloads,       \* payloads: what a parser and a value handler see in them
  UnknownType,    \* yy_values::ValueType::Unknown
  NoData          \* no sample of that series in the cache

Handlers == JsonHandlers \cup ValueHandlers

\* A scalar of a JSON document, at its pointer.
JsonReading == [at : Pointers, value : Values, type : Types]

(***************************************************************************)
(* A payload is the text a value handler takes whole and the scalars a     *)
(* parser reports, in the order of the document.  A document the parser    *)
(* gives up on has the scalars it had reported before it did.              *)
(***************************************************************************)
PayloadType == [text : Values, scalars : Seq(JsonReading)]

(***************************************************************************)
(* What the constants have to be.                                          *)
(***************************************************************************)
ASSUME HandlersAssumption ==
  /\ TopicTrim \in [WireTopics -> Topics]
  /\ JsonHandlers \cap ValueHandlers = {}
  /\ HandlersFor \in [Topics -> Seq(Handlers)]
  /\ MetricsAt \in [JsonHandlers -> [Pointers -> Seq(Metrics)]]
  /\ ValueMetrics \in [ValueHandlers -> Seq(Metrics)]
  /\ MetricCount \in [Handlers -> Nat]
  /\ Payloads \subseteq PayloadType
  /\ UnknownType \in Types
  /\ Empty \notin Handlers

\* The metrics bound to the pointers of a JSON handler, by their places.
BoundAt(h) == UNION {{p} \X DOMAIN MetricsAt[h][p] : p \in Pointers}

(***************************************************************************)
(* The metric count of a handler is the number of metrics bound to it, as  *)
(* Configuration shows of the handlers it makes (CountIsBound there).      *)
(***************************************************************************)
ASSUME CountAssumption ==
  /\ \A h \in JsonHandlers :
       IsFiniteSet(BoundAt(h)) /\ MetricCount[h] = Cardinality(BoundAt(h))
  /\ \A h \in ValueHandlers : MetricCount[h] = Len(ValueMetrics[h])
=============================================================================
