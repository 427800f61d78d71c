----------------------------- MODULE MetricData -----------------------------
(***************************************************************************)
(* The sample a metric makes out of one reading of an MQTT message:        *)
(* prometheus::Metric::Event (prometheus_metric.cpp) and the object it     *)
(* fills, a yy_prometheus::MetricData.                                     *)
(*                                                                         *)
(* A Metric owns one MetricData and one set of properties for its whole    *)
(* life.  Event overwrites them and then swaps the MetricData with an      *)
(* element of the client's vector, so the object it fills next time is one *)
(* that some metric, for some message, has filled before.  Two labels are  *)
(* told apart, the topic and the location: they are the ones the code      *)
(* names.  The empty string is Empty.                                      *)
(***************************************************************************)
EXTENDS Naturals, Sequences

CONSTANTS
  Metrics,        \* the configured prometheus::Metric objects
  Topics,         \* topics, after topic_trim
  Values,         \* what a payload or a JSON scalar can say
  Types,          \* yy_values::ValueType
  Times,          \* values of the system clock
  LabelTexts,     \* texts a label can hold
  Empty,          \* the empty string, the value of whatever is not set
  Id(_),          \* a metric's name, which several of them may have
  Style(_),       \* a metric's configured type, unit and format
  PropertyActions(_, _, _), \* (metric, topic, properties) -> properties
  LabelActions(_, _, _, _), \* (metric, topic, properties, labels) -> labels
  ValueActions(_, _, _)     \* (metric, value, type) -> [value, type]

LabelNames == {"topic", "location"}

Labels == [LabelNames -> LabelTexts \cup {Empty}]

(***************************************************************************)
(* What JSON scalar, or what whole payload, a metric is given.             *)
(***************************************************************************)
Reading == [value : Values, type : Types]

Names == {Id(m) : m \in Metrics}
Styles == {Style(m) : m \in Metrics}

(***************************************************************************)
(* A MetricData object.  id is the metric's name and style stands for the  *)
(* metric type, unit and format, which Event assigns one after the other.  *)
(***************************************************************************)
MetricData ==
  [id       : Names \cup {Empty},
   style    : Styles \cup {Empty},
   value    : Values \cup {Empty},
   type     : Types \cup {Empty},
   ts       : Times \cup {Empty},
   location : LabelTexts \cup {Empty},
   labels   : Labels]

NoLabels == [n \in LabelNames |-> Empty]

\* A default-constructed MetricData, as the vector makes when it grows.
BlankData ==
  [id |-> Empty, style |-> Empty, value |-> Empty, type |-> Empty,
   ts |-> Empty, location |-> Empty, labels |-> NoLabels]

\* Metric::Metric: the object starts with the metric's own id and style.
NewMetricData(m) == [BlankData EXCEPT !.id = Id(m), !.style = Style(m)]

(***************************************************************************)
(* What the constants have to be: the configured actions are arbitrary,    *)
(* but they return labels and values.                                      *)
(***************************************************************************)
ASSUME DataAssumption ==
  /\ Topics \subseteq LabelTexts
  /\ \A m \in Metrics, t \in Topics, p \in Labels :
       /\ PropertyActions(m, t, p) \in Labels
       /\ \A l \in Labels : LabelActions(m, t, p, l) \in Labels
  /\ \A m \in Metrics, r \in Reading :
       ValueActions(m, r.value, r.type) \in Reading

-----------------------------------------------------------------------------
Clear(labels) == [n \in LabelNames |-> Empty]

(***************************************************************************)
(* The properties of the metric: cleared, the topic set, and the property  *)
(* actions run on what is there.  An action may leave the location unset,  *)
(* as a replace-path whose patterns do not match the topic does.           *)
(***************************************************************************)
EventProps(props, m, topic) ==
  PropertyActions(m, topic, [Clear(props) EXCEPT !["topic"] = topic])

(***************************************************************************)
(* The labels of the sample: cleared, location and topic set, and the      *)
(* label actions run on them.                                              *)
(***************************************************************************)
\* A mutant: the labels of the recycled object are not cleared, and the
\* location is only set when there is one.
EventLabelsUncleared(labels, props, m, topic) ==
  LabelActions(m, topic, props,
    [labels EXCEPT !["topic"] = topic,
                   !["location"] = IF props["location"] = Empty
                                   THEN @ ELSE props["location"]])

EventLabels(labels, props, m, topic) ==
  LabelActions(m, topic, props,
    [Clear(labels) EXCEPT !["location"] = props["location"],
                          !["topic"] = topic])

(***************************************************************************)
(* The MetricData after Event: every field is assigned from the metric and *)
(* from the arguments, in the object left by an earlier swap.  props are   *)
(* the metric's properties of this event.                                  *)
(***************************************************************************)
EventData(data, props, m, topic, reading, ts) ==
  LET v == ValueActions(m, reading.value, reading.type)
  IN [data EXCEPT !.id = Id(m), !.style = Style(m),
                  !.value = v.value, !.type = v.type, !.ts = ts,
                  !.location = props["location"],
                  !.labels = EventLabels(data.labels, props, m, topic)]

-----------------------------------------------------------------------------
(***************************************************************************)
(* The sample a reading stands for, said without any object to recycle:    *)
(* the reference that what is published is compared with.                  *)
(***************************************************************************)
Sample(m, topic, reading, ts) ==
  LET p == PropertyActions(m, topic,
             [n \in LabelNames |-> IF n = "topic" THEN topic ELSE Empty])
      v == ValueActions(m, reading.value, reading.type)
  IN [id |-> Id(m), style |-> Style(m), value |-> v.value, type |-> v.type,
      ts |-> ts, location |-> p["location"],
      labels |-> LabelActions(m, topic, p,
                   [n \in LabelNames |->
                      IF n = "topic" THEN topic ELSE p["location"]])]

\* The series a sample belongs to: its name and its labels.
SeriesOf(data) == <<data.id, data.labels>>

Series == (Names \cup {Empty}) \X Labels
=============================================================================
