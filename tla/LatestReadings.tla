--------------------------- MODULE LatestReadings ---------------------------
(***************************************************************************)
(* What the bridge promises the scraper: the cache holds, for each series, *)
(* the last sample the messages have given it, and it changes by one whole *)
(* message at a time.  There is no vector, no recycled object, no parser   *)
(* and no visitor here: a message is turned into its samples at once.      *)
(***************************************************************************)
EXTENDS Handlers, SequencesExt

VARIABLE cache

Init == cache = [s \in Series |-> NoData]

\* Give one reading to the metrics, in their order.
Give(ms, r) == [k \in DOMAIN ms |-> [metric |-> ms[k], reading |-> r]]

\* What JSON handler h tells its metrics when these scalars are reported.
Report(h, scalars) ==
  FlattenSeq([i \in DOMAIN scalars |->
                Give(MetricsAt[h][scalars[i].at],
                     [value |-> scalars[i].value, type |-> scalars[i].type])])

\* What handler h tells its metrics, in the order it tells them.
Telling(h, payload) ==
  IF h \in JsonHandlers
  THEN Report(h, payload.scalars)
  ELSE Give(ValueMetrics[h], [value |-> payload.text, type |-> UnknownType])

\* What these handlers tell their metrics, one after the other.
ToldBy(hs, payload) == FlattenSeq([k \in DOMAIN hs |-> Telling(hs[k], payload)])

\* The samples of a message, in the order of its handlers.
Samples(topic, payload, ts) ==
  LET told == ToldBy(HandlersFor[topic], payload)
  IN [i \in DOMAIN told |->
        Sample(told[i].metric, topic, told[i].reading, ts)]

\* A message arrives and all its samples replace those of their series.
Deliver(topic, payload, ts) ==
  LET new == Samples(topic, payload, ts)
      For(s) == {i \in DOMAIN new : SeriesOf(new[i]) = s}
  IN cache' = [s \in Series |-> IF For(s) = {} THEN cache[s]
                                               ELSE new[Max(For(s))]]

Next ==
  \E w \in WireTopics, p \in Payloads, t \in Times : Deliver(TopicTrim[w], p, t)

Spec == Init /\ [][Next]_cache
=============================================================================
