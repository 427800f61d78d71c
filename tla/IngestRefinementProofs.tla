----------------------- MODULE IngestRefinementProofs -----------------------
(***************************************************************************)
(* MqttIngest implements LatestReadings, for any configuration.            *)
(*                                                                         *)
(* A message tells its metrics a fixed sequence of readings, Told.  While  *)
(* it is handled the client is somewhere in that sequence: the vector has  *)
(* the samples of what was told so far, and the metrics, the scalars and   *)
(* the handlers that are left tell the rest, ToTell.  Handlers and scalars *)
(* only unfold the rest; a metric's event takes its head.  At the end the  *)
(* rest is empty and the vector is what LatestReadings delivers.           *)
(***************************************************************************)
EXTENDS MqttIngestProofs, SequenceProofs, FiniteSetTheorems

Told == Latest!ToldBy(HandlersFor[msg.topic], msg.payload)

\* What the handler that runs has still to tell, and all that is left.
LeftOfHandler ==
  Latest!Give(metrics, reading) \o Latest!Report(handler, readings)

ToTell == LeftOfHandler \o Latest!ToldBy(handlers, msg.payload)

\* What is left is the end of what is told.
RestIsLeft ==
  msg # Idle =>
    /\ Len(Told) = size + Len(ToTell)
    /\ \A i \in 1 .. Len(ToTell) : ToTell[i] = Told[size + i]

\* What was told before that is in the vector.
BatchIsTold ==
  msg # Idle =>
    \A i \in 1 .. size :
      slots[i] = Sample(Told[i].metric, msg.topic, Told[i].reading, msg.ts)

\* The topic is one that the broker sends.
TopicIsSent == msg # Idle => \E w \in WireTopics : msg.topic = TopicTrim[w]

IngestInv == BatchInv /\ TopicIsSent /\ RestIsLeft /\ BatchIsTold

\* One telling: a metric is given a reading.
Tellings == [metric : Metrics, reading : Reading]

-----------------------------------------------------------------------------
(***************************************************************************)
(* The operators of LatestReadings are those of its own modules.           *)
(***************************************************************************)
LEMMA SameFlatten ==
  ASSUME NEW s
  PROVE  Latest!FlattenSeq(s) = FlattenSeq(s)
BY DEF Latest!FlattenSeq, FlattenSeq

LEMMA SameSample ==
  ASSUME NEW m, NEW topic, NEW r, NEW ts
  PROVE  Latest!Sample(m, topic, r, ts) = Sample(m, topic, r, ts)
BY DEF Latest!Sample, Sample, Latest!LabelNames, LabelNames

LEMMA SameSeries ==
  /\ Latest!Series = Series
  /\ \A d : Latest!SeriesOf(d) = SeriesOf(d)
BY DEF Latest!Series, Series, Latest!SeriesOf, SeriesOf, Latest!Names, Names,
       Latest!Labels, Labels, Latest!LabelNames, LabelNames

(***************************************************************************)
(* Mapping a sequence to sequences and joining them goes element by        *)
(* element.                                                                *)
(***************************************************************************)
Mapped(f, s) == [i \in DOMAIN s |-> f[s[i]]]

LEMMA FlattenMap ==
  ASSUME NEW S, NEW T, NEW f \in [S -> Seq(T)], NEW s \in Seq(S), s # <<>>
  PROVE  /\ FlattenSeq(Mapped(f, s)) \in Seq(T)
         /\ FlattenSeq(Mapped(f, s)) =
              f[Head(s)] \o FlattenSeq(Mapped(f, Tail(s)))
PROOF
  <1> DEFINE g == [i \in DOMAIN s |-> f[s[i]]]
             t == [i \in DOMAIN Tail(s) |-> f[Tail(s)[i]]]
             R == Seq(T)
  <1>1. /\ Len(s) \in Nat /\ DOMAIN s = 1 .. Len(s)
        /\ \A i \in 1 .. Len(s) : s[i] \in S
    BY LenProperties, ElementOfSeq
  <1>2. /\ Tail(s) \in Seq(S) /\ Len(Tail(s)) = Len(s) - 1
        /\ \A i \in 1 .. Len(Tail(s)) : Tail(s)[i] = s[i + 1]
        /\ Head(s) = s[1] /\ Len(s) >= 1
    BY HeadTailProperties, EmptySeq, <1>1
  <1>3. DOMAIN Tail(s) = 1 .. Len(s) - 1
    BY <1>2, LenProperties
  <1>4. g \in [1 .. Len(s) -> R]
    BY <1>1
  <1> HIDE DEF R
  <1>5. g \in Seq(R) /\ Len(g) = Len(s)
    BY <1>1, <1>4, IsASeq
  <1>6. g # <<>>
    BY <1>1, <1>2, <1>5, EmptySeq
  <1>7. Head(g) = f[Head(s)]
    <2>1. Head(g) = g[1]
      BY <1>5, <1>6, HeadTailProperties
    <2> QED
      BY <2>1, <1>1, <1>2
  <1>8. Tail(g) = t
    <2>1. /\ Tail(g) \in Seq(R) /\ Len(Tail(g)) = Len(g) - 1
          /\ \A i \in 1 .. Len(Tail(g)) : Tail(g)[i] = g[i + 1]
      BY <1>5, <1>6, HeadTailProperties
    <2>2. t \in [1 .. Len(s) - 1 -> R]
      BY <1>1, <1>2, <1>3 DEF R
    <2>3. t \in Seq(R) /\ Len(t) = Len(s) - 1
      BY <1>1, <1>2, <2>2, IsASeq
    <2>4. \A i \in 1 .. Len(s) - 1 : Tail(g)[i] = t[i]
      BY <1>1, <1>2, <1>3, <1>5, <2>1
    <2> QED
      BY <1>5, <2>1, <2>3, <2>4, SeqEqual
  <1>9. FlattenSeq(g) = Head(g) \o FlattenSeq(Tail(g))
    BY <1>5, <1>6, FlattenHead DEF R
  <1>10. FlattenSeq(g) \in Seq(T)
    BY <1>5, FlattenType DEF R
  <1> HIDE DEF g, t
  <1>11. FlattenSeq(g) = f[Head(s)] \o FlattenSeq(t)
    BY <1>7, <1>8, <1>9
  <1> QED
    BY <1>10, <1>11 DEF g, t, Mapped

-----------------------------------------------------------------------------
(***************************************************************************)
(* Giving a reading to metrics: the first is told, then the others.        *)
(***************************************************************************)
LEMMA GiveEmpty ==
  ASSUME NEW r
  PROVE  Latest!Give(<<>>, r) = <<>>
BY DEF Latest!Give

LEMMA GiveHead ==
  ASSUME NEW ms \in Seq(Metrics), NEW r \in Reading
  PROVE  /\ Latest!Give(ms, r) \in Seq(Tellings)
         /\ ms # <<>> =>
              Latest!Give(ms, r) =
                <<[metric |-> Head(ms), reading |-> r]>>
                  \o Latest!Give(Tail(ms), r)
PROOF
  <1> DEFINE g == Latest!Give(ms, r)
             t == Latest!Give(Tail(ms), r)
             x == [metric |-> Head(ms), reading |-> r]
  <1>1. /\ Len(ms) \in Nat /\ DOMAIN ms = 1 .. Len(ms)
        /\ \A i \in 1 .. Len(ms) : ms[i] \in Metrics
    BY LenProperties, ElementOfSeq
  <1>2. g \in [1 .. Len(ms) -> Tellings]
    BY <1>1 DEF Latest!Give, Tellings
  <1>3. g \in Seq(Tellings) /\ Len(g) = Len(ms)
    BY <1>1, <1>2, IsASeq
  <1>4. ASSUME ms # <<>>  PROVE g = <<x>> \o t
    <2>1. /\ Tail(ms) \in Seq(Metrics) /\ Len(Tail(ms)) = Len(ms) - 1
          /\ \A i \in 1 .. Len(Tail(ms)) : Tail(ms)[i] = ms[i + 1]
          /\ Head(ms) = ms[1] /\ Len(ms) >= 1
      BY <1>1, <1>4, HeadTailProperties, EmptySeq
    <2>2. DOMAIN Tail(ms) = 1 .. Len(ms) - 1
      BY <2>1, LenProperties
    <2>3. t \in [1 .. Len(ms) - 1 -> Tellings]
      BY <1>1, <2>1, <2>2 DEF Latest!Give, Tellings
    <2>4. t \in Seq(Tellings) /\ Len(t) = Len(ms) - 1
      <3> HIDE DEF t
      <3>1. Len(ms) - 1 \in Nat
        BY <1>1, <2>1
      <3> QED
        BY <2>3, <3>1, IsASeq
    <2>5. x \in Tellings
      BY <1>1, <2>1 DEF Tellings
    <2>6. <<x>> \in Seq(Tellings) /\ Len(<<x>>) = 1 /\ <<x>>[1] = x
      BY <2>5
    <2>7. /\ <<x>> \o t \in Seq(Tellings)
          /\ Len(<<x>> \o t) = 1 + Len(t)
          /\ (<<x>> \o t)[1] = x
          /\ \A i \in 2 .. 1 + Len(t) : (<<x>> \o t)[i] = t[i - 1]
      BY <2>4, <2>6, ConcatProperties
    <2>8. \A i \in 1 .. Len(ms) : g[i] = [metric |-> ms[i], reading |-> r]
      BY <1>1 DEF Latest!Give
    <2>9. \A i \in 1 .. Len(ms) - 1 :
            t[i] = [metric |-> ms[i + 1], reading |-> r]
      BY <2>1, <2>2 DEF Latest!Give
    <2>10. g[1] = x
      BY <1>1, <2>1, <2>8
    <2> HIDE DEF g, t, x
    <2>11. \A i \in 1 .. Len(ms) : g[i] = (<<x>> \o t)[i]
      <3>1. SUFFICES ASSUME NEW i \in 1 .. Len(ms)
                     PROVE  g[i] = (<<x>> \o t)[i]
        OBVIOUS
      <3>2. CASE i = 1
        BY <2>7, <2>10, <3>2
      <3>3. CASE i # 1
        <4>1. i - 1 \in 1 .. Len(ms) - 1 /\ (i - 1) + 1 = i
          BY <1>1, <3>3
        <4>2. t[i - 1] = [metric |-> ms[i], reading |-> r]
          BY <2>9, <4>1
        <4>3. (<<x>> \o t)[i] = t[i - 1]
          BY <1>1, <2>1, <2>4, <2>7, <3>3
        <4> QED
          BY <2>8, <4>2, <4>3
      <3> QED
        BY <3>2, <3>3
    <2>12. <<x>> \o t \in Seq(Tellings) /\ Len(<<x>> \o t) = Len(g)
      <3>1. 1 + Len(t) = Len(g)
        BY <1>1, <1>3, <2>4
      <3> QED
        BY <2>7, <3>1
    <2> QED
      BY <1>3, <2>11, <2>12, SeqEqual
  <1> QED
    BY <1>3, <1>4

LEMMA GiveLen ==
  ASSUME NEW ms \in Seq(Metrics), NEW r
  PROVE  Len(Latest!Give(ms, r)) = Len(ms)
PROOF
  <1>1. Len(ms) \in Nat /\ DOMAIN ms = 1 .. Len(ms)
    BY LenProperties
  <1> QED
    BY <1>1 DEF Latest!Give

(***************************************************************************)
(* The scalars of a document are reported one after the other.             *)
(***************************************************************************)
\* A scalar as the reading its metrics are given.
AsReading(s) == [value |-> s.value, type |-> s.type]

LEMMA ReportEmpty ==
  ASSUME NEW h
  PROVE  Latest!Report(h, <<>>) = <<>>
PROOF
  <1>1. [i \in DOMAIN <<>> |->
           Latest!Give(MetricsAt[h][<<>>[i].at],
                       [value |-> <<>>[i].value, type |-> <<>>[i].type])] = <<>>
    OBVIOUS
  <1> QED
    BY <1>1, FlattenEmpty, SameFlatten DEF Latest!Report

LEMMA ReportHead ==
  ASSUME NEW h \in JsonHandlers, NEW s \in Seq(JsonReading), s # <<>>
  PROVE  /\ Latest!Report(h, s) \in Seq(Tellings)
         /\ Latest!Report(h, s) =
              Latest!Give(MetricsAt[h][Head(s).at], AsReading(Head(s)))
                \o Latest!Report(h, Tail(s))
PROOF
  <1> DEFINE f == [r \in JsonReading |->
                     Latest!Give(MetricsAt[h][r.at], AsReading(r))]
  <1>1. \A r \in JsonReading :
          MetricsAt[h][r.at] \in Seq(Metrics) /\ AsReading(r) \in Reading
    BY HandlersAssumption DEF JsonReading, AsReading, Reading
  <1>2. f \in [JsonReading -> Seq(Tellings)]
    BY <1>1, GiveHead
  <1>3. Head(s) \in JsonReading /\ Tail(s) \in Seq(JsonReading)
    BY HeadTailProperties
  <1>4. ASSUME NEW u \in Seq(JsonReading)
        PROVE  Latest!Report(h, u) = FlattenSeq(Mapped(f, u))
    <2>1. \A i \in DOMAIN u : u[i] \in JsonReading
      BY LenProperties, ElementOfSeq
    <2>2. [i \in DOMAIN u |->
             Latest!Give(MetricsAt[h][u[i].at],
                         [value |-> u[i].value, type |-> u[i].type])]
            = Mapped(f, u)
      BY <2>1 DEF AsReading, Mapped
    <2> QED
      BY <2>2, SameFlatten DEF Latest!Report
  <1>5. f[Head(s)] =
          Latest!Give(MetricsAt[h][Head(s).at], AsReading(Head(s)))
    BY <1>3
  <1> HIDE DEF f
  <1>6. /\ FlattenSeq(Mapped(f, s)) \in Seq(Tellings)
        /\ FlattenSeq(Mapped(f, s)) = f[Head(s)] \o FlattenSeq(Mapped(f, Tail(s)))
    BY <1>2, FlattenMap
  <1> QED
    BY <1>3, <1>4, <1>5, <1>6

LEMMA ReportType ==
  ASSUME NEW h \in JsonHandlers, NEW s \in Seq(JsonReading)
  PROVE  Latest!Report(h, s) \in Seq(Tellings)
BY ReportHead, ReportEmpty, EmptySeq

(***************************************************************************)
(* Handlers are told of the payload one after the other.                   *)
(***************************************************************************)
LEMMA TellingType ==
  ASSUME NEW h \in Handlers, NEW payload \in PayloadType
  PROVE  Latest!Telling(h, payload) \in Seq(Tellings)
PROOF
  <1>1. payload.text \in Values /\ payload.scalars \in Seq(JsonReading)
    BY DEF PayloadType
  <1>2. CASE h \in JsonHandlers
    BY <1>1, <1>2, ReportType DEF Latest!Telling
  <1>3. CASE h \notin JsonHandlers
    <2>1. ValueMetrics[h] \in Seq(Metrics)
      BY <1>3, HandlersAssumption DEF Handlers
    <2>2. [value |-> payload.text, type |-> UnknownType] \in Reading
      BY <1>1, HandlersAssumption DEF Reading
    <2> QED
      BY <1>3, <2>1, <2>2, GiveHead DEF Latest!Telling
  <1> QED
    BY <1>2, <1>3

LEMMA ToldByEmpty ==
  ASSUME NEW payload
  PROVE  Latest!ToldBy(<<>>, payload) = <<>>
PROOF
  <1>1. [k \in DOMAIN <<>> |-> Latest!Telling(<<>>[k], payload)] = <<>>
    OBVIOUS
  <1> QED
    BY <1>1, FlattenEmpty, SameFlatten DEF Latest!ToldBy

LEMMA ToldByHead ==
  ASSUME NEW hs \in Seq(Handlers), NEW payload \in PayloadType, hs # <<>>
  PROVE  /\ Latest!ToldBy(hs, payload) \in Seq(Tellings)
         /\ Latest!ToldBy(hs, payload) =
              Latest!Telling(Head(hs), payload)
                \o Latest!ToldBy(Tail(hs), payload)
PROOF
  <1> DEFINE f == [h \in Handlers |-> Latest!Telling(h, payload)]
  <1>1. f \in [Handlers -> Seq(Tellings)]
    BY TellingType
  <1>2. Head(hs) \in Handlers /\ Tail(hs) \in Seq(Handlers)
    BY HeadTailProperties
  <1>3. ASSUME NEW u \in Seq(Handlers)
        PROVE  Latest!ToldBy(u, payload) = FlattenSeq(Mapped(f, u))
    <2>1. \A i \in DOMAIN u : u[i] \in Handlers
      BY LenProperties, ElementOfSeq
    <2>2. [k \in DOMAIN u |-> Latest!Telling(u[k], payload)] = Mapped(f, u)
      BY <2>1 DEF Mapped
    <2> QED
      BY <2>2, SameFlatten DEF Latest!ToldBy
  <1>4. f[Head(hs)] = Latest!Telling(Head(hs), payload)
    BY <1>2
  <1> HIDE DEF f
  <1>5. /\ FlattenSeq(Mapped(f, hs)) \in Seq(Tellings)
        /\ FlattenSeq(Mapped(f, hs)) = f[Head(hs)] \o FlattenSeq(Mapped(f, Tail(hs)))
    BY <1>1, FlattenMap
  <1> QED
    BY <1>2, <1>3, <1>4, <1>5

LEMMA ToldByType ==
  ASSUME NEW hs \in Seq(Handlers), NEW payload \in PayloadType
  PROVE  Latest!ToldBy(hs, payload) \in Seq(Tellings)
BY ToldByHead, ToldByEmpty, EmptySeq

-----------------------------------------------------------------------------
(***************************************************************************)
(* What is left and what is told are sequences of tellings.                *)
(***************************************************************************)
LEMMA LeftTypes ==
  ASSUME BatchInv, msg # Idle
  PROVE  /\ msg.payload \in PayloadType
         /\ Told \in Seq(Tellings)
         /\ Latest!Give(metrics, reading) \in Seq(Tellings)
         /\ Latest!Report(handler, readings) \in Seq(Tellings)
         /\ Latest!ToldBy(handlers, msg.payload) \in Seq(Tellings)
         /\ LeftOfHandler \in Seq(Tellings)
         /\ ToTell \in Seq(Tellings)
PROOF
  <1>1. TypeOK
    BY DEF BatchInv
  <1>2. msg.payload \in PayloadType /\ HandlersFor[msg.topic] \in Seq(Handlers)
    BY <1>1, RunningMessage, HandlersAssumption
  <1>3. Told \in Seq(Tellings)
    BY <1>2, ToldByType DEF Told
  <1>4. Latest!ToldBy(handlers, msg.payload) \in Seq(Tellings)
    BY <1>1, <1>2, ToldByType DEF TypeOK
  <1>5. Latest!Report(handler, readings) \in Seq(Tellings)
    <2>1. CASE readings = <<>>
      BY <2>1, ReportEmpty, EmptySeq
    <2>2. CASE readings # <<>>
      <3>1. handler \in JsonHandlers
        BY <2>2 DEF BatchInv, LeftOfReadings
      <3> QED
        BY <1>1, <3>1, ReportType DEF TypeOK
    <2> QED
      BY <2>1, <2>2
  <1>6. Latest!Give(metrics, reading) \in Seq(Tellings)
    <2>1. CASE metrics = <<>>
      BY <2>1, GiveEmpty, EmptySeq
    <2>2. CASE metrics # <<>>
      <3>1. reading \in Reading
        BY <2>2 DEF BatchInv, LeftOfMetrics
      <3> QED
        BY <1>1, <3>1, GiveHead DEF TypeOK
    <2> QED
      BY <2>1, <2>2
  <1>7. LeftOfHandler \in Seq(Tellings)
    BY <1>5, <1>6, ConcatProperties DEF LeftOfHandler
  <1>8. ToTell \in Seq(Tellings)
    BY <1>4, <1>7, ConcatProperties DEF ToTell
  <1> QED
    BY <1>2, <1>3, <1>4, <1>5, <1>6, <1>7, <1>8

(***************************************************************************)
(* A step that unfolds what is left and takes nothing of it.               *)
(***************************************************************************)
LEMMA UnfoldingKeeps ==
  ASSUME IngestInv, msg # Idle, ToTell' = ToTell, UNCHANGED <<msg, slots, size>>
  PROVE  RestIsLeft' /\ BatchIsTold'
PROOF
  <1>1. Told' = Told
    BY DEF Told
  <1> QED
    BY <1>1 DEF IngestInv, RestIsLeft, BatchIsTold

(***************************************************************************)
(* A message comes in: all of it is left, nothing is in the vector.        *)
(***************************************************************************)
LEMMA OnMessageRest ==
  ASSUME IngestInv, NEW w \in WireTopics, NEW payload \in Payloads,
         NEW ts \in Times, OnMessage(w, payload, ts)
  PROVE  RestIsLeft' /\ BatchIsTold'
PROOF
  <1> DEFINE topic == TopicTrim[w]
             all == Latest!ToldBy(HandlersFor[topic], payload)
  <1>1. /\ msg' = [running |-> TRUE, topic |-> topic,
                   payload |-> payload, ts |-> ts]
        /\ handlers' = HandlersFor[topic] /\ size' = 0
        /\ readings' = <<>> /\ metrics' = <<>>
    BY DEF IngestInv, BatchInv, NothingLeft, OnMessage
  <1>2. Told' = all
    BY <1>1 DEF Told
  <1>3. all \in Seq(Tellings)
    <2>1. HandlersFor[topic] \in Seq(Handlers) /\ payload \in PayloadType
      BY HandlersAssumption
    <2> QED
      BY <2>1, ToldByType
  <1>4. ToTell' = (Latest!Give(<<>>, reading') \o Latest!Report(handler', <<>>))
                    \o all
    BY <1>1 DEF ToTell, LeftOfHandler
  <1> HIDE DEF all
  <1>5. ToTell' = all
    <2>1. <<>> \in Seq(Tellings) /\ <<>> \o <<>> = <<>> /\ <<>> \o all = all
      BY <1>3, EmptySeq, ConcatEmptySeq
    <2> QED
      BY <1>4, <2>1, GiveEmpty, ReportEmpty
  <1>6. Len(all) \in Nat
    BY <1>3, LenProperties
  <1> QED
    BY <1>1, <1>2, <1>5, <1>6 DEF RestIsLeft, BatchIsTold

(***************************************************************************)
(* A handler starts: it has all to tell that the payload makes it tell.    *)
(***************************************************************************)
LEMMA HandlerEventTells ==
  ASSUME BatchInv, HandlerEvent
  PROVE  LeftOfHandler' = Latest!Telling(Head(handlers), msg.payload)
PROOF
  <1> DEFINE h == Head(handlers)
             telling == Latest!Telling(h, msg.payload)
             none == <<>>
  <1>1. /\ TypeOK /\ msg # Idle /\ readings = <<>> /\ metrics = <<>>
        /\ handlers # <<>> /\ handlers \in Seq(Handlers) /\ handler' = h
    BY DEF BatchInv, TypeOK, HandlerEvent, HandlerDone
  <1>2. msg.payload \in PayloadType /\ h \in Handlers
    BY <1>1, LeftTypes, HeadTailProperties
  <1>3. telling \in Seq(Tellings)
    BY <1>2, TellingType
  <1>4. LeftOfHandler' =
          Latest!Give(metrics', reading') \o Latest!Report(h, readings')
    BY <1>1 DEF LeftOfHandler
  <1>5. CASE h \in JsonHandlers
    <2>1. h \notin ValueHandlers
      BY <1>5, HandlersAssumption
    <2>2. /\ readings' = Reported(SetUpParser(parser[h]), msg.payload)
          /\ UNCHANGED <<reading, metrics>>
      BY <2>1 DEF HandlerEvent
    <2>3. readings' = msg.payload.scalars
      <3>1. SetUpParser(parser[h]) =
              [state |-> "reset", topic |-> msg.topic, ts |-> msg.ts]
        BY SetUpParserSets
      <3> QED
        BY <2>2, <3>1 DEF Reported
    <2>4. Latest!Give(metrics', reading') = none
      BY <1>1, <2>2, GiveEmpty
    <2>5. Latest!Report(h, readings') = telling
      BY <1>5, <2>3 DEF Latest!Telling
    <2> HIDE DEF telling, none
    <2>6. none \o telling = telling
      BY <1>3, ConcatEmptySeq DEF none
    <2>7. LeftOfHandler' = telling
      BY <1>4, <2>4, <2>5, <2>6
    <2> QED
      BY <2>7 DEF telling
  <1>6. CASE h \notin JsonHandlers
    <2>1. /\ reading' = [value |-> msg.payload.text, type |-> UnknownType]
          /\ metrics' = ValueMetrics[h]
          /\ UNCHANGED <<readings, parser>>
      BY <1>6 DEF HandlerEvent
    <2>2. Latest!Give(metrics', reading') = telling
      BY <1>6, <2>1 DEF Latest!Telling
    <2>3. Latest!Report(h, readings') = none
      BY <1>1, <2>1, ReportEmpty
    <2> HIDE DEF telling, none
    <2>4. telling \o none = telling
      BY <1>3, ConcatEmptySeq DEF none
    <2>5. LeftOfHandler' = telling
      BY <1>4, <2>2, <2>3, <2>4
    <2> QED
      BY <2>5 DEF telling
  <1> QED
    BY <1>5, <1>6

LEMMA HandlerEventRest ==
  ASSUME IngestInv, HandlerEvent
  PROVE  RestIsLeft' /\ BatchIsTold'
PROOF
  <1> DEFINE h == Head(handlers)
             rest == Latest!ToldBy(Tail(handlers), msg.payload)
             telling == Latest!Telling(h, msg.payload)
             none == <<>>
  <1>1. /\ BatchInv /\ TypeOK /\ msg # Idle /\ readings = <<>> /\ metrics = <<>>
        /\ handlers # <<>> /\ handlers \in Seq(Handlers)
        /\ handlers' = Tail(handlers) /\ UNCHANGED <<msg, slots, size>>
    BY DEF IngestInv, BatchInv, TypeOK, HandlerEvent, HandlerDone
  <1>2. msg.payload \in PayloadType
    BY <1>1, LeftTypes
  <1>3. h \in Handlers /\ Tail(handlers) \in Seq(Handlers)
    BY <1>1, HeadTailProperties
  <1>4. Latest!ToldBy(handlers, msg.payload) = telling \o rest
    BY <1>1, <1>2, ToldByHead
  <1>5. telling \o rest \in Seq(Tellings) /\ none \in Seq(Tellings)
    BY <1>2, <1>3, TellingType, ToldByType, ConcatProperties, EmptySeq
  <1>6. LeftOfHandler = none \o none
    BY <1>1, GiveEmpty, ReportEmpty DEF LeftOfHandler
  <1>7. ToTell = (none \o none) \o (telling \o rest)
    BY <1>4, <1>6 DEF ToTell
  <1>8. ToTell' = telling \o rest
    BY <1>1, HandlerEventTells DEF ToTell
  <1> HIDE DEF telling, rest, none
  <1>9. none \o none = none /\ none \o (telling \o rest) = telling \o rest
    BY <1>5, ConcatEmptySeq DEF none
  <1>10. ToTell' = ToTell
    BY <1>7, <1>8, <1>9
  <1> QED
    BY <1>1, <1>10, UnfoldingKeeps

(***************************************************************************)
(* A scalar is reported: giving it to its metrics is unfolded.             *)
(***************************************************************************)
LEMMA JsonScalarTells ==
  ASSUME BatchInv, JsonScalar
  PROVE  LeftOfHandler' = LeftOfHandler
PROOF
  <1> DEFINE r == Head(readings)
             given == Latest!Give(MetricsAt[handler][r.at], AsReading(r))
             report == Latest!Report(handler, Tail(readings))
             none == <<>>
  <1>1. /\ TypeOK /\ readings # <<>> /\ metrics = <<>>
        /\ readings \in Seq(JsonReading) /\ readings' = Tail(readings)
        /\ reading' = AsReading(r) /\ metrics' = MetricsAt[handler][r.at]
        /\ handler' = handler
    BY DEF BatchInv, TypeOK, JsonScalar, AsReading
  <1>2. msg # Idle /\ handler \in JsonHandlers
    BY <1>1 DEF BatchInv, NothingLeft, LeftOfReadings
  <1>3. Latest!Report(handler, readings) = given \o report
    BY <1>1, <1>2, ReportHead
  <1>4. given \o report \in Seq(Tellings) /\ none \in Seq(Tellings)
    BY <1>2, <1>3, LeftTypes, EmptySeq
  <1>5. LeftOfHandler = none \o (given \o report)
    BY <1>1, <1>3, GiveEmpty DEF LeftOfHandler
  <1>6. LeftOfHandler' = given \o report
    BY <1>1 DEF LeftOfHandler
  <1> HIDE DEF given, report, none
  <1>7. none \o (given \o report) = given \o report
    BY <1>4, ConcatEmptySeq DEF none
  <1> QED
    BY <1>5, <1>6, <1>7

LEMMA JsonScalarRest ==
  ASSUME IngestInv, JsonScalar
  PROVE  RestIsLeft' /\ BatchIsTold'
PROOF
  <1>1. BatchInv /\ UNCHANGED <<msg, handlers, slots, size>>
    BY DEF IngestInv, JsonScalar
  <1>2. msg # Idle
    BY <1>1 DEF BatchInv, NothingLeft, JsonScalar
  <1>3. ToTell' = ToTell
    BY <1>1, JsonScalarTells DEF ToTell
  <1> QED
    BY <1>1, <1>2, <1>3, UnfoldingKeeps

(***************************************************************************)
(* A metric's event takes the head of what is left, and its sample is the  *)
(* next of the vector.                                                     *)
(***************************************************************************)
LEMMA MetricEventRest ==
  ASSUME IngestInv, MetricEvent
  PROVE  RestIsLeft' /\ BatchIsTold'
PROOF
  <1> DEFINE m == Head(metrics)
             x == [metric |-> m, reading |-> reading]
             given == Latest!Give(Tail(metrics), reading)
             report == Latest!Report(handler, readings)
             rest == Latest!ToldBy(handlers, msg.payload)
  <1>1. /\ BatchInv /\ TypeOK /\ metrics # <<>> /\ metrics \in Seq(Metrics)
        /\ metrics' = Tail(metrics)
        /\ UNCHANGED <<msg, handlers, handler, readings, reading>>
    BY DEF IngestInv, BatchInv, TypeOK, MetricEvent
  <1>2. msg # Idle /\ reading \in Reading
    BY <1>1 DEF BatchInv, NothingLeft, LeftOfMetrics
  <1>3. m \in Metrics /\ Tail(metrics) \in Seq(Metrics)
    BY <1>1, HeadTailProperties
  <1>4. Latest!Give(metrics, reading) = <<x>> \o given
    BY <1>1, <1>2, GiveHead
  <1>5. /\ given \in Seq(Tellings) /\ report \in Seq(Tellings)
        /\ rest \in Seq(Tellings) /\ x \in Tellings
    BY <1>1, <1>2, <1>3, GiveHead, LeftTypes DEF Tellings
  <1>6. ToTell = ((<<x>> \o given) \o report) \o rest
    BY <1>4 DEF ToTell, LeftOfHandler
  <1>7. ToTell' = (given \o report) \o rest
    BY <1>1 DEF ToTell, LeftOfHandler
  <1>8. /\ size \in Nat /\ size' = size + 1
        /\ \A i \in 1 .. size : slots'[i] = slots[i]
        /\ slots'[size + 1] = Sample(m, msg.topic, reading, msg.ts)
    BY <1>1, MetricEventPuts DEF TypeOK
  <1>9. x.metric = m /\ x.reading = reading
    OBVIOUS
  <1>10. Told' = Told
    BY <1>1 DEF Told
  <1> HIDE DEF m, x, given, report, rest
  <1>11. ToTell = <<x>> \o ToTell'
    <2>1. <<x>> \in Seq(Tellings) /\ given \o report \in Seq(Tellings)
      BY <1>5, ConcatProperties
    <2>2. (<<x>> \o given) \o report = <<x>> \o (given \o report)
      BY <1>5, <2>1, ConcatAssociative
    <2>3. (<<x>> \o (given \o report)) \o rest
            = <<x>> \o ((given \o report) \o rest)
      BY <1>5, <2>1, ConcatAssociative
    <2> QED
      BY <1>6, <1>7, <2>2, <2>3
  <1>12. /\ ToTell' \in Seq(Tellings) /\ Len(ToTell') \in Nat
         /\ Len(ToTell) = Len(ToTell') + 1 /\ ToTell[1] = x
         /\ \A i \in 1 .. Len(ToTell') : ToTell[i + 1] = ToTell'[i]
    <2> DEFINE t == ToTell'
    <2>1. t \in Seq(Tellings)
      BY <1>5, <1>7, ConcatProperties
    <2>2. ToTell = <<x>> \o t
      BY <1>11
    <2> HIDE DEF t
    <2>3. <<x>> \in Seq(Tellings) /\ Len(<<x>>) = 1 /\ <<x>>[1] = x
      BY <1>5
    <2>4. Len(t) \in Nat
      BY <2>1, LenProperties
    <2>5. /\ Len(<<x>> \o t) = 1 + Len(t)
          /\ \A i \in 1 .. 1 + Len(t) : (<<x>> \o t)[i] =
               IF i <= 1 THEN <<x>>[i] ELSE t[i - 1]
      BY <2>1, <2>3, ConcatProperties
    <2>6. (<<x>> \o t)[1] = x
      BY <2>3, <2>4, <2>5
    <2>7. \A i \in 1 .. Len(t) : (<<x>> \o t)[i + 1] = t[i]
      BY <2>4, <2>5
    <2> QED
      BY <2>1, <2>2, <2>4, <2>5, <2>6, <2>7 DEF t
  <1>13. /\ Len(Told) = size + Len(ToTell)
         /\ \A i \in 1 .. Len(ToTell) : ToTell[i] = Told[size + i]
         /\ \A i \in 1 .. size :
              slots[i] = Sample(Told[i].metric, msg.topic,
                                Told[i].reading, msg.ts)
    BY <1>2 DEF IngestInv, RestIsLeft, BatchIsTold
  <1>14. Told[size + 1] = x
    BY <1>12, <1>13
  <1>15. RestIsLeft'
    <2>1. Len(Told) = size' + Len(ToTell')
      BY <1>8, <1>12, <1>13
    <2>2. \A i \in 1 .. Len(ToTell') : ToTell'[i] = Told[size' + i]
      <3>1. SUFFICES ASSUME NEW i \in 1 .. Len(ToTell')
                     PROVE  ToTell'[i] = Told[size' + i]
        OBVIOUS
      <3>2. i + 1 \in 1 .. Len(ToTell) /\ size + (i + 1) = size' + i
        BY <1>8, <1>12
      <3> QED
        BY <1>12, <1>13, <3>2
    <2> QED
      BY <1>10, <2>1, <2>2 DEF RestIsLeft
  <1>16. BatchIsTold'
    <2>1. SUFFICES ASSUME NEW i \in 1 .. size'
                   PROVE  slots'[i] = Sample(Told[i].metric, msg.topic,
                                             Told[i].reading, msg.ts)
      BY <1>1, <1>10 DEF BatchIsTold
    <2>2. CASE i \in 1 .. size
      BY <1>8, <1>13, <2>2
    <2>3. CASE i = size + 1
      BY <1>8, <1>9, <1>14, <2>3
    <2> QED
      BY <1>8, <2>2, <2>3
  <1> QED
    BY <1>15, <1>16

(***************************************************************************)
(* IngestInv is an invariant.                                              *)
(***************************************************************************)
LEMMA IngestInvariant == Spec => []IngestInv
PROOF
  <1>1. Init => IngestInv
    BY InitBatchInv DEF Init, IngestInv, TopicIsSent, RestIsLeft, BatchIsTold
  <1>2. IngestInv /\ [Next]_vars => IngestInv'
    <2>1. SUFFICES ASSUME IngestInv, [Next]_vars  PROVE IngestInv'
      OBVIOUS
    <2>2. BatchInv /\ TopicIsSent
      BY <2>1 DEF IngestInv
    <2>3. CASE \E w \in WireTopics, p \in Payloads, t \in Times :
                 OnMessage(w, p, t)
      <3>1. PICK w \in WireTopics, p \in Payloads, t \in Times :
              OnMessage(w, p, t)
        BY <2>3
      <3>2. TopicIsSent'
        <4>1. msg'.topic = TopicTrim[w]
          BY <3>1 DEF OnMessage
        <4> QED
          BY <4>1 DEF TopicIsSent
      <3> QED
        BY <2>1, <2>2, <3>1, <3>2, OnMessageBatchInv, OnMessageRest
           DEF IngestInv
    <2>4. CASE HandlerEvent
      <3>1. TopicIsSent'
        BY <2>2, <2>4 DEF TopicIsSent, HandlerEvent
      <3> QED
        BY <2>1, <2>2, <2>4, <3>1, HandlerEventBatchInv, HandlerEventRest
           DEF IngestInv
    <2>5. CASE JsonScalar
      <3>1. TopicIsSent'
        BY <2>2, <2>5 DEF TopicIsSent, JsonScalar
      <3> QED
        BY <2>1, <2>2, <2>5, <3>1, JsonScalarBatchInv, JsonScalarRest
           DEF IngestInv
    <2>6. CASE MetricEvent
      <3>1. TopicIsSent'
        BY <2>2, <2>6 DEF TopicIsSent, MetricEvent
      <3> QED
        BY <2>1, <2>2, <2>6, <3>1, MetricEventBatchInv, MetricEventRest
           DEF IngestInv
    <2>7. CASE AddToCache
      <3>1. msg' = Idle
        BY <2>7 DEF AddToCache
      <3>2. TopicIsSent' /\ RestIsLeft' /\ BatchIsTold'
        BY <3>1 DEF TopicIsSent, RestIsLeft, BatchIsTold
      <3> QED
        BY <2>2, <2>7, <3>2, AddToCacheBatchInv DEF IngestInv
    <2>8. CASE UNCHANGED vars
      <3>1. BatchInv'
        BY <2>2, <2>8 DEF vars, locals, BatchInv, TypeOK, NothingLeft,
                          LeftOfHandlers, LeftOfReadings, LeftOfMetrics,
                          ContextIsMessage, Context, FreshBatch
      <3>2. TopicIsSent' /\ RestIsLeft' /\ BatchIsTold'
        BY <2>1, <2>8 DEF vars, locals, IngestInv, TopicIsSent, RestIsLeft,
                          BatchIsTold, Told, ToTell, LeftOfHandler
      <3> QED
        BY <3>1, <3>2 DEF IngestInv
    <2> QED
      BY <2>1, <2>3, <2>4, <2>5, <2>6, <2>7, <2>8 DEF Next
  <1> QED
    BY <1>1, <1>2, PTL DEF Spec

-----------------------------------------------------------------------------
(***************************************************************************)
(* Adding the vector is delivering the message.                            *)
(***************************************************************************)
LEMMA MaxIsLast ==
  ASSUME NEW n \in Nat, NEW S \in SUBSET (1 .. n), S # {}
  PROVE  Latest!Max(S) = LastOf(S)
PROOF
  <1> DEFINE last == LastOf(S)
  <1>1. last \in S /\ \A i \in S : i <= last
    BY LastOfIsIn
  <1> HIDE DEF last
  <1>2. \A x \in S : (\A y \in S : x >= y) => x = last
    BY <1>1
  <1>3. \A y \in S : last >= y
    BY <1>1
  <1>4. Latest!Max(S) = last
    BY <1>1, <1>2, <1>3 DEF Latest!Max
  <1> QED
    BY <1>4 DEF last

LEMMA AddToCacheDelivers ==
  ASSUME IngestInv, AddToCache
  PROVE  \E w \in WireTopics, p \in Payloads, t \in Times :
           Latest!Deliver(TopicTrim[w], p, t)
PROOF
  <1> DEFINE new == Latest!Samples(msg.topic, msg.payload, msg.ts)
             For(s) == {i \in DOMAIN new : Latest!SeriesOf(new[i]) = s}
  <1>1. /\ BatchInv /\ TypeOK /\ msg # Idle
        /\ handlers = <<>> /\ readings = <<>> /\ metrics = <<>>
        /\ cache' = Updated
    BY DEF IngestInv, BatchInv, AddToCache, HandlerDone
  <1>2. msg.payload \in Payloads /\ msg.ts \in Times /\ size \in Nat
    BY <1>1, RunningMessage DEF TypeOK
  <1>3. PICK w \in WireTopics : msg.topic = TopicTrim[w]
    BY <1>1 DEF IngestInv, TopicIsSent
  <1>4. ToTell = <<>>
    <2>1. ToTell = (<<>> \o <<>>) \o <<>>
      BY <1>1, GiveEmpty, ReportEmpty, ToldByEmpty DEF ToTell, LeftOfHandler
    <2>2. <<>> \in Seq(Tellings) /\ <<>> \o <<>> = <<>>
      BY EmptySeq, ConcatEmptySeq
    <2> QED
      BY <2>1, <2>2
  <1>5. /\ Told \in Seq(Tellings) /\ Len(Told) = size
        /\ DOMAIN Told = 1 .. size
    <2>1. Told \in Seq(Tellings)
      BY <1>1, LeftTypes
    <2>2. Len(Told) = size + Len(ToTell)
      BY <1>1 DEF IngestInv, RestIsLeft
    <2>3. Len(ToTell) = 0
      BY <1>4, EmptySeq
    <2> QED
      BY <1>2, <2>1, <2>2, <2>3, LenProperties
  <1>6. DOMAIN new = 1 .. size /\ \A i \in 1 .. size : new[i] = slots[i]
    <2>1. new = [i \in DOMAIN Told |->
                   Latest!Sample(Told[i].metric, msg.topic,
                                 Told[i].reading, msg.ts)]
      BY DEF Latest!Samples, Told
    <2>2. \A i \in 1 .. size :
            slots[i] = Sample(Told[i].metric, msg.topic,
                              Told[i].reading, msg.ts)
      BY <1>1 DEF IngestInv, BatchIsTold
    <2> QED
      BY <1>5, <2>1, <2>2, SameSample
  <1> HIDE DEF new
  <1>7. \A s : For(s) = InBatch(s)
    BY <1>6, SameSeries DEF InBatch
  <1> HIDE DEF For
  <1>8. ASSUME NEW s \in Series
        PROVE  Updated[s] = IF For(s) = {} THEN cache[s]
                                           ELSE new[Latest!Max(For(s))]
    <2>1. CASE InBatch(s) = {}
      BY <1>7, <2>1 DEF Updated
    <2>2. CASE InBatch(s) # {}
      <3>1. InBatch(s) \in SUBSET (1 .. size)
        BY DEF InBatch
      <3>2. /\ Latest!Max(InBatch(s)) = LastOf(InBatch(s))
            /\ LastOf(InBatch(s)) \in 1 .. size
        BY <1>2, <2>2, <3>1, MaxIsLast, LastOfIsIn
      <3>3. Updated[s] = slots[LastOf(InBatch(s))]
        BY <2>2 DEF Updated
      <3> QED
        BY <1>6, <1>7, <2>2, <3>2, <3>3
    <2> QED
      BY <2>1, <2>2
  <1>9. cache' = [s \in Series |-> IF For(s) = {} THEN cache[s]
                                                  ELSE new[Latest!Max(For(s))]]
    BY <1>1, <1>8 DEF Updated
  <1>10. Latest!Deliver(msg.topic, msg.payload, msg.ts)
    BY <1>9, SameSeries DEF Latest!Deliver, For, new
  <1> QED
    BY <1>2, <1>3, <1>10

(***************************************************************************)
(* Handling messages with vectors, recycled objects, parsers and visitors  *)
(* implements delivering each at once: whatever the configuration, nothing *)
(* of a message is published before its last step, and then all of it in   *)
(* the order it was told, nothing lost, doubled or from another message    *)
(* (mqtt_client.cpp:106-142).                                              *)
(***************************************************************************)
THEOREM IngestImplements == Spec => ImplementsLatestReadings
PROOF
  <1>1. Init => Latest!Init
    BY SameSeries DEF Init, Latest!Init
  <1>2. IngestInv /\ [Next]_vars => [Latest!Next]_cache
    <2>1. SUFFICES ASSUME IngestInv, [Next]_vars
                   PROVE  Latest!Next \/ cache' = cache
      OBVIOUS
    <2>2. CASE AddToCache
      BY <2>1, <2>2, AddToCacheDelivers DEF Latest!Next
    <2>3. CASE \/ HandlerEvent \/ JsonScalar \/ MetricEvent \/ UNCHANGED vars
               \/ \E w \in WireTopics, p \in Payloads, t \in Times :
                    OnMessage(w, p, t)
      BY <2>3 DEF HandlerEvent, JsonScalar, MetricEvent, vars, OnMessage
    <2> QED
      BY <2>1, <2>2, <2>3 DEF Next
  <1> QED
    BY <1>1, <1>2, IngestInvariant, PTL
       DEF Spec, ImplementsLatestReadings, Latest!Spec

-----------------------------------------------------------------------------
(***************************************************************************)
(* A document that says no pointer twice reports to each place of the      *)
(* handler at most once.                                                   *)
(***************************************************************************)
SaysEachOnce(s) == \A i, j \in DOMAIN s : s[i].at = s[j].at => i = j

\* The metrics that are bound where these scalars are.
Reached(h, s) ==
  UNION {{s[i].at} \X DOMAIN MetricsAt[h][s[i].at] : i \in DOMAIN s}

LEMMA OnceTail ==
  ASSUME NEW s \in Seq(JsonReading), s # <<>>, SaysEachOnce(s)
  PROVE  SaysEachOnce(Tail(s))
PROOF
  <1>1. \A i \in DOMAIN Tail(s) :
          i + 1 \in DOMAIN s /\ Tail(s)[i] = s[i + 1] /\ i \in Int
    BY HeadTailProperties, LenProperties
  <1>2. SUFFICES ASSUME NEW i \in DOMAIN Tail(s), NEW j \in DOMAIN Tail(s),
                        Tail(s)[i].at = Tail(s)[j].at
                 PROVE  i = j
    BY DEF SaysEachOnce
  <1>3. i + 1 = j + 1
    BY <1>1, <1>2 DEF SaysEachOnce
  <1> QED
    BY <1>1, <1>3

LEMMA ReachedHead ==
  ASSUME NEW h \in JsonHandlers, NEW s \in Seq(JsonReading), s # <<>>,
         SaysEachOnce(s), IsFiniteSet(Reached(h, Tail(s)))
  PROVE  /\ IsFiniteSet(Reached(h, s))
         /\ Cardinality(Reached(h, s)) =
              Len(MetricsAt[h][Head(s).at]) + Cardinality(Reached(h, Tail(s)))
PROOF
  <1> DEFINE at == Head(s).at
             n == Len(MetricsAt[h][at])
             A == {at} \X (1 .. n)
             B == Reached(h, Tail(s))
  <1>1. /\ Len(s) \in Nat /\ DOMAIN s = 1 .. Len(s)
        /\ \A i \in 1 .. Len(s) : s[i] \in JsonReading
    BY LenProperties, ElementOfSeq
  <1>2. /\ Tail(s) \in Seq(JsonReading) /\ Len(Tail(s)) = Len(s) - 1
        /\ \A i \in 1 .. Len(Tail(s)) : Tail(s)[i] = s[i + 1]
        /\ Head(s) = s[1] /\ Len(s) >= 1
    BY <1>1, HeadTailProperties, EmptySeq
  <1>3. DOMAIN Tail(s) = 1 .. Len(s) - 1
    BY <1>2, LenProperties
  <1>4. at \in Pointers
    BY <1>1, <1>2 DEF JsonReading
  <1>5. MetricsAt[h][at] \in Seq(Metrics)
    BY <1>4, HandlersAssumption
  <1>6. n \in Nat /\ DOMAIN MetricsAt[h][at] = 1 .. n
    BY <1>5, LenProperties
  <1>7. Reached(h, s) = A \cup B
    <2> DEFINE At(i) == {s[i].at} \X DOMAIN MetricsAt[h][s[i].at]
    <2>1. Reached(h, s) = UNION {At(i) : i \in 1 .. Len(s)}
      BY <1>1 DEF Reached
    <2>2. B = UNION {At(i + 1) : i \in 1 .. Len(s) - 1}
      BY <1>2, <1>3 DEF Reached
    <2>3. A = At(1)
      BY <1>2, <1>6
    <2> HIDE DEF At, A, B
    <2>4. \A x : x \in Reached(h, s) => x \in A \cup B
      <3>1. SUFFICES ASSUME NEW x, NEW i \in 1 .. Len(s), x \in At(i)
                     PROVE  x \in A \cup B
        BY <2>1
      <3>2. CASE i = 1
        BY <2>3, <3>1, <3>2
      <3>3. CASE i # 1
        <4>1. i - 1 \in 1 .. Len(s) - 1 /\ (i - 1) + 1 = i
          BY <1>1, <3>3
        <4> QED
          BY <2>2, <3>1, <4>1
      <3> QED
        BY <3>2, <3>3
    <2>5. \A x : x \in A => x \in Reached(h, s)
      <3>1. 1 \in 1 .. Len(s)
        BY <1>1, <1>2
      <3> QED
        BY <2>1, <2>3, <3>1
    <2>6. \A x : x \in B => x \in Reached(h, s)
      <3>1. SUFFICES ASSUME NEW x, NEW i \in 1 .. Len(s) - 1, x \in At(i + 1)
                     PROVE  x \in Reached(h, s)
        BY <2>2
      <3>2. i + 1 \in 1 .. Len(s)
        BY <1>1
      <3> QED
        BY <2>1, <3>1, <3>2
    <2> QED
      BY <2>4, <2>5, <2>6
  <1>8. A \cap B = {}
    <2>1. SUFFICES ASSUME NEW i \in DOMAIN Tail(s), Tail(s)[i].at = at
                   PROVE  FALSE
      BY DEF Reached
    <2>2. s[i + 1].at = s[1].at /\ i + 1 \in DOMAIN s /\ 1 \in DOMAIN s
      BY <1>1, <1>2, <1>3, <2>1
    <2>3. i + 1 = 1
      BY <2>2 DEF SaysEachOnce
    <2> QED
      BY <1>3, <2>3
  <1>9. IsFiniteSet(A) /\ Cardinality(A) = n
    <2>1. IsFiniteSet({at}) /\ Cardinality({at}) = 1
      BY FS_Singleton
    <2>2. IsFiniteSet(1 .. n) /\ Cardinality(1 .. n) = n
      BY <1>6, FS_Interval
    <2>3. IsFiniteSet(A) /\ Cardinality(A) = 1 * n
      <3> HIDE DEF n, at
      <3> QED
        BY <2>1, <2>2, FS_Product
    <2> QED
      BY <1>6, <2>3
  <1> HIDE DEF A, B
  <1>10. IsFiniteSet(B)
    BY DEF B
  <1>11. /\ IsFiniteSet(A \cup B)
         /\ Cardinality(A \cup B) =
              Cardinality(A) + Cardinality(B) - Cardinality(A \cap B)
    BY <1>9, <1>10, FS_Union
  <1>12. Cardinality(A \cap B) = 0 /\ Cardinality(B) \in Nat
    BY <1>8, <1>10, FS_EmptySet, FS_CardinalityType
  <1>13. Cardinality(A \cup B) = n + Cardinality(B)
    BY <1>6, <1>9, <1>11, <1>12
  <1> QED
    BY <1>7, <1>11, <1>13 DEF B

LEMMA ReportCounts ==
  ASSUME NEW h \in JsonHandlers, NEW s \in Seq(JsonReading), SaysEachOnce(s)
  PROVE  /\ IsFiniteSet(Reached(h, s))
         /\ Len(Latest!Report(h, s)) = Cardinality(Reached(h, s))
PROOF
  <1> DEFINE Counts(u) == /\ IsFiniteSet(Reached(h, u))
                          /\ Len(Latest!Report(h, u)) = Cardinality(Reached(h, u))
             P == {n \in Nat : \A u \in Seq(JsonReading) :
                     Len(u) = n /\ SaysEachOnce(u) => Counts(u)}
  <1>1. 0 \in P
    <2>1. ASSUME NEW u \in Seq(JsonReading), Len(u) = 0
          PROVE  Counts(u)
      <3>1. u = <<>>
        BY <2>1, EmptySeq
      <3>2. Reached(h, u) = {}
        BY <3>1 DEF Reached
      <3>3. Latest!Report(h, u) = <<>>
        BY <3>1, ReportEmpty
      <3> QED
        BY <3>2, <3>3, FS_EmptySet, EmptySeq
    <2> HIDE DEF Counts
    <2> QED
      BY <2>1
  <1>2. ASSUME NEW n \in P
        PROVE  n + 1 \in P
    <2>1. ASSUME NEW u \in Seq(JsonReading), Len(u) = n + 1, SaysEachOnce(u)
          PROVE  Counts(u)
      <3> DEFINE given == Latest!Give(MetricsAt[h][Head(u).at],
                                      AsReading(Head(u)))
                 report == Latest!Report(h, Tail(u))
      <3>1. u # <<>>
        BY <2>1, EmptySeq
      <3>2. /\ Tail(u) \in Seq(JsonReading) /\ Head(u) \in JsonReading
            /\ Len(Tail(u)) = n
        BY <2>1, <3>1, HeadTailProperties
      <3>3. SaysEachOnce(Tail(u))
        BY <2>1, <3>1, OnceTail
      <3>4. Counts(Tail(u))
        <4> HIDE DEF Counts
        <4> QED
          BY <3>2, <3>3
      <3>5. /\ IsFiniteSet(Reached(h, u))
            /\ Cardinality(Reached(h, u)) =
                 Len(MetricsAt[h][Head(u).at])
                   + Cardinality(Reached(h, Tail(u)))
        BY <2>1, <3>1, <3>4, ReachedHead
      <3>6. Latest!Report(h, u) = given \o report
        BY <3>1, ReportHead
      <3>7. /\ MetricsAt[h][Head(u).at] \in Seq(Metrics)
            /\ AsReading(Head(u)) \in Reading
        BY <3>2, HandlersAssumption DEF JsonReading, AsReading, Reading
      <3>8. /\ given \in Seq(Tellings)
            /\ Len(given) = Len(MetricsAt[h][Head(u).at])
        BY <3>7, GiveHead, GiveLen
      <3>9. report \in Seq(Tellings)
        BY <3>2, ReportType
      <3>10. Len(report) = Cardinality(Reached(h, Tail(u)))
        BY <3>4
      <3> HIDE DEF given, report
      <3>11. Len(given \o report) = Len(given) + Len(report)
        BY <3>8, <3>9, ConcatProperties
      <3> QED
        BY <3>5, <3>6, <3>8, <3>10, <3>11
    <2> HIDE DEF Counts
    <2> QED
      BY <2>1
  <1>3. P = Nat
    <2> HIDE DEF P
    <2>1. P \in SUBSET Nat
      BY DEF P
    <2> QED
      BY <1>1, <1>2, <2>1, SetInduction
  <1>4. Len(s) \in P
    BY <1>3, LenProperties
  <1> HIDE DEF Counts
  <1>5. Counts(s)
    BY <1>4
  <1> QED
    BY <1>5 DEF Counts

(***************************************************************************)
(* A handler tells no more than it is counted for.                         *)
(***************************************************************************)
LEMMA TellingIsCounted ==
  ASSUME NEW h \in Handlers, NEW payload \in PayloadType, SaysOnce(payload)
  PROVE  Len(Latest!Telling(h, payload)) <= MetricCount[h]
PROOF
  <1>1. payload.scalars \in Seq(JsonReading) /\ SaysEachOnce(payload.scalars)
    BY DEF PayloadType, SaysOnce, SaysEachOnce
  <1>2. CASE h \in JsonHandlers
    <2> DEFINE S == Reached(h, payload.scalars)
               B == BoundAt(h)
    <2>1. Len(Latest!Telling(h, payload)) = Cardinality(S)
      BY <1>1, <1>2, ReportCounts DEF Latest!Telling
    <2>2. S \subseteq B
      <3>1. \A i \in DOMAIN payload.scalars :
              payload.scalars[i].at \in Pointers
        <4>1. \A i \in DOMAIN payload.scalars :
                payload.scalars[i] \in JsonReading
          BY <1>1, LenProperties, ElementOfSeq
        <4> QED
          BY <4>1 DEF JsonReading
      <3> QED
        BY <3>1 DEF Reached, BoundAt
    <2>3. IsFiniteSet(B) /\ MetricCount[h] = Cardinality(B)
      BY <1>2, CountAssumption
    <2> HIDE DEF S, B
    <2>4. Cardinality(S) <= Cardinality(B)
      BY <2>2, <2>3, FS_Subset
    <2> QED
      BY <2>1, <2>3, <2>4
  <1>3. CASE h \notin JsonHandlers
    <2>1. h \in ValueHandlers
      BY <1>3 DEF Handlers
    <2>2. ValueMetrics[h] \in Seq(Metrics)
      BY <2>1, HandlersAssumption
    <2>3. Len(Latest!Telling(h, payload)) = Len(ValueMetrics[h])
      BY <1>3, <2>2, GiveLen DEF Latest!Telling
    <2>4. MetricCount[h] = Len(ValueMetrics[h]) /\ MetricCount[h] \in Nat
      BY <2>1, CountAssumption, HandlersAssumption DEF Handlers
    <2> QED
      BY <2>3, <2>4
  <1> QED
    BY <1>2, <1>3

-----------------------------------------------------------------------------
(***************************************************************************)
(* What the handler that runs has still to tell is reserved for as well.   *)
(***************************************************************************)
RestIsReserved ==
  msg # Idle /\ SaysOnce(msg.payload) =>
    size + Len(LeftOfHandler) <= reserved

LEMMA OnMessageReserves ==
  ASSUME BatchInv, NEW w \in WireTopics, NEW payload \in Payloads,
         NEW ts \in Times, OnMessage(w, payload, ts)
  PROVE  RestIsReserved'
PROOF
  <1>1. readings' = <<>> /\ metrics' = <<>> /\ size' = 0 /\ reserved' = 0
    BY DEF BatchInv, NothingLeft, OnMessage
  <1>2. LeftOfHandler' = <<>> \o <<>>
    BY <1>1, GiveEmpty, ReportEmpty DEF LeftOfHandler
  <1>3. Len(<<>> \o <<>>) = 0
    BY EmptySeq, ConcatEmptySeq
  <1> QED
    BY <1>1, <1>2, <1>3 DEF RestIsReserved

LEMMA HandlerEventReserves ==
  ASSUME BatchInv, RestIsReserved, HandlerEvent
  PROVE  RestIsReserved'
PROOF
  <1> DEFINE h == Head(handlers)
             telling == Latest!Telling(h, msg.payload)
  <1>1. SUFFICES ASSUME SaysOnce(msg.payload)
                 PROVE  size' + Len(LeftOfHandler') <= reserved'
    BY DEF RestIsReserved, HandlerEvent
  <1>2. /\ TypeOK /\ msg # Idle /\ readings = <<>> /\ metrics = <<>>
        /\ handlers # <<>> /\ handlers \in Seq(Handlers)
        /\ size \in Nat /\ reserved \in Nat
        /\ size' = size /\ reserved' = reserved + MetricCount[h]
    BY DEF BatchInv, TypeOK, HandlerEvent, HandlerDone, ReserveFor
  <1>3. h \in Handlers /\ msg.payload \in PayloadType
    BY <1>2, HeadTailProperties, RunningMessage, HandlersAssumption
  <1>4. LeftOfHandler' = telling
    BY <1>2, HandlerEventTells DEF LeftOfHandler
  <1>5. size <= reserved
    <2>1. LeftOfHandler = <<>> \o <<>>
      BY <1>2, GiveEmpty, ReportEmpty DEF LeftOfHandler
    <2>2. Len(<<>> \o <<>>) = 0
      BY EmptySeq, ConcatEmptySeq
    <2>3. size + Len(LeftOfHandler) <= reserved
      BY <1>1, <1>2 DEF RestIsReserved
    <2> QED
      BY <1>2, <2>1, <2>2, <2>3
  <1>6. /\ Len(telling) \in Nat /\ Len(telling) <= MetricCount[h]
        /\ MetricCount[h] \in Nat
    BY <1>1, <1>3, TellingIsCounted, TellingType, LenProperties,
       HandlersAssumption
  <1> HIDE DEF telling, h
  <1> QED
    BY <1>2, <1>4, <1>5, <1>6

LEMMA JsonScalarReserves ==
  ASSUME BatchInv, RestIsReserved, JsonScalar
  PROVE  RestIsReserved'
PROOF
  <1>1. LeftOfHandler' = LeftOfHandler
    BY JsonScalarTells DEF LeftOfHandler
  <1> QED
    BY <1>1 DEF RestIsReserved, JsonScalar

LEMMA MetricEventReserves ==
  ASSUME BatchInv, RestIsReserved, MetricEvent
  PROVE  RestIsReserved'
PROOF
  <1> DEFINE all == Latest!Give(metrics, reading)
             given == Latest!Give(Tail(metrics), reading)
             report == Latest!Report(handler, readings)
  <1>1. /\ TypeOK /\ metrics # <<>> /\ metrics \in Seq(Metrics)
        /\ metrics' = Tail(metrics) /\ reserved \in Nat
        /\ size \in Nat /\ size' = size + 1
        /\ UNCHANGED <<msg, handler, readings, reading, reserved>>
    BY DEF BatchInv, TypeOK, MetricEvent, SwapDataBack
  <1>2. msg # Idle /\ reading \in Reading
    BY <1>1 DEF BatchInv, NothingLeft, LeftOfMetrics
  <1>3. Tail(metrics) \in Seq(Metrics) /\ Len(Tail(metrics)) = Len(metrics) - 1
    BY <1>1, HeadTailProperties
  <1>4. /\ given \in Seq(Tellings) /\ report \in Seq(Tellings)
        /\ all \in Seq(Tellings)
    BY <1>1, <1>2, <1>3, GiveHead, LeftTypes
  <1>5. Len(given) = Len(metrics) - 1 /\ Len(all) = Len(metrics)
    BY <1>1, <1>3, GiveLen
  <1>6. LeftOfHandler = all \o report
    BY DEF LeftOfHandler
  <1>7. LeftOfHandler' = given \o report
    BY <1>1 DEF LeftOfHandler
  <1> HIDE DEF all, given, report
  <1>8. /\ Len(LeftOfHandler) = Len(metrics) + Len(report)
        /\ Len(LeftOfHandler') = (Len(metrics) - 1) + Len(report)
    BY <1>4, <1>5, <1>6, <1>7, ConcatProperties
  <1>9. Len(metrics) \in Nat /\ Len(report) \in Nat
    BY <1>1, <1>4, LenProperties
  <1> QED
    BY <1>1, <1>8, <1>9 DEF RestIsReserved

(***************************************************************************)
(* The reservation is enough: on_message reserves for the metric counts of *)
(* the handlers, and a message whose documents say no pointer twice makes  *)
(* no more samples than that (mqtt_client.cpp:132-133).                    *)
(***************************************************************************)
THEOREM ReservationSuffices == Spec => []ReserveSuffices
PROOF
  <1>1. Init => RestIsReserved
    BY DEF Init, RestIsReserved
  <1>2. BatchInv /\ RestIsReserved /\ [Next]_vars => RestIsReserved'
    <2>1. SUFFICES ASSUME BatchInv, RestIsReserved, [Next]_vars
                   PROVE  RestIsReserved'
      OBVIOUS
    <2>2. CASE \E w \in WireTopics, p \in Payloads, t \in Times :
                 OnMessage(w, p, t)
      BY <2>1, <2>2, OnMessageReserves
    <2>3. CASE HandlerEvent
      BY <2>1, <2>3, HandlerEventReserves
    <2>4. CASE JsonScalar
      BY <2>1, <2>4, JsonScalarReserves
    <2>5. CASE MetricEvent
      BY <2>1, <2>5, MetricEventReserves
    <2>6. CASE AddToCache
      BY <2>6 DEF AddToCache, RestIsReserved
    <2>7. CASE UNCHANGED vars
      BY <2>1, <2>7 DEF vars, locals, RestIsReserved, LeftOfHandler
    <2> QED
      BY <2>1, <2>2, <2>3, <2>4, <2>5, <2>6, <2>7 DEF Next
  <1>3. BatchInv /\ RestIsReserved => ReserveSuffices
    <2>1. SUFFICES ASSUME BatchInv, RestIsReserved, msg # Idle,
                          SaysOnce(msg.payload)
                   PROVE  size <= reserved
      BY DEF ReserveSuffices
    <2>2. size \in Nat /\ reserved \in Nat
      BY <2>1 DEF BatchInv, TypeOK
    <2>3. Len(LeftOfHandler) \in Nat
      BY <2>1, LeftTypes, LenProperties
    <2>4. size + Len(LeftOfHandler) <= reserved
      BY <2>1 DEF RestIsReserved
    <2> QED
      BY <2>2, <2>3, <2>4
  <1> QED
    BY <1>1, <1>2, <1>3, BatchInvariant, PTL DEF Spec
=============================================================================
