---------------------------- MODULE BridgeProofs ----------------------------
(***************************************************************************)
(* The running bridge does what Exporter promises, for any configuration,  *)
(* any messages and any number of workers.                                 *)
(*                                                                         *)
(* The bridge is both of its halves: each of its behaviours is one of      *)
(* MqttIngest and one of ScrapeHandler, so that their theorems hold of it. *)
(* What is left is to read the promise off a step.                         *)
(***************************************************************************)
EXTENDS Bridge, IngestRefinementProofs

\* What a message may add to the cache: samples, each to its own series.
Batches ==
  {new \in UNION {[S -> MetricData] : S \in SUBSET Series} :
     \A s \in DOMAIN new : SeriesOf(new[s]) = s}

Scraping == INSTANCE ScrapeHandlerProofs
              WITH Samples <- MetricData, NoSample <- NoData,
                   Messages <- Batches

-----------------------------------------------------------------------------
(***************************************************************************)
(* The bridge is MqttIngest, with steps of the workers between its own.    *)
(***************************************************************************)
LEMMA BridgeIngests == BridgeSpec => Spec
PROOF
  <1>1. BridgeInit => Init
    BY DEF BridgeInit
  <1>2. [BridgeNext]_<<vars, webVars>> => [Next]_vars
    BY DEF BridgeNext, HandleMessage, AddShared, Scrape, Next
  <1> QED
    BY <1>1, <1>2, PTL DEF BridgeSpec, Spec

-----------------------------------------------------------------------------
(***************************************************************************)
(* The bridge is ScrapeHandler, with steps of on_message between those of  *)
(* the workers; the end of on_message adds a batch.                        *)
(***************************************************************************)
LEMMA AddIsBatch ==
  ASSUME TypeOK, AddShared, UNCHANGED webVars
  PROVE  \E new \in Batches : Scraping!AddMessage(new)
PROOF
  <1> DEFINE S == {s \in Series : InBatch(s) # {}}
             new == [s \in S |-> slots[LastOf(InBatch(s))]]
  <1>1. /\ size \in Nat /\ size <= Len(slots)
        /\ slots \in Seq(MetricData) /\ cache' = Updated
    BY DEF TypeOK, AddShared, AddToCache
  <1>2. ASSUME NEW s \in S
        PROVE  new[s] \in MetricData /\ SeriesOf(new[s]) = s
    <2>1. InBatch(s) \in SUBSET (1 .. size) /\ InBatch(s) # {}
      BY DEF InBatch
    <2>2. LastOf(InBatch(s)) \in InBatch(s)
      BY <1>1, <2>1, LastOfIsIn
    <2>3. LastOf(InBatch(s)) \in 1 .. Len(slots)
      BY <1>1, <2>1, <2>2
    <2>4. slots[LastOf(InBatch(s))] \in MetricData
      BY <1>1, <2>3, ElementOfSeq
    <2>5. SeriesOf(slots[LastOf(InBatch(s))]) = s
      BY <2>2 DEF InBatch
    <2> QED
      BY <2>4, <2>5
  <1>3. new \in Batches
    <2>1. new \in [S -> MetricData] /\ S \in SUBSET Series
      BY <1>2
    <2> QED
      BY <1>2, <2>1 DEF Batches
  <1>4. cache' = [s \in Series |-> IF s \in DOMAIN new THEN new[s] ELSE cache[s]]
    BY <1>1 DEF Updated
  <1>5. Scraping!AddMessage(new)
    BY <1>4 DEF AddShared, Web!CacheFree, webVars, Scraping!AddMessage,
                Scraping!CacheFree, Scraping!getVars, Scraping!buffers
  <1> QED
    BY <1>3, <1>5

(***************************************************************************)
(* The operators of the instances are those of their own modules.          *)
(***************************************************************************)
LEMMA SameThose ==
  ASSUME NEW s, NEW S
  PROVE  /\ Scraping!Those(s, S) = Those(s, S)
         /\ Web!Those(s, S) = Those(s, S)
         /\ Promise!Those(s, S) = Those(s, S)
BY DEF Scraping!Those, Web!Those, Promise!Those, Those

LEMMA SameThere ==
  ASSUME NEW c
  PROVE  Web!There(c) = Scraping!There(c)
BY SameThose DEF Web!There, Scraping!There

LEMMA SameScrape ==
  ASSUME NEW w \in Workers, Web!GetStep(w)
  PROVE  Scraping!GetStep(w)
PROOF
  <1>1. ASSUME Web!StartGet(w)  PROVE Scraping!StartGet(w)
    BY <1>1 DEF Web!StartGet, Scraping!StartGet, Web!NoLast, Scraping!NoLast,
       Web!NoReply, Scraping!NoReply, Web!OthersBusy, Scraping!OthersBusy,
       Web!Busy, Scraping!Busy, Web!buffers, Scraping!buffers
  <1>2. ASSUME Web!ClearBody(w)  PROVE Scraping!ClearBody(w)
    BY <1>2 DEF Web!ClearBody, Scraping!ClearBody, Web!Go, Scraping!Go,
       Web!AppendBody, Scraping!AppendBody, Web!OthersBusy, Scraping!OthersBusy,
       Web!Busy, Scraping!Busy, Web!Torn, Scraping!Torn, Web!Cleared, Scraping!Cleared
  <1>3. ASSUME Web!LockCache(w)  PROVE Scraping!LockCache(w)
    BY <1>3, SameThere DEF Web!LockCache, Scraping!LockCache, Web!Go, Scraping!Go,
       Web!CacheFree, Scraping!CacheFree, Web!buffers, Scraping!buffers
  <1>4. ASSUME Web!VisitSample(w)  PROVE Scraping!VisitSample(w)
    BY <1>4 DEF Web!VisitSample, Scraping!VisitSample,
       Web!AppendBody, Scraping!AppendBody, Web!OthersBusy, Scraping!OthersBusy,
       Web!Busy, Scraping!Busy, Web!Torn, Scraping!Torn,
       Web!Serialized, Scraping!Serialized, Web!NewHeaders, Scraping!NewHeaders,
       Web!Headers, Scraping!Headers, Web!SampleLine, Scraping!SampleLine
  <1>5. ASSUME Web!UnlockCache(w)  PROVE Scraping!UnlockCache(w)
    BY <1>5 DEF Web!UnlockCache, Scraping!UnlockCache, Web!Go, Scraping!Go,
       Web!buffers, Scraping!buffers
  <1>6. ASSUME Web!FormatHeader(w)  PROVE Scraping!FormatHeader(w)
    BY <1>6 DEF Web!FormatHeader, Scraping!FormatHeader, Web!Go, Scraping!Go,
       Web!ContentLength, Scraping!ContentLength,
       Web!OthersBusy, Scraping!OthersBusy, Web!Busy, Scraping!Busy
  <1>7. ASSUME Web!WriteHeader(w)  PROVE Scraping!WriteHeader(w)
    BY <1>7 DEF Web!WriteHeader, Scraping!WriteHeader, Web!Go, Scraping!Go,
       Web!buffers, Scraping!buffers
  <1>8. ASSUME Web!WriteBody(w)  PROVE Scraping!WriteBody(w)
    BY <1>8 DEF Web!WriteBody, Scraping!WriteBody, Web!Go, Scraping!Go,
       Web!buffers, Scraping!buffers
  <1> QED
    BY <1>1, <1>2, <1>3, <1>4, <1>5, <1>6, <1>7, <1>8
       DEF Web!GetStep, Scraping!GetStep

LEMMA BridgeScrapes == BridgeSpec => Scraping!Spec
PROOF
  <1>1. BridgeInit => Scraping!Init
    BY DEF BridgeInit, Web!Init, Scraping!Init, Web!NoLast, Scraping!NoLast,
           Web!NoReply, Scraping!NoReply
  <1>2. TypeOK /\ [BridgeNext]_<<vars, webVars>> => [Scraping!Next]_Scraping!vars
    <2>1. SUFFICES ASSUME TypeOK, [BridgeNext]_<<vars, webVars>>
                   PROVE  Scraping!Next \/ UNCHANGED Scraping!vars
      OBVIOUS
    <2>2. CASE AddShared /\ UNCHANGED webVars
      BY <2>1, <2>2, AddIsBatch DEF Scraping!Next
    <2>3. CASE UNCHANGED cache /\ UNCHANGED webVars
      BY <2>3 DEF webVars, Scraping!vars, Scraping!getVars, Scraping!buffers
    <2>4. ASSUME NEW w \in Workers, Scrape(w)  PROVE Scraping!Next
      BY <2>4, SameScrape DEF Scrape, Scraping!Next
    <2>5. CASE HandleMessage
      BY <2>2, <2>3, <2>5 DEF HandleMessage, OnMessage, HandlerEvent,
                              JsonScalar, MetricEvent
    <2>6. CASE UNCHANGED <<vars, webVars>>
      BY <2>3, <2>6 DEF vars
    <2> QED
      BY <2>1, <2>4, <2>5, <2>6 DEF BridgeNext
  <1> QED
    BY <1>1, <1>2, BridgeIngests, TypeCorrect, PTL DEF BridgeSpec, Scraping!Spec

(***************************************************************************)
(* With what BridgeAssumption says, batches and order are as ScrapeHandler *)
(* assumes, so that its theorems hold of the bridge.                       *)
(***************************************************************************)
LEMMA BatchesAreMessages ==
  /\ None \notin Workers
  /\ \A d \in MetricData : NameOf(d) # None
  /\ Order \in Seq(Series)
  /\ NoData \notin MetricData
  /\ \A new \in Batches :
       DOMAIN new \subseteq Series /\ \A s \in DOMAIN new : new[s] \in MetricData
PROOF
  <1>1. \A d \in MetricData : NameOf(d) # None
    BY BridgeAssumption DEF MetricData, NameOf
  <1> QED
    BY <1>1, BridgeAssumption DEF Batches

LEMMA OrderKeepsTogether ==
  \A i, j, k \in DOMAIN Order : i < j /\ j < k =>
    \A d \in Scraping!Brought(Order[i]), x \in Scraping!Brought(Order[j]),
       e \in Scraping!Brought(Order[k]) :
      NameOf(d) = NameOf(e) => NameOf(x) = NameOf(d)
PROOF
  <1>1. ASSUME NEW s, NEW d \in Scraping!Brought(s)  PROVE NameOf(d) = s[1]
    BY <1>1 DEF Scraping!Brought, Batches, SeriesOf, NameOf
  <1> QED
    BY <1>1, BridgeAssumption

LEMMA ScrapingInvariant == BridgeSpec => []Scraping!Inv
BY BridgeScrapes, Scraping!InvAtInit, Scraping!InvStep,
   BatchesAreMessages, OrderKeepsTogether, PTL DEF Scraping!Spec

-----------------------------------------------------------------------------
(***************************************************************************)
(* The same operators in the instances of LatestReadings, ScrapeHandler    *)
(* and Exporter.                                                           *)
(***************************************************************************)
LEMMA SameDeliver ==
  ASSUME NEW topic, NEW p, NEW ts, Latest!Deliver(topic, p, ts)
  PROVE  Promise!Deliver(topic, p, ts)
PROOF
  <1>1. \A s : Promise!FlattenSeq(s) = Latest!FlattenSeq(s)
    BY DEF Promise!FlattenSeq, Latest!FlattenSeq
  <1>2. \A hs, q : Promise!ToldBy(hs, q) = Latest!ToldBy(hs, q)
    BY <1>1 DEF Promise!ToldBy, Latest!ToldBy, Promise!Telling, Latest!Telling,
       Promise!Report, Latest!Report, Promise!Give, Latest!Give
  <1>3. \A m, r : Promise!Sample(m, topic, r, ts) = Latest!Sample(m, topic, r, ts)
    BY DEF Promise!Sample, Latest!Sample, Promise!LabelNames, Latest!LabelNames
  <1>4. Promise!Samples(topic, p, ts) = Latest!Samples(topic, p, ts)
    BY <1>2, <1>3 DEF Promise!Samples, Latest!Samples
  <1>5. \A S : Promise!Max(S) = Latest!Max(S)
    BY DEF Promise!Max, Latest!Max
  <1>6. /\ Promise!Series = Latest!Series
        /\ \A d : Promise!SeriesOf(d) = Latest!SeriesOf(d)
    BY DEF Promise!Series, Latest!Series, Promise!SeriesOf, Latest!SeriesOf,
       Promise!Names, Latest!Names, Promise!Labels, Latest!Labels,
       Promise!LabelNames, Latest!LabelNames
  <1> QED
    BY <1>4, <1>5, <1>6 DEF Promise!Deliver, Latest!Deliver

LEMMA SameSampleLines ==
  ASSUME NEW s
  PROVE  Scraping!Those(s, Scraping!SampleLines) = Those(s, Web!SampleLines)
PROOF
  <1>1. Scraping!SampleLines = Web!SampleLines
    BY DEF Scraping!SampleLines, Web!SampleLines
  <1> QED
    BY <1>1, SameThose

(***************************************************************************)
(* The samples of a snapshot, without what makes them lines, are those of  *)
(* the cache in their order.                                               *)
(***************************************************************************)
LEMMA SnapshotSamples ==
  ASSUME NEW c
  PROVE  LET lines == Scraping!SnapshotOf(c)
         IN [i \in DOMAIN lines |-> lines[i].data] = Promise!SamplesOf(c)
PROOF
  <1> DEFINE there == Scraping!There(c)
             lines == Scraping!SnapshotOf(c)
  <1>1. there = Promise!Those(Order, {s \in Promise!Series : c[s] # NoData})
    BY SameThose DEF Scraping!There, Promise!Series, Series, Promise!Names,
       Names, Promise!Labels, Labels, Promise!LabelNames, LabelNames
  <1>2. /\ DOMAIN lines = DOMAIN there
        /\ \A i \in DOMAIN there : lines[i].data = c[there[i]]
    BY DEF Scraping!SnapshotOf, Scraping!LinesOf, Scraping!SampleLine
  <1>3. Promise!SamplesOf(c) = [i \in DOMAIN there |-> c[there[i]]]
    BY <1>1 DEF Promise!SamplesOf
  <1> HIDE DEF there, lines
  <1> QED
    BY <1>2, <1>3 DEF lines

-----------------------------------------------------------------------------
(***************************************************************************)
(* The steps of a scrape, as those of who asks.                            *)
(***************************************************************************)
LEMMA PhaseWaits ==
  ASSUME NEW w \in Workers, at[w] \in Scraping!Points
  PROVE  (PhaseOf(w) \in {"asked", "taken"}) <=> Web!Busy(w)
BY DEF PhaseOf, Web!Busy, Scraping!Points

\* A step that changes where one worker is changes no other's phase or answer.
LEMMA OthersKeepPhase ==
  ASSUME NEW w \in Workers, NEW v \in Workers, v # w,
         NEW to, at' = [at EXCEPT ![w] = to], at \in [Workers -> Scraping!Points],
         reply'[v] = reply[v]
  PROVE  PhaseOf(v)' = PhaseOf(v) /\ AnswerOf(v)' = AnswerOf(v)
BY DEF PhaseOf, AnswerOf

\* What a step leaves of the promise if it changes no phase, answer or cache.
LEMMA PromiseUnchanged ==
  ASSUME \A v \in Workers : PhaseOf(v)' = PhaseOf(v) /\ AnswerOf(v)' = AnswerOf(v),
         UNCHANGED <<cache, took, alone>>
  PROVE  UNCHANGED Promise!promised
BY DEF Promise!promised

LEMMA ScrapeKeepsPromise ==
  ASSUME Scraping!Inv, NEW w \in Workers, Scrape(w)
  PROVE  \/ Promise!Ask(w) \/ Promise!Take(w) \/ Promise!Answer(w)
         \/ UNCHANGED Promise!promised
PROOF
  <1> DEFINE Same(v) == PhaseOf(v)' = PhaseOf(v) /\ AnswerOf(v)' = AnswerOf(v)
             phases == [v \in Workers |-> PhaseOf(v)]
             answers == [v \in Workers |-> AnswerOf(v)]
  <1>1. /\ at \in [Workers -> Scraping!Points] /\ w \in DOMAIN at
        /\ reply \in [Workers -> [length : Nat, body : Seq(Scraping!Lines)]]
        /\ took \in [Workers -> Scraping!Contents]
        /\ alone \in [Workers -> BOOLEAN]
        /\ UNCHANGED cache
    BY DEF Scraping!Inv, Scraping!TypeOK, Scrape, vars
  <1>2. CASE Web!StartGet(w)
    <2>1. at[w] \in {"idle", "done"} /\ at' = [at EXCEPT ![w] = "clear"]
      BY <1>2 DEF Web!StartGet
    <2>2. \A v \in Workers \ {w} : Same(v)
      <3>1. \A v \in Workers \ {w} : reply'[v] = reply[v]
        BY <1>1, <1>2 DEF Web!StartGet
      <3> QED
        BY <1>1, <2>1, <3>1, OthersKeepPhase
    <2>3. /\ PhaseOf(w) \notin {"asked", "taken"}
          /\ PhaseOf(w)' = "asked" /\ AnswerOf(w)' = None
      BY <1>1, <2>1 DEF PhaseOf, AnswerOf
    <2>4. phases' = [phases EXCEPT ![w] = "asked"]
      BY <2>2, <2>3
    <2>5. answers' = [answers EXCEPT ![w] = None]
      BY <2>2, <2>3
    <2>6. alone' = [v \in Workers |->
                      IF v = w
                      THEN \A u \in Workers \ {w} : ~ Promise!Waits(u)
                      ELSE alone[v] /\ ~ Promise!Waits(v)]
      <3>1. \A v \in Workers : Promise!Waits(v) <=> Web!Busy(v)
        BY <1>1, PhaseWaits DEF Promise!Waits
      <3>2. (~ Web!OthersBusy(w)) <=> \A u \in Workers \ {w} : ~ Promise!Waits(u)
        BY <3>1 DEF Web!OthersBusy
      <3> QED
        BY <1>2, <3>1, <3>2 DEF Web!StartGet
    <2>7. ~ Promise!Waits(w) /\ UNCHANGED <<cache, took>>
      BY <1>2, <2>3 DEF Promise!Waits, Web!StartGet
    <2> QED
      BY <2>4, <2>5, <2>6, <2>7 DEF Promise!Ask
  <1>3. CASE Web!ClearBody(w)
    <2>1. at[w] = "clear" /\ at' = [at EXCEPT ![w] = "lock"]
      BY <1>3 DEF Web!ClearBody, Web!Go
    <2>2. \A v \in Workers \ {w} : Same(v)
      BY <1>1, <1>3, <2>1, OthersKeepPhase DEF Web!ClearBody
    <2>3. Same(w)
      BY <1>1, <2>1 DEF PhaseOf, AnswerOf
    <2> QED
      BY <1>3, <2>2, <2>3, PromiseUnchanged DEF Web!ClearBody
  <1>4. CASE Web!LockCache(w)
    <2>1. at[w] = "lock" /\ at' = [at EXCEPT ![w] = "visit"]
      BY <1>4 DEF Web!LockCache, Web!Go
    <2>2. \A v \in Workers \ {w} : Same(v)
      BY <1>1, <1>4, <2>1, OthersKeepPhase DEF Web!LockCache
    <2>3. /\ PhaseOf(w) = "asked" /\ PhaseOf(w)' = "taken"
          /\ AnswerOf(w)' = AnswerOf(w)
      BY <1>1, <2>1 DEF PhaseOf, AnswerOf
    <2>4. phases' = [phases EXCEPT ![w] = "taken"]
      BY <2>2, <2>3
    <2>5. answers' = answers
      BY <2>2, <2>3
    <2> QED
      BY <1>4, <2>3, <2>4, <2>5 DEF Web!LockCache, Promise!Take
  <1>5. CASE Web!VisitSample(w)
    BY <1>5, PromiseUnchanged DEF Web!VisitSample, PhaseOf, AnswerOf
  <1>6. CASE \/ Web!UnlockCache(w) \/ Web!FormatHeader(w) \/ Web!WriteHeader(w)
    <2>1. PICK to \in {"format", "writeHeader", "writeBody"} :
            /\ at[w] \in {"visit", "format", "writeHeader"}
            /\ at' = [at EXCEPT ![w] = to]
      BY <1>6 DEF Web!UnlockCache, Web!FormatHeader, Web!WriteHeader, Web!Go
    <2>2. \A v \in Workers \ {w} : Same(v)
      <3>1. \A v \in Workers \ {w} : reply'[v] = reply[v]
        BY <1>1, <1>6 DEF Web!UnlockCache, Web!FormatHeader, Web!WriteHeader
      <3> QED
        BY <1>1, <2>1, <3>1, OthersKeepPhase
    <2>3. Same(w)
      BY <1>1, <2>1 DEF PhaseOf, AnswerOf
    <2>4. UNCHANGED <<cache, took, alone>>
      BY <1>6 DEF Web!UnlockCache, Web!FormatHeader, Web!WriteHeader
    <2> QED
      BY <2>2, <2>3, <2>4, PromiseUnchanged
  <1>7. CASE Web!WriteBody(w)
    <2>1. /\ at[w] = "writeBody" /\ at' = [at EXCEPT ![w] = "done"]
          /\ reply' = [reply EXCEPT ![w].body = body]
          /\ UNCHANGED <<cache, took, alone>>
      BY <1>7 DEF Web!WriteBody, Web!Go
    <2>2. \A v \in Workers \ {w} : Same(v)
      <3>1. \A v \in Workers \ {w} : reply'[v] = reply[v]
        BY <1>1, <2>1
      <3> QED
        BY <1>1, <2>1, <3>1, OthersKeepPhase
    <2>3. PhaseOf(w) = "taken" /\ PhaseOf(w)' = "answered"
      BY <1>1, <2>1 DEF PhaseOf
    <2>4. phases' = [phases EXCEPT ![w] = "answered"]
      BY <2>2, <2>3
    <2>5. ASSUME alone[w]  PROVE AnswerOf(w)' = Promise!SamplesOf(took[w])
      <3>1. Scraping!Those(body, Scraping!SampleLines) = Scraping!SnapshotOf(took[w])
        BY <2>1, <2>5 DEF Scraping!Inv, Scraping!Formatting
      <3>2. /\ at'[w] = "done" /\ reply'[w].body = body
        BY <1>1, <2>1
      <3>3. AnswerOf(w)' = LET samples == Those(body, Web!SampleLines)
                           IN [i \in DOMAIN samples |-> samples[i].data]
        BY <3>2 DEF AnswerOf, Web!SampleLines
      <3> QED
        BY <3>1, <3>3, SameSampleLines, SnapshotSamples
    <2>6. /\ answers'[w] = AnswerOf(w)'
          /\ \A v \in Workers \ {w} : answers'[v] = answers[v]
      BY <2>2
    <2>7. phases[w] = "taken"
      BY <2>3
    <2> HIDE DEF phases, answers
    <2> QED
      BY <2>1, <2>4, <2>5, <2>6, <2>7 DEF Promise!Answer, phases, answers
  <1> QED
    BY <1>2, <1>3, <1>4, <1>5, <1>6, <1>7 DEF Scrape, Web!GetStep

-----------------------------------------------------------------------------
(***************************************************************************)
(* The bridge keeps what Exporter promises: whatever messages come, and    *)
(* whatever scrapes overlap, an answer that none overlaps is what whole    *)
(* messages had left in the cache at one moment between the question and   *)
(* the answer (mqtt_client.cpp:106-142, prometheus_civetweb_handler.cpp:   *)
(* 57-118).                                                                *)
(***************************************************************************)
THEOREM BridgeKeepsPromise == BridgeSpec => ImplementsExporter
PROOF
  <1>1. BridgeInit /\ Latest!Init => Promise!InitExporter
    BY DEF BridgeInit, Latest!Init, Promise!InitExporter, Promise!Init, Web!Init,
       Promise!Series, Latest!Series, Promise!Names, Latest!Names, Promise!Labels,
       Latest!Labels, Promise!LabelNames, Latest!LabelNames, PhaseOf, AnswerOf
  <1>2. /\ Scraping!Inv
        /\ [BridgeNext]_<<vars, webVars>> /\ [Latest!Next]_cache
        => [Promise!NextExporter]_Promise!promised
    <2>1. SUFFICES ASSUME Scraping!Inv, [BridgeNext]_<<vars, webVars>>,
                          [Latest!Next]_cache
                   PROVE  Promise!NextExporter \/ UNCHANGED Promise!promised
      OBVIOUS
    <2>2. CASE UNCHANGED webVars
      <3>1. /\ \A v \in Workers : PhaseOf(v)' = PhaseOf(v) /\ AnswerOf(v)' = AnswerOf(v)
            /\ UNCHANGED <<took, alone>>
        BY <2>2 DEF webVars, PhaseOf, AnswerOf
      <3>2. CASE Latest!Next
        <4>1. Promise!Next
          BY <3>2, SameDeliver DEF Latest!Next, Promise!Next
        <4> QED
          BY <3>1, <4>1 DEF Promise!NextExporter
      <3>3. CASE UNCHANGED cache
        BY <3>1, <3>3, PromiseUnchanged
      <3> QED
        BY <2>1, <3>2, <3>3
    <2>3. ASSUME NEW w \in Workers, Scrape(w)
          PROVE  Promise!NextExporter \/ UNCHANGED Promise!promised
      BY <2>1, <2>3, ScrapeKeepsPromise DEF Promise!NextExporter
    <2> QED
      BY <2>1, <2>2, <2>3 DEF BridgeNext, HandleMessage
  <1> QED
    BY <1>1, <1>2, BridgeIngests, IngestImplements, ScrapingInvariant, PTL
       DEF BridgeSpec, ImplementsLatestReadings, Latest!Spec,
           ImplementsExporter, Promise!SpecExporter

(***************************************************************************)
(* In an answer of the bridge that no other overlaps every sample has the  *)
(* headers of its metric, and no metric of one style has them twice: the   *)
(* samples of messages are filed under their own series, and the cache     *)
(* keeps those of a metric together (prometheus_civetweb_handler.cpp:      *)
(* 65-101).                                                                *)
(***************************************************************************)
THEOREM BridgeAnnounces == BridgeSpec => []Web!AnswerIsAnnounced
PROOF
  <1>1. ASSUME NEW lines, NEW c, Scraping!WellAnnounced(lines, c)
        PROVE  Web!WellAnnounced(lines, c)
    <2>1. \A i : Scraping!Announced(lines, i) => Web!Announced(lines, i)
      BY DEF Scraping!Announced, Web!Announced, Scraping!IsHeaders,
         Web!IsHeaders, Scraping!IsSample, Web!IsSample
    <2>2. Web!EachAnnounced(lines)
      BY <1>1, <2>1 DEF Scraping!WellAnnounced, Scraping!EachAnnounced,
         Web!EachAnnounced, Scraping!IsSample, Web!IsSample
    <2>3. Web!OneStyle(c) => Scraping!OneStyle(c)
      BY DEF Web!OneStyle, Scraping!OneStyle
    <2>4. Scraping!NoneTwice(lines) => Web!NoneTwice(lines)
      BY DEF Scraping!NoneTwice, Web!NoneTwice, Scraping!IsHeaders, Web!IsHeaders
    <2> QED
      BY <1>1, <2>2, <2>3, <2>4 DEF Scraping!WellAnnounced, Web!WellAnnounced
  <1>2. Scraping!AnswerIsAnnounced => Web!AnswerIsAnnounced
    BY <1>1 DEF Scraping!AnswerIsAnnounced, Web!AnswerIsAnnounced,
       Scraping!Sound, Web!Sound
  <1> QED
    BY <1>2, BridgeScrapes, Scraping!AnswersAreAnnounced, BatchesAreMessages,
       OrderKeepsTogether, PTL
=============================================================================
