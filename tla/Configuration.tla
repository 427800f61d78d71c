---------------------------- MODULE Configuration ----------------------------
(***************************************************************************)
(* From the configuration file to what the client runs with.  The metrics  *)
(* are made first, each filed under the handler that feeds it; then each   *)
(* handler takes its metrics out of that file, and a handler that took     *)
(* none is not made; then each topic gets the handlers that were made.     *)
(*                                                                         *)
(* It runs once, on one thread.  What is hard is what the file may say:    *)
(* names may be missing, unknown or said twice, anywhere.                  *)
(***************************************************************************)
EXTENDS Filter, FiniteSetsExt, SequencesExt

CONSTANTS
  HandlerIds,   \* ids a handler entry or a reference to one may have, Empty too
  Properties,   \* property names, as they are written
  Trim(_),      \* such a name, or Empty, without blanks around it
  Pointers,     \* JSON pointers, after json_pointer_trim
  Addable,      \* those the builder of JSON pointers takes
  Filters,      \* topic filters: numbers, in the order of their texts
  ValidFilters, \* those topic_validate accepts
  Topics,       \* topics of messages
  Matches(_, _), \* filter f matches topic t
  Configs,      \* the files that are read
  Whole,        \* in place of a pointer: the whole payload
  Empty,        \* the empty string, and the value of a key without one
  NotMade       \* no handler of that id

(***************************************************************************)
(* A file.  A metric entry names handlers, each with a property; a handler *)
(* entry has an id, a type and, for JSON, properties at pointers; a topic  *)
(* entry has ids of handlers and filters.  An id may be empty everywhere.  *)
(***************************************************************************)
MetricEntry ==
  [handlers : Seq([id : HandlerIds, property : Properties \cup {Empty}])]

HandlerEntry ==
  [id : HandlerIds, type : {"json", "text", "value"},
   properties : Seq([property : Properties \cup {Empty},
                     pointer  : Pointers \cup {Empty}])]

TopicEntry == [handlers : Seq(HandlerIds), filters : Seq(Filters)]

Config ==
  [host : BOOLEAN, metrics : Seq(MetricEntry),
   handlers : Seq(HandlerEntry), topics : Seq(TopicEntry)]

ASSUME ConfigAssumption ==
  /\ Configs \subseteq Config
  /\ Filters \subseteq Nat \ {0} /\ IsFiniteSet(Filters) /\ Filters # {}
  /\ ValidFilters \subseteq Filters
  /\ Addable \subseteq Pointers
  /\ \A name \in Properties \cup {Empty} : Trim(name) \in Properties \cup {Empty}

VARIABLES
  cfg,           \* the file
  stage,         \* what is being configured: metrics, handlers, topics, done
  entry,         \* the entry of that list that is next
  nextProperty,  \* the property of a JSON handler that is next
  metrics,       \* metrics[id]: Metric objects filed under id and not taken
  bound,         \* where the handler being made has its metrics
  seen,          \* the properties it has had
  count,         \* its metrics_count
  store,         \* store[id]: the handler that was made, MqttHandlerStore
  topics,        \* topics[f]: the lists of handlers added for filter f
  subscriptions  \* filters to subscribe to

building == <<nextProperty, bound, seen, count>>
vars == <<cfg, stage, entry, metrics, building, store, topics, subscriptions>>

Places == Pointers \cup {Whole}

\* A Metric object: the entry that made it, its handler and its property.
Metric == [entry : Nat, handler : HandlerIds, property : Properties]

NothingBound == [p \in Places |-> <<>>]

Handler == [at : [Places -> Seq(Metric)], count : Nat]

ASSUME NotMadeAssumption == NotMade \notin Handler

TypeOK ==
  /\ cfg \in Configs
  /\ stage \in {"metrics", "handlers", "topics", "done"}
  /\ entry \in Nat \ {0}
  /\ nextProperty \in Nat \ {0}
  /\ metrics \in [HandlerIds -> Seq(Metric)]
  /\ bound \in [Places -> Seq(Metric)]
  /\ seen \subseteq Properties
  /\ count \in Nat
  /\ store \in [HandlerIds -> Handler \cup {NotMade}]
  /\ topics \in [Filters -> Seq(Seq(HandlerIds))]
  /\ subscriptions \in Seq(Filters)

Init ==
  /\ cfg \in Configs
  /\ stage = "metrics"
  /\ entry = 1
  /\ nextProperty = 1
  /\ metrics = [id \in HandlerIds |-> <<>>]
  /\ bound = NothingBound
  /\ seen = {}
  /\ count = 0
  /\ store = [id \in HandlerIds |-> NotMade]
  /\ topics = [f \in Filters |-> <<>>]
  /\ subscriptions = <<>>

-----------------------------------------------------------------------------
(***************************************************************************)
(* configure_prometheus_metrics, one metric entry: the first of its        *)
(* handlers with some id makes a Metric, if it has a property.  A later    *)
(* one with that id is ignored, even if the first had none.  The property  *)
(* is kept as it is written.                                               *)
(***************************************************************************)
FirstWith(handlers, id, k) ==
  /\ handlers[k].id = id
  /\ \A j \in 1 .. k - 1 : handlers[j].id # id

\* A mutant: a metric without a property is made.
MetricsMadeUnnamed(m, id) ==
  LET handlers == cfg.metrics[m].handlers
      makers == {k \in DOMAIN handlers : FirstWith(handlers, id, k)}
  IN {[entry |-> m, handler |-> id, property |-> handlers[k].property] :
        k \in makers}

MetricsMade(m, id) ==
  LET handlers == cfg.metrics[m].handlers
      makers == {k \in DOMAIN handlers : /\ FirstWith(handlers, id, k)
                                         /\ handlers[k].property # Empty}
  IN {[entry |-> m, handler |-> id, property |-> handlers[k].property] :
        k \in makers}

ConfigureMetric ==
  /\ stage = "metrics"
  /\ entry <= Len(cfg.metrics)
  /\ metrics' = [id \in HandlerIds |->
                   metrics[id] \o SetToSeq(MetricsMade(entry, id))]
  /\ entry' = entry + 1
  /\ UNCHANGED <<cfg, stage, building, store, topics, subscriptions>>

\* configure_mqtt: without a host nothing else is configured.
EndMetrics ==
  /\ stage = "metrics"
  /\ entry > Len(cfg.metrics)
  /\ stage' = IF cfg.host THEN "handlers" ELSE "done"
  /\ entry' = 1
  /\ UNCHANGED <<cfg, metrics, building, store, topics, subscriptions>>

-----------------------------------------------------------------------------
AtHandler(type) ==
  /\ stage = "handlers"
  /\ entry <= Len(cfg.handlers)
  /\ cfg.handlers[entry].type = type

Entry == cfg.handlers[entry]
Filed(id) == metrics[id]

(***************************************************************************)
(* configure_json_handler, one property: what is filed under the handler   *)
(* and has this property is moved to the property's pointer.  A property   *)
(* without a name or a pointer, or that was there before, is passed over;  *)
(* one whose pointer the builder refuses has been there all the same.  Its *)
(* name is trimmed, and compared with names that are not.                  *)
(***************************************************************************)
Name(p) == Trim(p.property)

IsSaid(p) == Name(p) # Empty /\ p.pointer # Empty

Passed(p) == ~ IsSaid(p) \/ Name(p) \in seen

WithProperty(filed, name) == {m \in ToSet(filed) : m.property = name}

\* A mutant: the metrics are copied, and stay filed.
LeftFiledCopied(filed, name) == filed

\* A mutant: what has another property is lost as well.
LeftFiledNone(filed, name) == <<>>

LeftFiled(filed, name) ==
  Those(filed, ToSet(filed) \ WithProperty(filed, name))

MoveTo(pointer, name) ==
  LET filed == Filed(Entry.id)
      taken == Those(filed, WithProperty(filed, name))
  IN /\ metrics' = [id \in HandlerIds |->
                      IF id = Entry.id THEN LeftFiled(filed, name) ELSE metrics[id]]
     /\ bound' = [bound EXCEPT ![pointer] = @ \o taken]
     /\ count' = count + Len(taken)

AddProperty ==
  LET p == Entry.properties[nextProperty]
  IN /\ AtHandler("json")
     /\ nextProperty <= Len(Entry.properties)
     /\ nextProperty' = nextProperty + 1
     /\ \/ Passed(p) /\ UNCHANGED <<metrics, bound, seen, count>>
        \/ /\ ~ Passed(p)
           /\ seen' = seen \cup {Name(p)}
           /\ \/ p.pointer \notin Addable /\ UNCHANGED <<metrics, bound, count>>
              \/ p.pointer \in Addable /\ MoveTo(p.pointer, Name(p))
     /\ UNCHANGED <<cfg, stage, entry, store, topics, subscriptions>>

(***************************************************************************)
(* A handler that took a metric is stored, unless its id is empty or one   *)
(* of that id is stored: then what it took is gone with it.                *)
(***************************************************************************)
\* A mutant: a handler that took nothing is stored too.
StoreAll(id, at, n) ==
  store' = [i \in HandlerIds |->
              IF i = id /\ i # Empty /\ store[i] = NotMade
              THEN [at |-> at, count |-> n] ELSE store[i]]

Store(id, at, n) ==
  store' = [i \in HandlerIds |->
              IF i = id /\ i # Empty /\ store[i] = NotMade /\ n > 0
              THEN [at |-> at, count |-> n] ELSE store[i]]

NextHandler ==
  /\ entry' = entry + 1
  /\ nextProperty' = 1
  /\ bound' = NothingBound
  /\ seen' = {}
  /\ count' = 0
  /\ UNCHANGED <<cfg, stage, topics, subscriptions>>

JsonHandler ==
  /\ AtHandler("json")
  /\ nextProperty > Len(Entry.properties)
  /\ Store(Entry.id, bound, count)
  /\ NextHandler
  /\ UNCHANGED metrics

\* configure_value_handler takes all there is under its id.
ValueHandler ==
  LET filed == Filed(Entry.id)
  IN /\ AtHandler("value")
     /\ Store(Entry.id, [NothingBound EXCEPT ![Whole] = filed], Len(filed))
     /\ metrics' = [id \in HandlerIds |->
                      IF id = Entry.id THEN <<>> ELSE metrics[id]]
     /\ NextHandler

\* configure_text_handler makes nothing.
TextHandler ==
  /\ AtHandler("text")
  /\ NextHandler
  /\ UNCHANGED <<metrics, store>>

EndHandlers ==
  /\ stage = "handlers"
  /\ entry > Len(cfg.handlers)
  /\ stage' = "topics"
  /\ entry' = 1
  /\ UNCHANGED <<cfg, metrics, building, store, topics, subscriptions>>

-----------------------------------------------------------------------------
(***************************************************************************)
(* configure_mqtt_topics, one topic entry.  Its handlers are those of its  *)
(* ids that were made; if there are any, each of its valid filters gets    *)
(* them, once, and is put in its place among the subscriptions.            *)
(***************************************************************************)
MadeHandlers == {id \in HandlerIds : store[id] # NotMade}

Made(ids) == Those(ids, MadeHandlers)

Below(S, x) == {y \in S : y < x}

\* The numbers of a set, in their order.
Ascending(S) ==
  [i \in 1 .. Cardinality(S) |->
     CHOOSE x \in S : Cardinality(Below(S, x)) = i - 1]

\* A mutant: a filter is subscribed to once for every entry it is in.
SubscribeEach(fs) == subscriptions \o Ascending(fs)

Subscribe(fs) == Ascending(ToSet(subscriptions) \cup fs)

Handled(handlers) == handlers # <<>>

ConfigureTopic ==
  LET topic    == cfg.topics[entry]
      handlers == Made(topic.handlers)
      filters  == ToSet(topic.filters) \cap ValidFilters
  IN /\ stage = "topics"
     /\ entry <= Len(cfg.topics)
     /\ entry' = entry + 1
     /\ \/ ~ Handled(handlers) /\ UNCHANGED <<topics, subscriptions>>
        \/ /\ Handled(handlers)
           /\ topics' = [f \in Filters |-> IF f \in filters
                                           THEN Append(topics[f], handlers)
                                           ELSE topics[f]]
           /\ subscriptions' = Subscribe(filters)
     /\ UNCHANGED <<cfg, stage, metrics, building, store>>

EndTopics ==
  /\ stage = "topics"
  /\ entry > Len(cfg.topics)
  /\ stage' = "done"
  /\ UNCHANGED <<cfg, entry, metrics, building, store, topics, subscriptions>>

Next ==
  \/ ConfigureMetric \/ EndMetrics
  \/ AddProperty \/ JsonHandler \/ ValueHandler \/ TextHandler \/ EndHandlers
  \/ ConfigureTopic \/ EndTopics

Spec == Init /\ [][Next]_vars

-----------------------------------------------------------------------------
(***************************************************************************)
(* What on_message gets from m_topics.find: all that was added for filters *)
(* that match, so a handler more than once when they overlap.              *)
(***************************************************************************)
Find(t) ==
  FlattenSeq(FlattenSeq(
    [f \in 1 .. Max(Filters) |->
       IF f \in Filters /\ Matches(f, t) THEN topics[f] ELSE <<>>]))

\* Where metric m is in the sequences f[x].
PositionsIn(f, m) ==
  UNION {{x} \X {k \in DOMAIN f[x] : f[x][k] = m} : x \in DOMAIN f}

\* ... among those filed, at the handler being made, at one that was made.
Held(m) ==
  ({"filed"} \X PositionsIn(metrics, m))
    \cup ({"bound"} \X PositionsIn(bound, m))
    \cup ({"made"} \X UNION {{id} \X PositionsIn(store[id].at, m) : id \in MadeHandlers})

AllMade ==
  UNION {MetricsMade(m, id) : m \in DOMAIN cfg.metrics, id \in HandlerIds}

(***************************************************************************)
(* A Metric object has one place: no two handlers, and no two pointers of  *)
(* a handler, feed the same object, whose buffers Event overwrites         *)
(* (configure_mqtt_handlers.cpp:91-103 and 180-191).                       *)
(***************************************************************************)
MetricHasOnePlace == \A m \in AllMade : Cardinality(Held(m)) <= 1

(***************************************************************************)
(* The metric count of a handler is the number of samples one reading of   *)
(* each of its pointers makes, and is not zero: on_message reserves by it  *)
(* (mqtt_client.cpp:132-133, configure_mqtt_handlers.cpp:143-155).         *)
(***************************************************************************)
BoundAt(at) == UNION {{p} \X DOMAIN at[p] : p \in Places}

CountIsBound ==
  \A id \in MadeHandlers :
    /\ store[id].count = Cardinality(BoundAt(store[id].at))
    /\ store[id].count > 0

(***************************************************************************)
(* A metric is bound where its handler asks for it and nowhere else.  What *)
(* a JSON handler asks for at a pointer is the metrics whose property is   *)
(* said there for the first time.  They leave the file one property at a   *)
(* time, and none may go to another's pointer, whatever was taken before.  *)
(* When all is configured, each is where it was asked for, unless its      *)
(* handler's id is empty or said twice                                     *)
(* (configure_prometheus_metrics.cpp:64-156, configure_mqtt_handlers.cpp). *)
(***************************************************************************)
IsFirst(e, k) ==
  /\ IsSaid(e.properties[k])
  /\ \A j \in 1 .. k - 1 :
       IsSaid(e.properties[j]) => Name(e.properties[j]) # Name(e.properties[k])

AsksIn(e, k, m, p) ==
  /\ IsFirst(e, k)
  /\ Name(e.properties[k]) = m.property
  /\ p = e.properties[k].pointer
  /\ p \in Addable

AsksAt(e, m, p) ==
  /\ e.id = m.handler
  /\ \/ e.type = "value" /\ p = Whole
     \/ e.type = "json" /\ \E k \in DOMAIN e.properties : AsksIn(e, k, m, p)

IsAskedAt(m, p) == \E i \in DOMAIN cfg.handlers : AsksAt(cfg.handlers[i], m, p)

BoundTo(m, p) == store[m.handler] # NotMade /\ m \in ToSet(store[m.handler].at[p])

HasOneEntry(id) ==
  /\ id # Empty
  /\ \A i, j \in DOMAIN cfg.handlers :
       cfg.handlers[i].id = id /\ cfg.handlers[j].id = id => i = j

AskedIsBound ==
  \A m \in AllMade, p \in Places :
    /\ BoundTo(m, p) => IsAskedAt(m, p)
    /\ stage = "done" /\ cfg.host /\ HasOneEntry(m.handler) /\ IsAskedAt(m, p)
         => BoundTo(m, p)

(***************************************************************************)
(* The client is sent what it can handle and no more: the filters it       *)
(* subscribes to are in order, none twice, and match the topics for which  *)
(* find gives handlers, all of which were made; and a handler that was     *)
(* made is found for every topic that a valid filter of one of its entries *)
(* matches (configure_mqtt_topics.cpp:63-112, mqtt_client.cpp:111-112).    *)
(***************************************************************************)
AsksForTopic(e, id, t) ==
  /\ id \in ToSet(e.handlers)
  /\ \E f \in ToSet(e.filters) \cap ValidFilters : Matches(f, t)

SubscribedIsHandled ==
  /\ \A i, j \in DOMAIN subscriptions :
       i < j => subscriptions[i] < subscriptions[j]
  /\ \A t \in Topics :
       LET found == ToSet(Find(t))
       IN /\ found \subseteq MadeHandlers
          /\ found # {} <=> \E f \in ToSet(subscriptions) : Matches(f, t)
          /\ stage = "done" /\ cfg.host =>
               found = {id \in MadeHandlers :
                          \E e \in ToSet(cfg.topics) : AsksForTopic(e, id, t)}
=============================================================================
