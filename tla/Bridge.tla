------------------------------- MODULE Bridge -------------------------------
(***************************************************************************)
(* The running bridge: the thread of the network loop, which handles       *)
(* messages (MqttIngest), and the threads of the web server, which answer  *)
(* scrapes (ScrapeHandler), share the metric cache and its lock.           *)
(***************************************************************************)
EXTENDS MqttIngest, Filter

CONSTANTS
  Workers, Order, TypeOf(_), UnitOf(_), NoType, NoUnit, None

VARIABLES visiting, at, left, last, body, header, reply, took, alone

webVars == <<visiting, at, left, last, body, header, reply, took, alone>>

NameOf(d) == d.id

(***************************************************************************)
(* What the constants have to be.  The cache keeps the series of a metric  *)
(* together, in whatever order it has the metrics.                         *)
(***************************************************************************)
ASSUME BridgeAssumption ==
  /\ None \notin Workers \cup Names \cup {Empty}
  /\ NoData \notin MetricData
  /\ Order \in Seq(Series)
  /\ \A i, j, k \in DOMAIN Order :
       i < j /\ j < k /\ Order[i][1] = Order[k][1] => Order[j][1] = Order[i][1]

\* What a message may bring is said by MqttIngest here.
Web == INSTANCE ScrapeHandler
         WITH Samples <- MetricData, NoSample <- NoData, Messages <- {}

BridgeInit == Init /\ Web!Init

(***************************************************************************)
(* Only the end of on_message uses the cache, and waits for its lock while *)
(* a worker visits it.                                                     *)
(***************************************************************************)
\* A mutant: the cache is used without its lock.
AddSharedUnlocked == AddToCache

AddShared == AddToCache /\ Web!CacheFree

HandleMessage ==
  /\ \/ \E w \in WireTopics, p \in Payloads, t \in Times : OnMessage(w, p, t)
     \/ HandlerEvent \/ JsonScalar \/ MetricEvent
     \/ AddShared
  /\ UNCHANGED webVars

Scrape(w) == Web!GetStep(w) /\ UNCHANGED vars

BridgeNext == HandleMessage \/ \E w \in Workers : Scrape(w)

BridgeSpec == BridgeInit /\ [][BridgeNext]_<<vars, webVars>>

-----------------------------------------------------------------------------
\* Where a scrape is, and what its answer says, to who asked.
PhaseOf(w) ==
  CASE at[w] = "idle" -> "idle"
    [] at[w] \in {"clear", "lock"} -> "asked"
    [] at[w] = "done" -> "answered"
    [] OTHER -> "taken"

AnswerOf(w) ==
  LET samples == Those(reply[w].body, Web!SampleLines)
  IN IF at[w] = "done" THEN [i \in DOMAIN samples |-> samples[i].data]
                       ELSE None

Promise == INSTANCE Exporter
             WITH cache  <- cache,
                  Askers <- Workers,
                  phase  <- [w \in Workers |-> PhaseOf(w)],
                  taken  <- took,
                  answer <- [w \in Workers |-> AnswerOf(w)],
                  alone  <- alone

(***************************************************************************)
(* The bridge keeps its promise: whatever messages come while a scrape is  *)
(* answered, and whatever earlier and overlapping scrapes left in the      *)
(* buffers, an answer that none overlaps is made of whole messages, all of *)
(* those before one moment of the scrape, and every sample in it is the    *)
(* last its series was sent, with nothing of any other message or metric   *)
(* (mqtt_client.cpp:106-142, prometheus_civetweb_handler.cpp:57-118).      *)
(***************************************************************************)
ImplementsExporter == Promise!SpecExporter
=============================================================================
