---------------------------- MODULE ScrapeHandler ----------------------------
(***************************************************************************)
(* PrometheusWebHandler::DoGet, on the worker threads of the web server,   *)
(* while the MQTT thread adds messages to the metric cache.                *)
(*                                                                         *)
(* There is one handler object, and it formats every answer in the same    *)
(* two buffers, m_body and m_header, which nothing guards; the cache has a *)
(* lock.  A body is a sequence of lines: the headers of a metric, or a     *)
(* sample.  A sample says of which metric it is.                           *)
(***************************************************************************)
EXTENDS Naturals, Sequences, Filter

CONSTANTS
  Workers,    \* threads of the web server
  Series,     \* series the cache may have a sample of
  Order,      \* the order Visit has them in, each of them once
  Samples,    \* samples the cache may hold
  NoSample,   \* there is none of that series
  NameOf(_),  \* the metric of a sample,
  TypeOf(_),  \* its type
  UnitOf(_),  \* and its unit
  NoUnit,     \* MetricUnit::None
  NoType,     \* MetricType::None
  Messages,   \* what messages bring: samples of some of the series
  None

VARIABLES
  cache,    \* MetricDataCache: the last sample of each series
  visiting, \* the worker that has the lock of the cache
  at,       \* at[w]: where DoGet is on worker w
  left,     \* left[w]: series Visit has still to give w
  last,     \* last[w]: last_id, last_type and last_unit
  body,     \* m_body
  header,   \* m_header: the Content-Length in it
  reply,    \* reply[w]: what w has written to its connection
  took,     \* history: the cache when w's DoGet began to visit it
  alone     \* history: no other DoGet ran during w's

buffers == <<body, header>>
getVars == <<visiting, at, left, last, buffers, reply, took, alone>>
vars == <<cache, getVars>>

Points == {"idle", "clear", "lock", "visit", "format", "writeHeader",
           "writeBody", "done"}

(***************************************************************************)
(* Lines.  Torn stands for whatever a data race leaves.                    *)
(***************************************************************************)
Headers(d, withUnit) ==
  [kind |-> "headers", name |-> NameOf(d), type |-> TypeOf(d),
   unit |-> IF withUnit THEN UnitOf(d) ELSE NoUnit]

SampleLine(d) == [kind |-> "sample", data |-> d]

Torn == [kind |-> "torn"]

SampleLines == [kind : {"sample"}, data : Samples]

Formatted == {Headers(d, u) : d \in Samples, u \in BOOLEAN} \cup SampleLines

Lines == Formatted \cup {Torn}

NoLast == [name |-> None, type |-> NoType, unit |-> NoUnit]

Styles ==
  [name : {NameOf(d) : d \in Samples} \cup {None},
   type : {TypeOf(d) : d \in Samples} \cup {NoType},
   unit : {UnitOf(d) : d \in Samples} \cup {NoUnit}]

NoReply == [length |-> 0, body |-> <<>>]

Contents == [Series -> Samples \cup {NoSample}]

(***************************************************************************)
(* What the constants have to be.                                          *)
(***************************************************************************)
ASSUME ScrapeAssumption ==
  /\ None \notin Workers
  /\ \A d \in Samples : NameOf(d) # None
  /\ Order \in Seq(Series)
  /\ NoSample \notin Samples
  /\ \A new \in Messages :
       DOMAIN new \subseteq Series /\ \A s \in DOMAIN new : new[s] \in Samples

TypeOK ==
  /\ cache \in Contents
  /\ visiting \in Workers \cup {None}
  /\ at \in [Workers -> Points]
  /\ left \in [Workers -> Seq(Series)]
  /\ last \in [Workers -> Styles]
  /\ body \in Seq(Lines)
  /\ header \in Nat
  /\ reply \in [Workers -> [length : Nat, body : Seq(Lines)]]
  /\ took \in [Workers -> Contents]
  /\ alone \in [Workers -> BOOLEAN]

Init ==
  /\ cache = [s \in Series |-> NoSample]
  /\ visiting = None
  /\ at = [w \in Workers |-> "idle"]
  /\ left = [w \in Workers |-> <<>>]
  /\ last = [w \in Workers |-> NoLast]
  /\ body = <<>>
  /\ header = 0
  /\ reply = [w \in Workers |-> NoReply]
  /\ took = [w \in Workers |-> cache]
  /\ alone = [w \in Workers |-> TRUE]

-----------------------------------------------------------------------------
(***************************************************************************)
(* MetricDataCache::Add of a message, under the lock of the cache: the     *)
(* series it has samples of get them.                                      *)
(***************************************************************************)
CacheFree == visiting = None

AddMessage(new) ==
  /\ CacheFree
  /\ cache' = [s \in Series |-> IF s \in DOMAIN new THEN new[s] ELSE cache[s]]
  /\ UNCHANGED getVars

-----------------------------------------------------------------------------
Busy(w) == at[w] \notin {"idle", "done"}
OthersBusy(w) == \E v \in Workers \ {w} : Busy(v)

Go(w, from, to) == at[w] = from /\ at' = [at EXCEPT ![w] = to]

(***************************************************************************)
(* Lines are appended to the body.  While another DoGet runs that is a     *)
(* data race, and what the buffer holds then is anyone's guess, until it   *)
(* is cleared.                                                             *)
(***************************************************************************)
AppendBody(w, before, lines) ==
  LET text == IF before = <<Torn>> THEN before ELSE before \o lines
  IN body' \in IF OthersBusy(w) THEN {text, <<Torn>>} ELSE {text}

\* A GET comes in and DoGet is called, with its local variables.
StartGet(w) ==
  /\ at[w] \in {"idle", "done"}
  /\ at' = [at EXCEPT ![w] = "clear"]
  /\ last' = [last EXCEPT ![w] = NoLast]
  /\ reply' = [reply EXCEPT ![w] = NoReply]
  /\ alone' = [v \in Workers |->
                 IF v = w THEN ~ OthersBusy(w)
                 ELSE alone[v] /\ ~ Busy(v)]
  /\ UNCHANGED <<cache, visiting, buffers, left, took>>

\* A mutant: the body of the last answer is kept.
ClearedNot == body

Cleared == <<>>

ClearBody(w) ==
  /\ Go(w, "clear", "lock")
  /\ AppendBody(w, Cleared, <<>>)
  /\ UNCHANGED <<cache, visiting, header, left, last, reply, took, alone>>

\* The series of the cache, in the order Visit has them in.
There(c) == Those(Order, {s \in Series : c[s] # NoSample})

\* Visit takes the lock and goes through the samples there are.
LockCache(w) ==
  /\ Go(w, "lock", "visit")
  /\ CacheFree
  /\ visiting' = w
  /\ left' = [left EXCEPT ![w] = There(cache)]
  /\ took' = [took EXCEPT ![w] = cache]
  /\ UNCHANGED <<cache, buffers, last, reply, alone>>

(***************************************************************************)
(* do_serialize_metrics: a sample gets headers when it is not of the last  *)
(* name, type and unit, and a unit line among them when the unit is new.   *)
(* The help text is empty in every MetricData the bridge makes.            *)
(***************************************************************************)
\* A mutant: only a new type or unit asks for headers.
NewHeadersByStyle(l, d) == l.type # TypeOf(d) \/ l.unit # UnitOf(d)

NewHeaders(l, d) ==
  l.name # NameOf(d) \/ l.type # TypeOf(d) \/ l.unit # UnitOf(d)

Serialized(l, d) ==
  (IF NewHeaders(l, d) THEN <<Headers(d, l.unit # UnitOf(d))>> ELSE <<>>)
    \o <<SampleLine(d)>>

VisitSample(w) ==
  LET d == cache[Head(left[w])]
  IN /\ at[w] = "visit"
     /\ left[w] # <<>>
     /\ left' = [left EXCEPT ![w] = Tail(@)]
     /\ AppendBody(w, body, Serialized(last[w], d))
     /\ last' = [last EXCEPT ![w] =
                   [name |-> NameOf(d), type |-> TypeOf(d), unit |-> UnitOf(d)]]
     /\ UNCHANGED <<cache, visiting, header, at, reply, took, alone>>

UnlockCache(w) ==
  /\ Go(w, "visit", "format")
  /\ left[w] = <<>>
  /\ visiting' = None
  /\ UNCHANGED <<cache, buffers, left, last, reply, took, alone>>

\* A mutant: an end that the body does not have is left out.
ContentLengthLess == Len(body) - 1

ContentLength == Len(body)

\* m_header is cleared and formatted with the size of the body.
FormatHeader(w) ==
  /\ Go(w, "format", "writeHeader")
  /\ header' \in IF OthersBusy(w) THEN {ContentLength, 0} ELSE {ContentLength}
  /\ UNCHANGED <<cache, visiting, body, left, last, reply, took, alone>>

\* mg_write of the one and then of the other.
WriteHeader(w) ==
  /\ Go(w, "writeHeader", "writeBody")
  /\ reply' = [reply EXCEPT ![w].length = header]
  /\ UNCHANGED <<cache, visiting, buffers, left, last, took, alone>>

WriteBody(w) ==
  /\ Go(w, "writeBody", "done")
  /\ reply' = [reply EXCEPT ![w].body = body]
  /\ UNCHANGED <<cache, visiting, buffers, left, last, took, alone>>

GetStep(w) ==
  \/ StartGet(w) \/ ClearBody(w) \/ LockCache(w) \/ VisitSample(w)
  \/ UnlockCache(w) \/ FormatHeader(w) \/ WriteHeader(w) \/ WriteBody(w)

Next ==
  \/ \E new \in Messages : AddMessage(new)
  \/ \E w \in Workers : GetStep(w)

Spec == Init /\ [][Next]_vars

-----------------------------------------------------------------------------
\* An answer during which no other was made.
Sound(w) == at[w] = "done" /\ alone[w]

IsSample(line) == line.kind = "sample"
IsHeaders(line) == line.kind = "headers"

\* The lines of the samples a cache holds of some series, and of all.
LinesOf(series, c) == [i \in DOMAIN series |-> SampleLine(c[series[i]])]

SnapshotOf(c) == LinesOf(There(c), c)

(***************************************************************************)
(* An answer is the cache as it was when the scrape began to visit it,     *)
(* with all the samples of every message before that moment and none of a  *)
(* later one, whatever messages came while it was formatted and sent, and  *)
(* its Content-Length is the length of its body                            *)
(* (prometheus_civetweb_handler.cpp:103-115).                              *)
(***************************************************************************)
AnswerIsSnapshot ==
  \A w \in Workers : Sound(w) =>
    /\ reply[w].length = Len(reply[w].body)
    /\ Those(reply[w].body, SampleLines) = SnapshotOf(took[w])

(***************************************************************************)
(* A sample is announced by the last headers before it: they are of its    *)
(* metric, and have its unit unless the sample before them has that unit.  *)
(***************************************************************************)
Announced(lines, i) ==
  \E j \in 1 .. i - 1 :
    /\ IsHeaders(lines[j]) /\ lines[j].name = NameOf(lines[i].data)
    /\ lines[j].type = TypeOf(lines[i].data)
    /\ \A k \in j + 1 .. i - 1 : IsSample(lines[k])
    /\ \/ lines[j].unit = UnitOf(lines[i].data)
       \/ /\ j > 1 /\ IsSample(lines[j - 1])
          /\ UnitOf(lines[j - 1].data) = UnitOf(lines[i].data)

EachAnnounced(lines) ==
  \A i \in DOMAIN lines : IsSample(lines[i]) => Announced(lines, i)

NoneTwice(lines) ==
  \A i, j \in DOMAIN lines :
    IsHeaders(lines[i]) /\ IsHeaders(lines[j])
      /\ lines[i].name = lines[j].name => i = j

\* The samples of one name have one type and one unit.
OneStyle(c) ==
  \A s, t \in {x \in Series : c[x] # NoSample} :
    NameOf(c[s]) = NameOf(c[t]) =>
      TypeOf(c[s]) = TypeOf(c[t]) /\ UnitOf(c[s]) = UnitOf(c[t])

WellAnnounced(lines, c) ==
  EachAnnounced(lines) /\ (OneStyle(c) => NoneTwice(lines))

(***************************************************************************)
(* In an answer every sample has the headers of its own metric last before *)
(* it, and, as Visit keeps the series of a metric together, no metric is   *)
(* announced twice, unless samples of it differ in type or unit, as they   *)
(* may when two entries of the configuration have one name.  The unit line *)
(* is missing only where the metric before has that unit                   *)
(* (prometheus_civetweb_handler.cpp:65-101).                               *)
(***************************************************************************)
AnswerIsAnnounced ==
  \A w \in Workers : Sound(w) => WellAnnounced(reply[w].body, took[w])

(***************************************************************************)
(* What that takes of the order of Visit: whatever messages may bring, the *)
(* series of a metric are together in it.                                  *)
(***************************************************************************)
Brought(s) == {new[s] : new \in {n \in Messages : s \in DOMAIN n}}

ASSUME AnnounceAssumption ==
  \A i, j, k \in DOMAIN Order : i < j /\ j < k =>
    \A d \in Brought(Order[i]), x \in Brought(Order[j]), e \in Brought(Order[k]) :
      NameOf(d) = NameOf(e) => NameOf(x) = NameOf(d)
=============================================================================
