------------------------------ MODULE Exporter ------------------------------
(***************************************************************************)
(* What the bridge promises as a whole.  A message is in the cache at      *)
(* once, with all its samples.  Someone who asks for the samples gets what *)
(* the cache held at one moment between the question and the answer.  If   *)
(* anyone else asked meanwhile nothing is promised of the answer, but      *)
(* later answers are good again.                                           *)
(*                                                                         *)
(* There are no buffers, headers, locks or recycled objects here.          *)
(***************************************************************************)
EXTENDS LatestReadings, Filter

CONSTANTS
  Askers, \* who may ask for the samples
  Order,  \* the order samples are given in: series, each of them once
  None    \* no answer yet

VARIABLES
  phase,  \* phase[w]: idle, asked, taken or answered
  taken,  \* taken[w]: the cache at w's moment
  answer, \* answer[w]: the samples w was given
  alone   \* nobody else asked between w's question and its answer

promised == <<cache, phase, taken, answer, alone>>

InitExporter ==
  /\ Init
  /\ phase = [w \in Askers |-> "idle"]
  /\ taken = [w \in Askers |-> cache]
  /\ answer = [w \in Askers |-> None]
  /\ alone = [w \in Askers |-> TRUE]

Waits(w) == phase[w] \in {"asked", "taken"}

Ask(w) ==
  /\ ~ Waits(w)
  /\ phase' = [phase EXCEPT ![w] = "asked"]
  /\ answer' = [answer EXCEPT ![w] = None]
  /\ alone' = [v \in Askers |->
                 IF v = w THEN \A u \in Askers \ {w} : ~ Waits(u)
                          ELSE alone[v] /\ ~ Waits(v)]
  /\ UNCHANGED <<cache, taken>>

Take(w) ==
  /\ phase[w] = "asked"
  /\ phase' = [phase EXCEPT ![w] = "taken"]
  /\ taken' = [taken EXCEPT ![w] = cache]
  /\ UNCHANGED <<cache, answer, alone>>

\* The samples of a cache, in their order.
SamplesOf(c) ==
  LET there == Those(Order, {s \in Series : c[s] # NoData})
  IN [i \in DOMAIN there |-> c[there[i]]]

Answer(w) ==
  /\ phase[w] = "taken"
  /\ phase' = [phase EXCEPT ![w] = "answered"]
  /\ alone[w] => answer'[w] = SamplesOf(taken[w])
  /\ \A v \in Askers \ {w} : answer'[v] = answer[v]
  /\ UNCHANGED <<cache, taken, alone>>

NextExporter ==
  \/ Next /\ UNCHANGED <<phase, taken, answer, alone>>
  \/ \E w \in Askers : Ask(w) \/ Take(w) \/ Answer(w)

SpecExporter == InitExporter /\ [][NextExporter]_promised
=============================================================================
