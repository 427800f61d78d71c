------------------------------ MODULE MCBridge ------------------------------
(***************************************************************************)
(* A bridge of two metrics for TLC.  The value handler gives both of them  *)
(* what a message says, on or off, so that a message is two samples and    *)
(* its objects are recycled by the next.  No action touches the labels, so *)
(* that each metric has one series, and MCOrder has both.  Two workers     *)
(* answer scrapes; they are interchangeable.                               *)
(***************************************************************************)
EXTENDS Bridge, TLC

CONSTANTS w1, w2, mOne, mTwo, t1, on, off, str

MCId(m) == m
MCStyle(m) == m
MCPropertyActions(m, t, p) == p
MCLabelActions(m, t, p, l) == l
MCValueActions(m, v, ty) == [value |-> v, type |-> ty]

MCTopicTrim == [w \in {t1} |-> w]
MCHandlersFor == [t \in {t1} |-> <<"V">>]
MCMetricsAt == [h \in {} |-> {}]
MCValueMetrics == [h \in {"V"} |-> <<mOne, mTwo>>]
MCMetricCount == [h \in {"V"} |-> 2]
MCPayloads == {[text |-> v, scalars |-> <<>>] : v \in {on, off}}

MCSeriesOf(m) == <<m, [n \in LabelNames |-> IF n = "topic" THEN t1 ELSE Empty]>>
MCOrder == <<MCSeriesOf(mOne), MCSeriesOf(mTwo)>>
MCTypeOf(d) == str
MCUnitOf(d) == NoUnit

WorkerSymmetry == Permutations({w1, w2})
=============================================================================
