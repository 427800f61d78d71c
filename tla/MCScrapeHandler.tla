--------------------------- MODULE MCScrapeHandler ---------------------------
(***************************************************************************)
(* Two workers and three metrics: temp, with two series, batt, which has   *)
(* the type and the unit of temp, and open, which has no unit.  A message  *)
(* feeds both series of temp, with one of two values, or one of each       *)
(* metric, when temp has no unit: two entries of the configuration have    *)
(* its name.  The workers are interchangeable.                             *)
(***************************************************************************)
EXTENDS ScrapeHandler, TLC

CONSTANTS w1, w2, temp1, temp2, batt, open, gauge, percent

MCSeries == {temp1, temp2, batt, open}
MCSamples == [series : MCSeries, value : 1 .. 3]
MCOrder == <<temp1, temp2, batt, open>>

Of(S, v) == [s \in S |-> [series |-> s, value |-> v]]
MCMessages == {Of({temp1, temp2}, 1), Of({temp1, temp2}, 2),
               Of({temp2, batt, open}, 3)}

MCNameOf(d) == IF d.series \in {temp1, temp2} THEN "temp" ELSE d.series
MCTypeOf(d) == gauge
MCUnitOf(d) ==
  IF d \in {[series |-> open, value |-> 3], [series |-> temp2, value |-> 3]}
  THEN NoUnit ELSE percent

WorkerSymmetry == Permutations({w1, w2})
=============================================================================
