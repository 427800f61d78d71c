---------------------------- MODULE MCMqttIngest ----------------------------
(***************************************************************************)
(* A small bridge for TLC.  The JSON handler has mTemp at pointer pa,      *)
(* mBatt at pb and nothing at pc; the value handler has mPlug.  Topic tj   *)
(* has the JSON handler twice, as two filters that overlap give it, and tb *)
(* has both handlers; nothing handles tn.  The location of mTemp comes     *)
(* from a pattern that matches tb only, mBatt and mPlug have one name and  *)
(* drop their topic labels, so that they feed one series, and the value    *)
(* action of mPlug is a switch with a default.                             *)
(***************************************************************************)
EXTENDS MqttIngest

CONSTANTS mTemp, mBatt, mPlug, tj, tb, tn, loc, on, off, str, raw

MCMetrics == {mTemp, mBatt, mPlug}
MCTopics == {tj, tb, tn}
MCId(m) == IF m = mPlug THEN mBatt ELSE m
MCStyle(m) == m

MCPropertyActions(m, t, p) ==
  IF m = mTemp /\ t = tb THEN [p EXCEPT !["location"] = loc] ELSE p

MCLabelActions(m, t, p, l) ==
  IF m # mTemp THEN [l EXCEPT !["topic"] = Empty] ELSE l

MCValueActions(m, v, ty) ==
  [value |-> IF m = mPlug /\ v # on THEN off ELSE v, type |-> ty]

MCTopicTrim == [w \in MCTopics |-> w]
MCHandlersFor ==
  [t \in MCTopics |-> IF t = tj THEN <<"J", "J">>
                      ELSE IF t = tb THEN <<"V", "J">> ELSE <<>>]
MCMetricsAt ==
  [h \in {"J"} |-> [p \in {"pa", "pb", "pc"} |->
     IF p = "pa" THEN <<mTemp>> ELSE IF p = "pb" THEN <<mBatt>> ELSE <<>>]]
MCValueMetrics == [h \in {"V"} |-> <<mPlug>>]
MCMetricCount == [h \in {"J", "V"} |-> IF h = "J" THEN 2 ELSE 1]

At(p, v) == [at |-> p, value |-> v, type |-> str]

\* A whole document, one that breaks before any scalar, and one with an
\* unknown property that then says a pointer twice.
MCPayloads ==
  {[text |-> raw, scalars |-> <<At("pa", on), At("pb", off)>>],
   [text |-> off, scalars |-> <<>>],
   [text |-> on,  scalars |-> <<At("pc", on), At("pb", on), At("pb", off)>>]}
=============================================================================
