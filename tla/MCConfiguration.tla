--------------------------- MODULE MCConfiguration ---------------------------
(***************************************************************************)
(* Files for TLC.  Two metric entries that name handlers h and g and the   *)
(* empty id, once, twice, without a property or with blanks around it;     *)
(* handler entries that make h and g in either order, twice, of each type, *)
(* with properties repeated, unnamed, unused, blank and at a pointer that  *)
(* is refused; topic entries that share a filter, name a handler twice or  *)
(* one that is not made, or have a filter that is not valid.  Filters 1    *)
(* and 2 overlap.                                                          *)
(***************************************************************************)
EXTENDS Configuration

Feeds(id, property) == [id |-> id, property |-> property]
At(property, pointer) == [property |-> property, pointer |-> pointer]
Json(id, ps) == [id |-> id, type |-> "json", properties |-> ps]
Value(id) == [id |-> id, type |-> "value", properties |-> <<>>]
Text(id) == [id |-> id, type |-> "text", properties |-> <<>>]
Topic(hs, fs) == [handlers |-> hs, filters |-> fs]

MCMetricEntries ==
  {[handlers |-> hs] : hs \in
    {<<Feeds("h", "a")>>,
     <<Feeds("h", "b"), Feeds("g", "a")>>,
     <<Feeds("g", Empty), Feeds("g", "a"), Feeds("h", "a")>>,
     <<Feeds("h", "b"), Feeds("h", "a")>>,
     <<Feeds(Empty, "a"), Feeds("h", " a")>>}}

MCHandlerEntries ==
  {<<Json("h", <<At("a", "pa"), At("b", "pb")>>), Value("g")>>,
   <<Value("g"), Json("h", <<At("b", "pa"), At("a", "pa"), At("b", "pb")>>)>>,
   <<Json("h", <<At("a", Empty), At(Empty, "pa"), At("a", "pb")>>), Text("g")>>,
   <<Json("h", <<At("a", "pa")>>), Value("h"), Json("g", <<>>)>>,
   <<Json("h", <<At("c", "pa")>>), Json(Empty, <<At("a", "pa")>>), Value("g")>>,
   <<Value(Empty), Json("h", <<At(" ", "pa"), At(" a", "pb"), At("a", "pa")>>)>>,
   <<Json("h", <<At("a", "px"), At("b", "pa"), At(" a", "pb")>>), Value("g")>>}

MCTopicEntries ==
  {<<Topic(<<"h">>, <<2, 1>>), Topic(<<"g">>, <<1, 3>>)>>,
   <<Topic(<<"g", "h", "g">>, <<3, 3, 9>>), Topic(<<"h">>, <<1>>)>>,
   <<Topic(<<Empty, "u">>, <<1>>), Topic(<<"u", "g">>, <<9, 2>>)>>}

MCTrim(name) == CASE name = " a" -> "a" [] name = " " -> Empty [] OTHER -> name

MCMatches(f, t) ==
  <<f, t>> \in {<<1, "t">>, <<2, "t">>, <<2, "u">>, <<3, "v">>, <<9, "v">>}

MCConfigs ==
  {[host |-> h, metrics |-> <<m1, m2>>, handlers |-> hs, topics |-> ts] :
     h \in BOOLEAN, m1 \in MCMetricEntries, m2 \in MCMetricEntries,
     hs \in MCHandlerEntries, ts \in MCTopicEntries}
=============================================================================
