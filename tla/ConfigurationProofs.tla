------------------------- MODULE ConfigurationProofs -------------------------
(***************************************************************************)
(* Proofs about Configuration, for every set of files.                     *)
(***************************************************************************)
EXTENDS Configuration, SequenceProofs, FiniteSetTheorems

(***************************************************************************)
(* The elements of a finite set as a sequence, in any order and ascending. *)
(***************************************************************************)
Enumerates(s, S) ==
  /\ s \in Seq(S)
  /\ Len(s) = Cardinality(S)
  /\ \A i, j \in 1 .. Len(s) : s[i] = s[j] => i = j
  /\ ToSet(s) = S

LEMMA SetToSeqEnumerates ==
  ASSUME NEW S, IsFiniteSet(S)
  PROVE  Enumerates(SetToSeq(S), S)
PROOF
  <1> DEFINE n == Cardinality(S)
             s == SetToSeq(S)
  <1>1. n \in Nat /\ ExistsBijection(1 .. n, S)
    BY FS_CardinalityType
  <1>2. \E f \in [1 .. n -> S] : IsInjective(f)
    BY <1>1 DEF ExistsBijection, Bijection, Injection, IsInjective
  <1>3. s \in [1 .. n -> S] /\ IsInjective(s)
    BY <1>2 DEF SetToSeq
  <1> HIDE DEF s, n
  <1>4. s \in Seq(S) /\ Len(s) = n /\ DOMAIN s = 1 .. n
    BY <1>1, <1>3, SeqDef
  <1>5. \A i, j \in 1 .. Len(s) : s[i] = s[j] => i = j
    BY <1>3, <1>4 DEF IsInjective
  <1>6. ToSet(s) = S
    <2>1. IsFiniteSet(1 .. n) /\ Cardinality(1 .. n) = n
      <3>1. IsFiniteSet(1 .. n) /\ Cardinality(1 .. n) = IF 1 > n THEN 0 ELSE n - 1 + 1
        BY <1>1, FS_Interval
      <3> QED
        BY <1>1, <3>1
    <2>2. s \in Injection(1 .. n, S)
      BY <1>3 DEF Injection
    <2>3. Cardinality(1 .. n) = Cardinality(S)
      BY <2>1 DEF n
    <2>4. s \in Surjection(1 .. n, S)
      BY <2>2, <2>3, FS_Injection
    <2>5. ToSet(s) = {s[i] : i \in 1 .. n}
      BY <1>4, ElementsOf
    <2> QED
      BY <2>4, <2>5 DEF Surjection
  <1> QED
    BY <1>4, <1>5, <1>6 DEF Enumerates, s, n

Rank(S, x) == Cardinality(Below(S, x))

LEMMA RankGrows ==
  ASSUME NEW S \in SUBSET Nat, IsFiniteSet(S), NEW x \in S
  PROVE  /\ Rank(S, x) \in 0 .. Cardinality(S) - 1
         /\ \A y \in S : x < y => Rank(S, x) < Rank(S, y)
PROOF
  <1>1. /\ IsFiniteSet(S \ {x}) /\ Cardinality(S \ {x}) = Cardinality(S) - 1
        /\ Cardinality(S) \in Nat
    BY FS_RemoveElement, FS_CardinalityType
  <1>2. \A y \in S : IsFiniteSet(Below(S, y)) /\ Rank(S, y) \in Nat
    <2> SUFFICES ASSUME NEW y \in S
                 PROVE  IsFiniteSet(Below(S, y)) /\ Rank(S, y) \in Nat
      OBVIOUS
    <2>1. Below(S, y) \in SUBSET S
      BY DEF Below
    <2>2. IsFiniteSet(Below(S, y))
      BY <2>1, FS_Subset
    <2> QED
      BY <2>2, FS_CardinalityType DEF Rank
  <1>3. Rank(S, x) <= Cardinality(S) - 1
    <2>1. Below(S, x) \in SUBSET (S \ {x})
      BY DEF Below
    <2>2. Cardinality(Below(S, x)) <= Cardinality(S \ {x})
      BY <1>1, <2>1, FS_Subset
    <2> QED
      BY <1>1, <2>2 DEF Rank
  <1>4. ASSUME NEW y \in S, x < y  PROVE Rank(S, x) < Rank(S, y)
    <2>1. (Below(S, x) \cup {x}) \in SUBSET Below(S, y)
      <3>1. \A z \in S : z < x => z < y
        BY <1>4
      <3> QED
        BY <1>4, <3>1 DEF Below
    <2>2. x \notin Below(S, x)
      BY DEF Below
    <2>3. Cardinality(Below(S, x) \cup {x}) = Rank(S, x) + 1
      BY <1>2, <2>2, FS_AddElement DEF Rank
    <2>4. Cardinality(Below(S, x) \cup {x}) <= Rank(S, y)
      BY <1>2, <2>1, FS_Subset DEF Rank
    <2> QED
      BY <1>2, <2>3, <2>4
  <1> QED
    BY <1>1, <1>2, <1>3, <1>4

Ascends(s) == \A i, j \in DOMAIN s : i < j => s[i] < s[j]

LEMMA AscendingIs ==
  ASSUME NEW S \in SUBSET Nat, IsFiniteSet(S)
  PROVE  /\ Ascending(S) \in Seq(S)
         /\ Ascends(Ascending(S))
         /\ ToSet(Ascending(S)) = S
PROOF
  <1> DEFINE n == Cardinality(S)
             a == Ascending(S)
             r == [x \in S |-> Rank(S, x)]
  <1>1. n \in Nat
    BY FS_CardinalityType
  <1>2. \A x, y \in S : /\ Rank(S, x) \in 0 .. n - 1
                        /\ x < y => Rank(S, x) < Rank(S, y)
    BY RankGrows
  <1>3. \A x, y \in S : Rank(S, x) = Rank(S, y) => x = y
    <2> SUFFICES ASSUME NEW x \in S, NEW y \in S, Rank(S, x) = Rank(S, y)
                 PROVE  x = y
      OBVIOUS
    <2>1. /\ x \in Nat /\ y \in Nat /\ Rank(S, x) \in 0 .. n - 1
          /\ x < y => Rank(S, x) < Rank(S, y)
          /\ y < x => Rank(S, y) < Rank(S, x)
      BY <1>2
    <2> HIDE DEF n
    <2> QED
      BY <1>1, <2>1
  <1>4. r \in Injection(S, 0 .. n - 1)
    BY <1>2, <1>3 DEF Injection, IsInjective
  <1>5. IsFiniteSet(0 .. n - 1) /\ Cardinality(0 .. n - 1) = n
    <2>1. /\ IsFiniteSet(0 .. n - 1)
          /\ Cardinality(0 .. n - 1) = IF 0 > n - 1 THEN 0 ELSE (n - 1) - 0 + 1
      <3>1. 0 \in Int /\ n - 1 \in Int
        BY <1>1
      <3> HIDE DEF n
      <3> QED
        BY <3>1, FS_Interval
    <2> HIDE DEF n
    <2> QED
      BY <1>1, <2>1
  <1>6. r \in Surjection(S, 0 .. n - 1)
    <2> HIDE DEF r
    <2> QED
      BY <1>4, <1>5, FS_Injection
  <1>7. \A i \in 1 .. n : \E x \in S : Rank(S, x) = i - 1
    <2> SUFFICES ASSUME NEW i \in 1 .. n
                 PROVE  \E x \in S : Rank(S, x) = i - 1
      OBVIOUS
    <2>1. i - 1 \in 0 .. n - 1
      <3> HIDE DEF n
      <3> QED
        BY <1>1
    <2>2. PICK x \in S : r[x] = i - 1
      BY <1>6, <2>1 DEF Surjection
    <2> QED
      BY <2>2
  <1>8. a = [i \in 1 .. n |-> CHOOSE x \in S : Rank(S, x) = i - 1]
    BY DEF Ascending, Rank
  <1> HIDE DEF a, n
  <1>9. a \in [1 .. n -> S] /\ \A i \in 1 .. n : Rank(S, a[i]) = i - 1
    BY <1>7, <1>8
  <1>10. a \in Seq(S) /\ Len(a) = n /\ DOMAIN a = 1 .. n
    BY <1>1, <1>9, SeqDef
  <1>11. ASSUME NEW i \in 1 .. n, NEW j \in 1 .. n, i < j  PROVE a[i] < a[j]
    <2>1. /\ a[i] \in S /\ a[j] \in S
          /\ Rank(S, a[i]) = i - 1 /\ Rank(S, a[j]) = j - 1
      BY <1>9
    <2>2. a[i] \in Nat /\ a[j] \in Nat /\ a[i] # a[j]
      <3>1. i - 1 # j - 1
        BY <1>1, <1>11
      <3> QED
        BY <2>1, <3>1
    <2>3. ~ (a[j] < a[i])
      <3>1. ~ (j - 1 < i - 1)
        BY <1>1, <1>11
      <3> QED
        BY <1>2, <2>1, <3>1
    <2> QED
      BY <2>2, <2>3
  <1>12. ASSUME NEW x \in S  PROVE x \in ToSet(a)
    <2>1. Rank(S, x) \in 0 .. n - 1
      BY <1>2
    <2>2. /\ Rank(S, x) + 1 \in 1 .. n
          /\ (Rank(S, x) + 1) - 1 = Rank(S, x)
      BY <1>1, <2>1
    <2>3. a[Rank(S, x) + 1] = x
      BY <1>3, <1>9, <2>2
    <2> QED
      BY <1>10, <2>2, <2>3 DEF ToSet
  <1>13. ToSet(a) \subseteq S
    BY <1>10, ElementsOf
  <1> QED
    BY <1>10, <1>11, <1>12, <1>13 DEF Ascends, a

-----------------------------------------------------------------------------
(***************************************************************************)
(* The entries of a file, and the metrics that one makes.                  *)
(***************************************************************************)
LEMMA FileTypes ==
  ASSUME cfg \in Configs
  PROVE  /\ cfg \in Config
         /\ Len(cfg.metrics) \in Nat /\ DOMAIN cfg.metrics = 1 .. Len(cfg.metrics)
         /\ \A i \in DOMAIN cfg.metrics : cfg.metrics[i] \in MetricEntry
         /\ Len(cfg.handlers) \in Nat /\ DOMAIN cfg.handlers = 1 .. Len(cfg.handlers)
         /\ \A i \in DOMAIN cfg.handlers : cfg.handlers[i] \in HandlerEntry
         /\ Len(cfg.topics) \in Nat /\ DOMAIN cfg.topics = 1 .. Len(cfg.topics)
         /\ \A i \in DOMAIN cfg.topics : cfg.topics[i] \in TopicEntry
PROOF
  <1>1. cfg \in Config
    BY ConfigAssumption
  <1>2. /\ cfg.metrics \in Seq(MetricEntry) /\ cfg.handlers \in Seq(HandlerEntry)
        /\ cfg.topics \in Seq(TopicEntry)
    BY <1>1 DEF Config
  <1>3. /\ Len(cfg.metrics) \in Nat /\ DOMAIN cfg.metrics = 1 .. Len(cfg.metrics)
        /\ \A i \in DOMAIN cfg.metrics : cfg.metrics[i] \in MetricEntry
    BY <1>2, LenProperties, ElementOfSeq
  <1>4. /\ Len(cfg.handlers) \in Nat /\ DOMAIN cfg.handlers = 1 .. Len(cfg.handlers)
        /\ \A i \in DOMAIN cfg.handlers : cfg.handlers[i] \in HandlerEntry
    BY <1>2, LenProperties, ElementOfSeq
  <1>5. /\ Len(cfg.topics) \in Nat /\ DOMAIN cfg.topics = 1 .. Len(cfg.topics)
        /\ \A i \in DOMAIN cfg.topics : cfg.topics[i] \in TopicEntry
    BY <1>2, LenProperties, ElementOfSeq
  <1> QED
    BY <1>1, <1>3, <1>4, <1>5

LEMMA MetricsMadeAre ==
  ASSUME cfg \in Configs, NEW m \in DOMAIN cfg.metrics, NEW id \in HandlerIds
  PROVE  /\ MetricsMade(m, id) \subseteq Metric
         /\ \A x \in MetricsMade(m, id) :
              x.entry = m /\ x.handler = id /\ x.property # Empty
         /\ \A x, y \in MetricsMade(m, id) : x = y
         /\ IsFiniteSet(MetricsMade(m, id))
PROOF
  <1> DEFINE hs == cfg.metrics[m].handlers
             makers == {k \in DOMAIN hs : FirstWith(hs, id, k)
                                           /\ hs[k].property # Empty}
             made(k) == [entry |-> m, handler |-> id, property |-> hs[k].property]
  <1>1. hs \in Seq([id : HandlerIds, property : Properties \cup {Empty}]) /\ m \in Nat
    <2>1. Len(cfg.metrics) \in Nat /\ m \in 1 .. Len(cfg.metrics)
      BY FileTypes, Zenon
    <2>2. m \in Nat
      <3> DEFINE n == Len(cfg.metrics)
      <3> HIDE DEF n
      <3> QED
        BY <2>1 DEF n
    <2>3. cfg.metrics[m] \in MetricEntry
      BY FileTypes, Zenon
    <2> QED
      BY <2>2, <2>3 DEF MetricEntry
  <1> HIDE DEF hs
  <1>2. /\ DOMAIN hs = 1 .. Len(hs) /\ Len(hs) \in Nat
        /\ \A k \in DOMAIN hs :
             hs[k] \in [id : HandlerIds, property : Properties \cup {Empty}]
    BY <1>1, LenProperties, ElementOfSeq
  <1>3. MetricsMade(m, id) = {made(k) : k \in makers}
    BY DEF MetricsMade, hs
  <1>4. \A k \in makers : made(k) \in Metric
    BY <1>1, <1>2 DEF Metric
  <1>8. \A k \in makers : made(k).entry = m /\ made(k).handler = id /\ made(k).property # Empty
    OBVIOUS
  <1>5. \A j, k \in makers : j = k
    <2> SUFFICES ASSUME NEW j \in makers, NEW k \in makers  PROVE j = k
      OBVIOUS
    <2>1. /\ j \in 1 .. Len(hs) /\ k \in 1 .. Len(hs)
          /\ hs[j].id = id /\ hs[k].id = id
          /\ \A i \in 1 .. j - 1 : hs[i].id # id
          /\ \A i \in 1 .. k - 1 : hs[i].id # id
      BY <1>2 DEF FirstWith
    <2> HIDE DEF makers
    <2>2. j \notin 1 .. k - 1 /\ k \notin 1 .. j - 1
      BY <2>1
    <2> QED
      BY <1>2, <2>1, <2>2
  <1> HIDE DEF makers
  <1>6. \A x, y \in MetricsMade(m, id) : x = y
    BY <1>3, <1>5
  <1>7. IsFiniteSet(MetricsMade(m, id))
    <2>1. CASE MetricsMade(m, id) = {}
      BY <2>1, FS_EmptySet
    <2>2. CASE \E x : x \in MetricsMade(m, id)
      <3>1. PICK x : x \in MetricsMade(m, id)
        BY <2>2
      <3>2. MetricsMade(m, id) = {x}
        BY <1>6, <3>1
      <3> QED
        BY <3>2, FS_Singleton
    <2> QED
      BY <2>1, <2>2
  <1> QED
    BY <1>3, <1>4, <1>6, <1>7, <1>8

LEMMA SeqOfMore ==
  ASSUME NEW T, NEW S \in SUBSET T, NEW s \in Seq(S)
  PROVE  s \in Seq(T)
PROOF
  <1>1. Len(s) \in Nat /\ s \in [1 .. Len(s) -> S]
    BY LenProperties, ElementOfSeq
  <1>2. s \in [1 .. Len(s) -> T]
    BY <1>1
  <1> QED
    BY <1>1, <1>2, SeqDef

LEMMA NewMetrics ==
  ASSUME cfg \in Configs, NEW m \in DOMAIN cfg.metrics, NEW id \in HandlerIds
  PROVE  /\ SetToSeq(MetricsMade(m, id)) \in Seq(Metric)
         /\ ToSet(SetToSeq(MetricsMade(m, id))) = MetricsMade(m, id)
         /\ Len(SetToSeq(MetricsMade(m, id))) <= 1
PROOF
  <1> DEFINE S == MetricsMade(m, id)
             s == SetToSeq(S)
  <1>1. S \subseteq Metric /\ IsFiniteSet(S) /\ \A x, y \in S : x = y
    BY MetricsMadeAre
  <1> HIDE DEF S
  <1>2. /\ s \in Seq(S)
        /\ \A i, j \in 1 .. Len(s) : s[i] = s[j] => i = j
        /\ ToSet(s) = S
    BY <1>1, SetToSeqEnumerates DEF Enumerates
  <1> HIDE DEF s
  <1>3. Len(s) \in Nat /\ \A i \in 1 .. Len(s) : s[i] \in S
    BY <1>2, LenProperties, ElementOfSeq
  <1>4. Len(s) <= 1
    <2>1. SUFFICES ASSUME 2 <= Len(s)  PROVE FALSE
      BY <1>3
    <2>2. 1 \in 1 .. Len(s) /\ 2 \in 1 .. Len(s)
      BY <1>3, <2>1
    <2>3. s[1] = s[2]
      BY <1>1, <1>3, <2>2
    <2> QED
      BY <1>2, <2>2, <2>3
  <1>5. s \in Seq(Metric)
    BY <1>1, <1>2, SeqOfMore
  <1> QED
    BY <1>2, <1>4, <1>5 DEF s, S

-----------------------------------------------------------------------------
(***************************************************************************)
(* The variables have their types.                                         *)
(***************************************************************************)
LEMMA EmptyIsTyped == <<>> \in Seq(Metric) /\ NothingBound \in [Places -> Seq(Metric)]
PROOF
  <1>1. <<>> \in Seq(Metric)
    BY EmptySeq
  <1> HIDE DEF Metric
  <1> QED
    BY <1>1 DEF NothingBound

LEMMA FiledType ==
  ASSUME TypeOK, NEW id \in HandlerIds
  PROVE  Filed(id) \in Seq(Metric)
BY DEF TypeOK, Filed

LEMMA EntryType ==
  ASSUME TypeOK, NEW type, AtHandler(type)
  PROVE  /\ Entry \in HandlerEntry /\ entry \in DOMAIN cfg.handlers
         /\ Entry.id \in HandlerIds
PROOF
  <1>1. /\ cfg \in Configs /\ entry \in Nat \ {0} /\ entry <= Len(cfg.handlers)
    BY DEF TypeOK, AtHandler
  <1>2. /\ Len(cfg.handlers) \in Nat /\ DOMAIN cfg.handlers = 1 .. Len(cfg.handlers)
        /\ \A i \in DOMAIN cfg.handlers : cfg.handlers[i] \in HandlerEntry
    BY <1>1, FileTypes, Zenon
  <1> DEFINE n == Len(cfg.handlers)
  <1>3. entry \in 1 .. n
    <2>1. n \in Nat /\ entry \in Nat \ {0} /\ entry <= n
      BY <1>1, <1>2
    <2> HIDE DEF n
    <2> QED
      BY <2>1
  <1>4. Entry \in HandlerEntry
    BY <1>2, <1>3 DEF Entry
  <1> QED
    BY <1>2, <1>3, <1>4 DEF HandlerEntry

LEMMA PropertyType ==
  ASSUME TypeOK, AtHandler("json"), nextProperty <= Len(Entry.properties)
  PROVE  LET p == Entry.properties[nextProperty]
         IN /\ nextProperty \in DOMAIN Entry.properties
            /\ ~ Passed(p) => Name(p) \in Properties
            /\ p.pointer \in Addable => p.pointer \in Places
PROOF
  <1> DEFINE P == [property : Properties \cup {Empty}, pointer : Pointers \cup {Empty}]
             ps == Entry.properties
  <1>1. ps \in Seq(P)
    BY EntryType DEF HandlerEntry
  <1> HIDE DEF ps, P
  <1>2. Len(ps) \in Nat /\ DOMAIN ps = 1 .. Len(ps) /\ \A i \in 1 .. Len(ps) : ps[i] \in P
    BY <1>1, LenProperties, ElementOfSeq
  <1>3. nextProperty \in Nat \ {0} /\ nextProperty <= Len(ps)
    BY DEF TypeOK, ps
  <1>4. nextProperty \in 1 .. Len(ps)
    BY <1>2, <1>3
  <1>5. ps[nextProperty] \in P
    BY <1>2, <1>4
  <1> QED
    BY <1>2, <1>4, <1>5, ConfigAssumption DEF ps, P, Passed, IsSaid, Name, Places

\* A property either binds metrics to its pointer, or is only noted.
Binds ==
  LET p == Entry.properties[nextProperty]
  IN ~ Passed(p) /\ p.pointer \in Addable

LEMMA PropertyCases ==
  ASSUME AddProperty
  PROVE  LET p == Entry.properties[nextProperty]
         IN /\ \/ Passed(p) /\ seen' = seen
               \/ ~ Passed(p) /\ seen' = seen \cup {Name(p)}
            /\ \/ UNCHANGED <<metrics, bound, count>> /\ (Passed(p) \/ p.pointer \notin Addable)
               \/ Binds /\ MoveTo(p.pointer, Name(p))
BY Zenon DEF AddProperty, Binds

LEMMA SplitTypes ==
  ASSUME TypeOK, NEW id \in HandlerIds, NEW property
  PROVE  LET filed == Filed(id)
             taken == Those(filed, WithProperty(filed, property))
         IN /\ taken \in Seq(Metric) /\ Len(taken) \in Nat
            /\ LeftFiled(filed, property) \in Seq(Metric)
PROOF
  <1> DEFINE filed == Filed(id)
  <1>1. filed \in Seq(Metric)
    BY FiledType
  <1> HIDE DEF filed
  <1>2. \A S : Those(filed, S) \in Seq(Metric)
    <2> SUFFICES ASSUME NEW S  PROVE Those(filed, S) \in Seq(Metric)
      OBVIOUS
    <2>1. Those(filed, S) \in Seq(Metric \cap S) /\ Metric \cap S \in SUBSET Metric
      BY <1>1, ThoseType
    <2> QED
      BY <2>1, SeqOfMore
  <1>3. \A t \in Seq(Metric) : Len(t) \in Nat
    BY LenProperties
  <1> QED
    BY <1>2, <1>3 DEF LeftFiled, filed

LEMMA ConcatType ==
  ASSUME NEW T, NEW s \in Seq(T), NEW t \in Seq(T)
  PROVE  s \o t \in Seq(T)
BY ConcatProperties

LEMMA StoreType ==
  ASSUME TypeOK, NEW id, NEW at \in [Places -> Seq(Metric)], NEW n \in Nat,
         Store(id, at, n)
  PROVE  store' \in [HandlerIds -> Handler \cup {NotMade}]
PROOF
  <1>1. [at |-> at, count |-> n] \in Handler
    BY DEF Handler
  <1> QED
    BY <1>1 DEF Store, TypeOK

LEMMA FiniteFilters ==
  ASSUME NEW S \in SUBSET Filters
  PROVE  IsFiniteSet(S) /\ S \in SUBSET Nat
BY ConfigAssumption, FS_Subset

LEMMA SubscribeType ==
  ASSUME TypeOK, NEW fs \in SUBSET Filters
  PROVE  /\ Subscribe(fs) \in Seq(Filters)
         /\ Ascends(Subscribe(fs))
         /\ ToSet(Subscribe(fs)) = ToSet(subscriptions) \cup fs
PROOF
  <1> DEFINE S == ToSet(subscriptions) \cup fs
  <1>1. S \in SUBSET Filters
    BY ElementsOf DEF TypeOK
  <1> HIDE DEF S
  <1>2. IsFiniteSet(S) /\ S \in SUBSET Nat
    BY <1>1, FiniteFilters
  <1>3. Ascending(S) \in Seq(S) /\ Ascends(Ascending(S)) /\ ToSet(Ascending(S)) = S
    BY <1>2, AscendingIs, Zenon
  <1>4. Ascending(S) \in Seq(Filters)
    BY <1>1, <1>3, SeqOfMore
  <1>5. Subscribe(fs) = Ascending(S)
    BY DEF Subscribe, S
  <1> QED
    BY <1>3, <1>4, <1>5 DEF S

LEMMA TopicType ==
  ASSUME TypeOK, stage = "topics", entry <= Len(cfg.topics)
  PROVE  /\ entry \in DOMAIN cfg.topics
         /\ cfg.topics[entry].handlers \in Seq(HandlerIds)
         /\ ToSet(cfg.topics[entry].filters) \in SUBSET Filters
         /\ Made(cfg.topics[entry].handlers) \in Seq(HandlerIds)
         /\ ToSet(Made(cfg.topics[entry].handlers))
              = ToSet(cfg.topics[entry].handlers) \cap MadeHandlers
PROOF
  <1>1. cfg \in Configs /\ entry \in Nat \ {0}
    BY DEF TypeOK
  <1>2. /\ Len(cfg.topics) \in Nat /\ DOMAIN cfg.topics = 1 .. Len(cfg.topics)
        /\ \A i \in DOMAIN cfg.topics : cfg.topics[i] \in TopicEntry
    BY <1>1, FileTypes, Zenon
  <1>3. entry \in 1 .. Len(cfg.topics)
    <2> DEFINE n == Len(cfg.topics)
    <2>1. n \in Nat /\ entry <= n
      BY <1>2
    <2> HIDE DEF n
    <2>2. entry \in 1 .. n
      BY <1>1, <2>1
    <2> QED
      BY <2>2 DEF n
  <1> DEFINE e == cfg.topics[entry]
             ids == e.handlers
             fs == e.filters
  <1>4. e \in TopicEntry
    BY <1>2, <1>3
  <1>5. ids \in Seq(HandlerIds) /\ fs \in Seq(Filters)
    <2> HIDE DEF e
    <2> QED
      BY <1>4 DEF TopicEntry
  <1> HIDE DEF ids, fs
  <1>6. ToSet(fs) \in SUBSET Filters
    BY <1>5, ElementsOf
  <1>7. HandlerIds \cap MadeHandlers \in SUBSET HandlerIds
    OBVIOUS
  <1>8. Made(ids) \in Seq(HandlerIds \cap MadeHandlers)
    BY <1>5, ThoseType DEF Made
  <1>9. Made(ids) \in Seq(HandlerIds)
    BY <1>7, <1>8, SeqOfMore
  <1>10. ToSet(Made(ids)) = ToSet(ids) \cap MadeHandlers
    BY <1>5, ThoseSet DEF Made
  <1> QED
    BY <1>2, <1>3, <1>5, <1>6, <1>9, <1>10 DEF ids, fs

LEMMA TypeInit == Init => TypeOK
PROOF
  <1> SUFFICES ASSUME Init  PROVE TypeOK
    OBVIOUS
  <1>1. metrics \in [HandlerIds -> Seq(Metric)] /\ bound \in [Places -> Seq(Metric)]
    BY EmptyIsTyped DEF Init
  <1>2. topics \in [Filters -> Seq(Seq(HandlerIds))] /\ subscriptions \in Seq(Filters)
    <2>1. <<>> \in Seq(Seq(HandlerIds)) /\ <<>> \in Seq(Filters)
      BY EmptySeq
    <2> QED
      BY <2>1 DEF Init
  <1>3. store \in [HandlerIds -> Handler \cup {NotMade}]
    BY DEF Init
  <1> HIDE DEF Metric, Handler, Places
  <1> QED
    BY <1>1, <1>2, <1>3 DEF Init, TypeOK

LEMMA TypeStep == TypeOK /\ [Next]_vars => TypeOK'
PROOF
  <1> SUFFICES ASSUME TypeOK, [Next]_vars  PROVE TypeOK'
    OBVIOUS
  <1>0. /\ cfg \in Configs
        /\ stage \in {"metrics", "handlers", "topics", "done"}
        /\ entry \in Nat \ {0} /\ nextProperty \in Nat \ {0}
        /\ metrics \in [HandlerIds -> Seq(Metric)]
        /\ bound \in [Places -> Seq(Metric)]
        /\ seen \subseteq Properties /\ count \in Nat
        /\ store \in [HandlerIds -> Handler \cup {NotMade}]
        /\ topics \in [Filters -> Seq(Seq(HandlerIds))]
        /\ subscriptions \in Seq(Filters)
    BY DEF TypeOK
  <1>1. CASE ConfigureMetric
    <2>1. entry \in DOMAIN cfg.metrics
      <3> DEFINE n == Len(cfg.metrics)
      <3>1. n \in Nat /\ DOMAIN cfg.metrics = 1 .. n /\ entry <= n
        BY <1>0, <1>1, FileTypes, Zenon DEF ConfigureMetric
      <3> HIDE DEF n
      <3> QED
        BY <1>0, <3>1
    <2>2. \A id \in HandlerIds :
            metrics[id] \o SetToSeq(MetricsMade(entry, id)) \in Seq(Metric)
      <3> SUFFICES ASSUME NEW id \in HandlerIds
                   PROVE  metrics[id] \o SetToSeq(MetricsMade(entry, id)) \in Seq(Metric)
        OBVIOUS
      <3>1. SetToSeq(MetricsMade(entry, id)) \in Seq(Metric) /\ metrics[id] \in Seq(Metric)
        <4>1. SetToSeq(MetricsMade(entry, id)) \in Seq(Metric)
          BY <1>0, <2>1, NewMetrics, Zenon
        <4> QED
          BY <1>0, <4>1
      <3> QED
        BY <3>1, ConcatType
    <2>3. metrics' \in [HandlerIds -> Seq(Metric)]
      BY <1>1, <2>2 DEF ConfigureMetric
    <2> QED
      BY <1>0, <1>1, <2>3 DEF ConfigureMetric, building, TypeOK
  <1>2. CASE EndMetrics
    BY <1>0, <1>2 DEF EndMetrics, building, TypeOK
  <1>3. CASE AddProperty
    <2> DEFINE p == Entry.properties[nextProperty]
               name == Name(p)
               place == p.pointer
               filed == Filed(Entry.id)
               taken == Those(filed, WithProperty(filed, name))
               left == LeftFiled(filed, name)
    <2>1. taken \in Seq(Metric) /\ Len(taken) \in Nat /\ left \in Seq(Metric)
      BY <1>3, EntryType, SplitTypes DEF AddProperty
    <2>2. (~ Passed(p) => name \in Properties) /\ (place \in Addable => place \in Places)
      BY <1>3, PropertyType DEF AddProperty
    <2>3. /\ UNCHANGED <<cfg, stage, entry, store, topics, subscriptions>>
          /\ nextProperty' = nextProperty + 1
      BY <1>3 DEF AddProperty
    <2>4. seen' \subseteq Properties
      BY <1>0, <1>3, <2>2, PropertyCases
    <2>5. /\ metrics' \in [HandlerIds -> Seq(Metric)]
          /\ bound' \in [Places -> Seq(Metric)]
          /\ count' \in Nat
      <3>1. CASE UNCHANGED <<metrics, bound, count>>
        BY <1>0, <3>1
      <3>2. CASE Binds /\ MoveTo(place, name)
        <4>1. /\ metrics' = [id \in HandlerIds |-> IF id = Entry.id THEN left ELSE metrics[id]]
              /\ bound' = [bound EXCEPT ![place] = @ \o taken]
              /\ count' = count + Len(taken)
          BY <3>2, Zenon DEF MoveTo
        <4>2. place \in Places
          BY <2>2, <3>2 DEF Binds
        <4> HIDE DEF taken, left, place
        <4>3. bound[place] \o taken \in Seq(Metric)
          BY <1>0, <2>1, <4>2, ConcatType
        <4> QED
          BY <1>0, <2>1, <4>1, <4>2, <4>3
      <3> QED
        BY <1>3, <3>1, <3>2, PropertyCases
    <2> HIDE DEF p, name, place, filed, taken, left
    <2> QED
      BY <1>0, <2>3, <2>4, <2>5 DEF TypeOK
  <1>4. CASE JsonHandler
    <2>1. store' \in [HandlerIds -> Handler \cup {NotMade}]
      BY <1>0, <1>4, StoreType DEF JsonHandler
    <2> QED
      BY <1>0, <1>4, <2>1, EmptyIsTyped DEF JsonHandler, NextHandler, TypeOK
  <1>5. CASE ValueHandler
    <2> DEFINE filed == Filed(Entry.id)
               at == [NothingBound EXCEPT ![Whole] = filed]
    <2>1. filed \in Seq(Metric) /\ Len(filed) \in Nat
      BY <1>5, EntryType, FiledType, LenProperties DEF ValueHandler
    <2>2. at \in [Places -> Seq(Metric)]
      BY <2>1, EmptyIsTyped
    <2>3. Store(Entry.id, at, Len(filed))
      BY <1>5 DEF ValueHandler
    <2>4. store' \in [HandlerIds -> Handler \cup {NotMade}]
      <3> HIDE DEF at, filed
      <3> QED
        BY <2>1, <2>2, <2>3, StoreType
    <2>5. metrics' \in [HandlerIds -> Seq(Metric)]
      <3>1. metrics' = [id \in HandlerIds |-> IF id = Entry.id THEN <<>> ELSE metrics[id]]
        BY <1>5 DEF ValueHandler
      <3> QED
        BY <1>0, <3>1, EmptyIsTyped
    <2> QED
      BY <1>0, <1>5, <2>4, <2>5, EmptyIsTyped DEF ValueHandler, NextHandler, TypeOK
  <1>6. CASE TextHandler
    BY <1>0, <1>6, EmptyIsTyped DEF TextHandler, NextHandler, TypeOK
  <1>7. CASE EndHandlers
    BY <1>0, <1>7 DEF EndHandlers, building, TypeOK
  <1>8. CASE ConfigureTopic
    <2> DEFINE handlers == Made(cfg.topics[entry].handlers)
               filters == ToSet(cfg.topics[entry].filters) \cap ValidFilters
    <2>1. handlers \in Seq(HandlerIds) /\ filters \in SUBSET Filters
      BY <1>8, TopicType DEF ConfigureTopic
    <2>2. Subscribe(filters) \in Seq(Filters)
      BY <2>1, SubscribeType
    <2>3. /\ UNCHANGED <<cfg, stage, metrics, building, store>>
          /\ entry' = entry + 1
      BY <1>8 DEF ConfigureTopic
    <2>4. \/ UNCHANGED <<topics, subscriptions>>
          \/ /\ topics' = [f \in Filters |-> IF f \in filters
                                             THEN Append(topics[f], handlers)
                                             ELSE topics[f]]
             /\ subscriptions' = Subscribe(filters)
      BY <1>8, Zenon DEF ConfigureTopic
    <2> HIDE DEF handlers, filters
    <2>5. \A f \in Filters : Append(topics[f], handlers) \in Seq(Seq(HandlerIds))
      <3> SUFFICES ASSUME NEW f \in Filters
                   PROVE  Append(topics[f], handlers) \in Seq(Seq(HandlerIds))
        OBVIOUS
      <3> DEFINE R == Seq(HandlerIds)
      <3>1. topics[f] \in Seq(R) /\ handlers \in R
        BY <1>0, <2>1
      <3> HIDE DEF R
      <3>2. Append(topics[f], handlers) \in Seq(R)
        BY <3>1, AppendProperties
      <3> QED
        BY <3>2 DEF R
    <2>6. topics' \in [Filters -> Seq(Seq(HandlerIds))] /\ subscriptions' \in Seq(Filters)
      <3>1. CASE UNCHANGED <<topics, subscriptions>>
        BY <1>0, <3>1
      <3>2. CASE /\ topics' = [f \in Filters |-> IF f \in filters
                                                 THEN Append(topics[f], handlers)
                                                 ELSE topics[f]]
                 /\ subscriptions' = Subscribe(filters)
        BY <1>0, <2>2, <2>5, <3>2
      <3> QED
        BY <2>4, <3>1, <3>2
    <2> QED
      BY <1>0, <2>3, <2>6 DEF building, TypeOK
  <1>9. CASE EndTopics
    BY <1>0, <1>9 DEF EndTopics, building, TypeOK
  <1>10. CASE UNCHANGED vars
    BY <1>0, <1>10 DEF vars, building, TypeOK
  <1> QED
    BY <1>1, <1>2, <1>3, <1>4, <1>5, <1>6, <1>7, <1>8, <1>9, <1>10 DEF Next

(***************************************************************************)
(* The variables have their types, whatever the file: no metric is bound   *)
(* but to a pointer, and only handlers are stored.                         *)
(***************************************************************************)
THEOREM ConfigurationIsTyped == Spec => []TypeOK
PROOF
  <1> QED
    BY TypeInit, TypeStep, PTL DEF Spec

-----------------------------------------------------------------------------
(***************************************************************************)
(* The count of a handler, while it is made and when it is stored, is the  *)
(* number of its metrics.                                                  *)
(***************************************************************************)
Counted(at, n) == IsFiniteSet(BoundAt(at)) /\ n = Cardinality(BoundAt(at))

CountInv ==
  /\ Counted(bound, count)
  /\ \A id \in MadeHandlers :
       Counted(store[id].at, store[id].count) /\ store[id].count > 0

LEMMA EmptyDomain == DOMAIN <<>> = {}
PROOF
  <1> DEFINE none == <<>>
  <1>1. none \in Seq({}) /\ Len(none) = 0
    BY EmptySeq
  <1> HIDE DEF none
  <1>2. DOMAIN none = 1 .. 0
    BY <1>1, LenProperties
  <1>3. DOMAIN none = {}
    BY <1>2
  <1> QED
    BY <1>3 DEF none

LEMMA NothingCounted == Counted(NothingBound, 0)
PROOF
  <1>1. \A p \in Places : NothingBound[p] = <<>>
    BY DEF NothingBound
  <1>2. BoundAt(NothingBound) = {}
    BY <1>1, EmptyDomain DEF BoundAt
  <1> QED
    BY <1>2, FS_EmptySet DEF Counted

\* Adding metrics t at a place counts them.
LEMMA MoreCounted ==
  ASSUME NEW at \in [Places -> Seq(Metric)], NEW n \in Nat, Counted(at, n),
         NEW p \in Places, NEW t \in Seq(Metric)
  PROVE  Counted([at EXCEPT ![p] = @ \o t], n + Len(t))
PROOF
  <1> DEFINE to == [at EXCEPT ![p] = @ \o t]
             k == Len(at[p])
             l == Len(t)
             new == {p} \X ((k + 1) .. (k + l))
  <1>1. at[p] \in Seq(Metric) /\ k \in Nat /\ l \in Nat /\ DOMAIN at[p] = 1 .. k
    BY LenProperties
  <1>2. DOMAIN (at[p] \o t) = 1 .. (k + l)
    <2> DEFINE s == at[p]
    <2>1. s \in Seq(Metric)
      BY <1>1
    <2> HIDE DEF s
    <2>2. s \o t \in Seq(Metric) /\ Len(s \o t) = Len(s) + Len(t)
      BY <2>1, ConcatProperties
    <2>3. DOMAIN (s \o t) = 1 .. (Len(s) + Len(t))
      BY <2>2, LenProperties
    <2> QED
      BY <2>3 DEF s
  <1>3. to[p] = at[p] \o t /\ \A q \in Places : q # p => to[q] = at[q]
    OBVIOUS
  <1> HIDE DEF to
  <1>4. DOMAIN to[p] = 1 .. (k + l)
    BY <1>2, <1>3
  <1> HIDE DEF k, l
  <1>5. 1 .. (k + l) = (1 .. k) \cup ((k + 1) .. (k + l))
    BY <1>1
  <1>6. BoundAt(to) = BoundAt(at) \cup new
    <2>1. {p} \X DOMAIN to[p] = ({p} \X DOMAIN at[p]) \cup new
      BY <1>1, <1>4, <1>5
    <2>2. \A q \in Places : q # p => {q} \X DOMAIN to[q] = {q} \X DOMAIN at[q]
      BY <1>3
    <2> HIDE DEF new
    <2>3. \A x : x \in BoundAt(to) <=> \E q \in Places : x \in {q} \X DOMAIN to[q]
      BY Zenon DEF BoundAt
    <2>4. \A x : x \in BoundAt(at) <=> \E q \in Places : x \in {q} \X DOMAIN at[q]
      BY Zenon DEF BoundAt
    <2>5. ASSUME NEW x \in BoundAt(to)  PROVE x \in BoundAt(at) \cup new
      <3>1. PICK q \in Places : x \in {q} \X DOMAIN to[q]
        BY <2>3
      <3>2. CASE q = p
        BY <2>1, <2>4, <3>1, <3>2
      <3>3. CASE q # p
        BY <2>2, <2>4, <3>1, <3>3
      <3> QED
        BY <3>2, <3>3
    <2>6. ASSUME NEW x \in BoundAt(at) \cup new  PROVE x \in BoundAt(to)
      <3>1. CASE x \in new
        BY <2>1, <2>3, <3>1
      <3>2. CASE x \in BoundAt(at)
        <4>1. PICK q \in Places : x \in {q} \X DOMAIN at[q]
          BY <2>4, <3>2
        <4>2. CASE q = p
          BY <2>1, <2>3, <4>1, <4>2
        <4>3. CASE q # p
          BY <2>2, <2>3, <4>1, <4>3
        <4> QED
          BY <4>2, <4>3
      <3> QED
        BY <3>1, <3>2
    <2> QED
      BY <2>5, <2>6
  <1>7. BoundAt(at) \cap new = {}
    <2>1. SUFFICES ASSUME NEW x \in BoundAt(at), x \in new  PROVE FALSE
      OBVIOUS
    <2>2. PICK q \in Places : x \in {q} \X DOMAIN at[q]
      BY <2>1 DEF BoundAt
    <2>3. x[1] = p /\ x[2] \in (k + 1) .. (k + l)
      BY <2>1
    <2>4. x[2] \in 1 .. k
      BY <1>1, <2>2, <2>3
    <2> QED
      BY <1>1, <2>3, <2>4
  <1>8. IsFiniteSet(new) /\ Cardinality(new) = l
    <2>1. IsFiniteSet((k + 1) .. (k + l)) /\ Cardinality((k + 1) .. (k + l)) = l
      <3>1. k + 1 \in Int /\ k + l \in Int
        BY <1>1
      <3>2. /\ IsFiniteSet((k + 1) .. (k + l))
            /\ Cardinality((k + 1) .. (k + l))
                 = IF k + 1 > k + l THEN 0 ELSE (k + l) - (k + 1) + 1
        BY <3>1, FS_Interval
      <3> QED
        BY <1>1, <3>2
    <2>2. IsFiniteSet({p}) /\ Cardinality({p}) = 1
      BY FS_Singleton
    <2>3. IsFiniteSet(new) /\ Cardinality(new) = 1 * l
      BY <2>1, <2>2, FS_Product
    <2> QED
      BY <1>1, <2>3
  <1>9. IsFiniteSet(BoundAt(at)) /\ Cardinality(BoundAt(at)) = n
    BY DEF Counted
  <1> HIDE DEF new
  <1>10. /\ IsFiniteSet(BoundAt(to))
         /\ Cardinality(BoundAt(to)) = n + l - Cardinality({})
    BY <1>6, <1>7, <1>8, <1>9, FS_Union
  <1>11. Cardinality(BoundAt(to)) = n + l
    BY <1>1, <1>10, FS_EmptySet
  <1> QED
    BY <1>10, <1>11 DEF Counted, to, l

LEMMA StoreCounts ==
  ASSUME TypeOK, CountInv, NEW id, NEW at, NEW n, Counted(at, n), Store(id, at, n)
  PROVE  \A i \in MadeHandlers' :
           Counted(store'[i].at, store'[i].count) /\ store'[i].count > 0
PROOF
  <1> SUFFICES ASSUME NEW i \in HandlerIds, store'[i] # NotMade
               PROVE  Counted(store'[i].at, store'[i].count) /\ store'[i].count > 0
    BY DEF MadeHandlers
  <1>1. CASE i = id /\ i # Empty /\ store[i] = NotMade /\ n > 0
    <2>1. store'[i] = [at |-> at, count |-> n]
      BY <1>1 DEF Store
    <2>2. store'[i].at = at /\ store'[i].count = n
      BY <2>1
    <2> QED
      BY <1>1, <2>2
  <1>2. CASE ~ (i = id /\ i # Empty /\ store[i] = NotMade /\ n > 0)
    <2>1. store'[i] = store[i]
      BY <1>2 DEF Store
    <2>2. i \in MadeHandlers
      BY <2>1 DEF MadeHandlers
    <2> QED
      BY <2>1, <2>2 DEF CountInv
  <1> QED
    BY <1>1, <1>2

LEMMA CountStep == TypeOK /\ CountInv /\ [Next]_vars => CountInv'
PROOF
  <1> SUFFICES ASSUME TypeOK, CountInv, [Next]_vars  PROVE CountInv'
    OBVIOUS
  <1>0. /\ bound \in [Places -> Seq(Metric)] /\ count \in Nat
        /\ Counted(bound, count)
        /\ \A id \in MadeHandlers :
             Counted(store[id].at, store[id].count) /\ store[id].count > 0
    BY DEF TypeOK, CountInv
  <1>9. ASSUME UNCHANGED store
        PROVE  \A id \in MadeHandlers' :
                 Counted(store'[id].at, store'[id].count) /\ store'[id].count > 0
    BY <1>0, <1>9 DEF MadeHandlers
  <1>1. CASE UNCHANGED <<bound, count, store>>
    <2>1. Counted(bound', count')
      BY <1>0, <1>1
    <2>2. \A id \in MadeHandlers' :
            Counted(store'[id].at, store'[id].count) /\ store'[id].count > 0
      BY <1>1, <1>9
    <2> QED
      BY <2>1, <2>2 DEF CountInv, Counted, BoundAt
  <1>2. CASE AddProperty
    <2> DEFINE p == Entry.properties[nextProperty]
               place == p.pointer
               filed == Filed(Entry.id)
               taken == Those(filed, WithProperty(filed, Name(p)))
    <2>1. CASE Binds /\ MoveTo(place, Name(p))
      <3>1. taken \in Seq(Metric) /\ place \in Places
        BY <1>2, <2>1, EntryType, SplitTypes, PropertyType DEF AddProperty, Binds
      <3>2. bound' = [bound EXCEPT ![place] = @ \o taken] /\ count' = count + Len(taken)
        BY <2>1, Zenon DEF MoveTo
      <3> HIDE DEF taken, place
      <3>3. Counted([bound EXCEPT ![place] = @ \o taken], count + Len(taken))
        BY <1>0, <3>1, MoreCounted
      <3>4. Counted(bound', count')
        BY <3>2, <3>3
      <3>5. \A id \in MadeHandlers' :
              Counted(store'[id].at, store'[id].count) /\ store'[id].count > 0
        BY <1>2, <1>9 DEF AddProperty
      <3> HIDE DEF p, filed
      <3> QED
        BY <3>4, <3>5 DEF CountInv, Counted, BoundAt
    <2>2. CASE UNCHANGED <<bound, count>>
      BY <1>1, <1>2, <2>2 DEF AddProperty
    <2> QED
      BY <1>2, <2>1, <2>2, PropertyCases
  <1>3. ASSUME NextHandler  PROVE Counted(bound', count')
    <2>1. bound' = NothingBound /\ count' = 0
      BY <1>3 DEF NextHandler
    <2> QED
      BY <2>1, NothingCounted
  <1>4. CASE JsonHandler
    <2>1. \A id \in MadeHandlers' :
            Counted(store'[id].at, store'[id].count) /\ store'[id].count > 0
      BY <1>0, <1>4, StoreCounts DEF JsonHandler
    <2>2. Counted(bound', count')
      BY <1>3, <1>4 DEF JsonHandler
    <2> QED
      BY <2>1, <2>2 DEF CountInv, Counted, BoundAt
  <1>5. CASE ValueHandler
    <2> DEFINE filed == Filed(Entry.id)
               at == [NothingBound EXCEPT ![Whole] = filed]
    <2>1. filed \in Seq(Metric) /\ Len(filed) \in Nat
      BY <1>5, EntryType, FiledType, LenProperties DEF ValueHandler
    <2>2. Store(Entry.id, at, Len(filed))
      BY <1>5 DEF ValueHandler
    <2> HIDE DEF filed
    <2>3. Counted(at, Len(filed))
      <3> DEFINE more == [NothingBound EXCEPT ![Whole] = @ \o filed]
      <3>1. Counted(more, 0 + Len(filed))
        BY <2>1, EmptyIsTyped, NothingCounted, MoreCounted DEF Places
      <3>2. NothingBound[Whole] \o filed = filed
        BY <2>1, ConcatEmptySeq DEF NothingBound, Places
      <3>3. more = at
        BY <3>2
      <3>4. 0 + Len(filed) = Len(filed)
        BY <2>1
      <3> HIDE DEF more, at
      <3> QED
        BY <3>1, <3>3, <3>4
    <2> HIDE DEF at
    <2>4. \A id \in MadeHandlers' :
            Counted(store'[id].at, store'[id].count) /\ store'[id].count > 0
      BY <2>2, <2>3, StoreCounts
    <2>5. Counted(bound', count')
      BY <1>3, <1>5 DEF ValueHandler
    <2> QED
      BY <2>4, <2>5 DEF CountInv, Counted, BoundAt
  <1>6. CASE TextHandler
    <2>1. Counted(bound', count')
      BY <1>3, <1>6 DEF TextHandler
    <2>2. \A id \in MadeHandlers' :
            Counted(store'[id].at, store'[id].count) /\ store'[id].count > 0
      BY <1>6, <1>9 DEF TextHandler
    <2> QED
      BY <2>1, <2>2 DEF CountInv, Counted, BoundAt
  <1>7. CASE ConfigureMetric \/ EndMetrics \/ EndHandlers \/ ConfigureTopic \/ EndTopics
    BY <1>1, <1>7 DEF ConfigureMetric, EndMetrics, EndHandlers, ConfigureTopic,
                      EndTopics, building
  <1>8. CASE UNCHANGED vars
    BY <1>1, <1>8 DEF vars, building
  <1> QED
    BY <1>2, <1>4, <1>5, <1>6, <1>7, <1>8 DEF Next

(***************************************************************************)
(* The metric count of every handler that is made, from whatever file, is  *)
(* the number of its metrics, and is not zero: on_message reserves by it.  *)
(***************************************************************************)
THEOREM CountsAreBound == Spec => []CountIsBound
PROOF
  <1>1. Init => CountInv
    <2> SUFFICES ASSUME Init  PROVE CountInv
      OBVIOUS
    <2>1. Counted(bound, count)
      BY NothingCounted DEF Init
    <2>2. MadeHandlers = {}
      BY DEF Init, MadeHandlers
    <2> QED
      BY <2>1, <2>2 DEF CountInv
  <1>2. CountInv => CountIsBound
    BY DEF CountInv, CountIsBound, Counted
  <1> QED
    BY TypeInit, TypeStep, CountStep, <1>1, <1>2, PTL DEF Spec

-----------------------------------------------------------------------------
(***************************************************************************)
(* A metric has one place.  While metrics are made none is bound, and an   *)
(* entry finds no metric of its own among those that are filed.            *)
(***************************************************************************)
Early ==
  stage = "metrics" =>
    /\ MadeHandlers = {}
    /\ bound = NothingBound
    /\ \A id \in HandlerIds : \A m \in ToSet(metrics[id]) : m.entry < entry

LEMMA ConfiguredMetrics ==
  ASSUME TypeOK, ConfigureMetric, NEW id \in HandlerIds
  PROVE  LET new == SetToSeq(MetricsMade(entry, id))
         IN /\ entry \in DOMAIN cfg.metrics
            /\ new \in Seq(Metric) /\ Len(new) <= 1
            /\ ToSet(new) = MetricsMade(entry, id)
            /\ \A x \in ToSet(new) : x.entry = entry /\ x.handler = id /\ x.property # Empty
            /\ metrics'[id] = metrics[id] \o new
            /\ metrics[id] \in Seq(Metric)
PROOF
  <1>1. entry \in DOMAIN cfg.metrics
    <2> DEFINE n == Len(cfg.metrics)
    <2>1. n \in Nat /\ DOMAIN cfg.metrics = 1 .. n /\ entry <= n /\ entry \in Nat \ {0}
      BY FileTypes, Zenon DEF ConfigureMetric, TypeOK
    <2> HIDE DEF n
    <2> QED
      BY <2>1
  <1>2. cfg \in Configs /\ metrics[id] \in Seq(Metric)
    BY DEF TypeOK
  <1>3. /\ SetToSeq(MetricsMade(entry, id)) \in Seq(Metric)
        /\ ToSet(SetToSeq(MetricsMade(entry, id))) = MetricsMade(entry, id)
        /\ Len(SetToSeq(MetricsMade(entry, id))) <= 1
    BY <1>1, <1>2, NewMetrics, Zenon
  <1>4. \A x \in MetricsMade(entry, id) :
          x.entry = entry /\ x.handler = id /\ x.property # Empty
    BY <1>1, <1>2, MetricsMadeAre, Zenon
  <1>5. metrics'[id] = metrics[id] \o SetToSeq(MetricsMade(entry, id))
    BY DEF ConfigureMetric
  <1> QED
    BY <1>1, <1>2, <1>3, <1>4, <1>5

LEMMA EarlyStep == TypeOK /\ Early /\ [Next]_vars => Early'
PROOF
  <1> SUFFICES ASSUME TypeOK, Early, [Next]_vars  PROVE Early'
    OBVIOUS
  <1>1. CASE ConfigureMetric
    <2>1. /\ MadeHandlers = {} /\ bound = NothingBound
          /\ \A id \in HandlerIds : \A m \in ToSet(metrics[id]) : m.entry < entry
      BY <1>1 DEF Early, ConfigureMetric
    <2>2. /\ MadeHandlers' = {} /\ bound' = NothingBound /\ entry' = entry + 1
      BY <1>1, <2>1 DEF ConfigureMetric, MadeHandlers, building
    <2>3. ASSUME NEW id \in HandlerIds, NEW m \in ToSet(metrics'[id])
          PROVE  m.entry < entry + 1
      <3> DEFINE new == SetToSeq(MetricsMade(entry, id))
                 old == metrics[id]
      <3>1. /\ new \in Seq(Metric) /\ old \in Seq(Metric) /\ metrics'[id] = old \o new
            /\ \A x \in ToSet(new) : x.entry = entry
        BY <1>1, ConfiguredMetrics, Zenon
      <3>2. \A x \in ToSet(old) : x.entry < entry
        BY <2>1
      <3> HIDE DEF new, old
      <3>3. ToSet(old \o new) = ToSet(old) \cup ToSet(new) /\ ToSet(old) \subseteq Metric
        BY <3>1, ConcatElements, ElementsOf
      <3>4. CASE m \in ToSet(new)
        <4>1. m.entry = entry /\ entry \in Nat
          BY <3>1, <3>4 DEF TypeOK
        <4> QED
          BY <4>1
      <3>5. CASE m \in ToSet(old)
        <4>1. m.entry < entry /\ entry \in Nat /\ m.entry \in Nat
          BY <3>2, <3>3, <3>5 DEF TypeOK, Metric
        <4> QED
          BY <4>1
      <3> QED
        BY <3>1, <3>3, <3>4, <3>5
    <2> QED
      BY <2>2, <2>3 DEF Early, NothingBound
  <1>2. CASE UNCHANGED vars
    BY <1>2 DEF Early, vars, building, MadeHandlers, NothingBound
  <1>3. CASE stage' # "metrics"
    BY <1>3 DEF Early
  <1>4. CASE EndMetrics
    BY <1>3, <1>4 DEF EndMetrics
  <1>5. CASE AddProperty \/ JsonHandler \/ ValueHandler \/ TextHandler \/ EndHandlers
    BY <1>3, <1>5 DEF AddProperty, JsonHandler, ValueHandler, TextHandler, EndHandlers,
                      NextHandler, AtHandler
  <1>6. CASE ConfigureTopic \/ EndTopics
    BY <1>3, <1>6 DEF ConfigureTopic, EndTopics
  <1> QED
    BY <1>1, <1>2, <1>4, <1>5, <1>6 DEF Next

(***************************************************************************)
(* The places of a metric, by what holds them.                             *)
(***************************************************************************)
InFiled(f, m, x) ==
  \E id \in DOMAIN f : \E k \in DOMAIN f[id] :
    f[id][k] = m /\ x = <<"filed", <<id, k>>>>

InBound(b, m, x) ==
  \E p \in DOMAIN b : \E k \in DOMAIN b[p] :
    b[p][k] = m /\ x = <<"bound", <<p, k>>>>

InMade(s, m, x) ==
  \E id \in HandlerIds : s[id] # NotMade /\
    \E p \in DOMAIN s[id].at : \E k \in DOMAIN s[id].at[p] :
      s[id].at[p][k] = m /\ x = <<"made", <<id, <<p, k>>>>>>

IsPosition(f, m, x) ==
  \E i \in DOMAIN f : \E k \in DOMAIN f[i] : f[i][k] = m /\ x = <<i, k>>

LEMMA PositionIs ==
  ASSUME NEW f, NEW m, NEW x
  PROVE  x \in PositionsIn(f, m) <=> IsPosition(f, m, x)
PROOF
  <1>1. x \in PositionsIn(f, m) <=>
          \E i \in DOMAIN f : x \in {i} \X {k \in DOMAIN f[i] : f[i][k] = m}
    BY Zenon DEF PositionsIn
  <1> QED
    BY <1>1 DEF IsPosition

HeldBy(f, b, s, m) ==
  ({"filed"} \X PositionsIn(f, m))
    \cup ({"bound"} \X PositionsIn(b, m))
    \cup ({"made"} \X
           UNION {{id} \X PositionsIn(s[id].at, m) :
                    id \in {i \in HandlerIds : s[i] # NotMade}})

LEMMA HolderIs ==
  ASSUME NEW f, NEW b, NEW s, NEW m, NEW x
  PROVE  x \in HeldBy(f, b, s, m) <=>
           InFiled(f, m, x) \/ InBound(b, m, x) \/ InMade(s, m, x)
PROOF
  <1> DEFINE made == {i \in HandlerIds : s[i] # NotMade}
             all == UNION {{id} \X PositionsIn(s[id].at, m) : id \in made}
  <1>1. x \in {"filed"} \X PositionsIn(f, m) <=> InFiled(f, m, x)
    <2>1. x \in {"filed"} \X PositionsIn(f, m)
            <=> \E y \in PositionsIn(f, m) : x = <<"filed", y>>
      OBVIOUS
    <2>2. \A y : y \in PositionsIn(f, m) <=> IsPosition(f, m, y)
      BY PositionIs, Zenon
    <2>3. x \in {"filed"} \X PositionsIn(f, m)
            <=> \E y : IsPosition(f, m, y) /\ x = <<"filed", y>>
      BY <2>1, <2>2, Zenon
    <2> QED
      BY <2>3, Zenon DEF InFiled, IsPosition
  <1>2. x \in {"bound"} \X PositionsIn(b, m) <=> InBound(b, m, x)
    <2>1. x \in {"bound"} \X PositionsIn(b, m)
            <=> \E y \in PositionsIn(b, m) : x = <<"bound", y>>
      OBVIOUS
    <2>2. \A y : y \in PositionsIn(b, m) <=> IsPosition(b, m, y)
      BY PositionIs, Zenon
    <2>3. x \in {"bound"} \X PositionsIn(b, m)
            <=> \E y : IsPosition(b, m, y) /\ x = <<"bound", y>>
      BY <2>1, <2>2, Zenon
    <2> QED
      BY <2>3, Zenon DEF InBound, IsPosition
  <1>3. x \in {"made"} \X all <=> InMade(s, m, x)
    <2>1. x \in {"made"} \X all <=> \E y \in all : x = <<"made", y>>
      OBVIOUS
    <2>2. \A y : y \in all <=>
            \E id \in made : \E z \in PositionsIn(s[id].at, m) : y = <<id, z>>
      <3>1. \A y : y \in all <=> \E id \in made : y \in {id} \X PositionsIn(s[id].at, m)
        BY Zenon
      <3> QED
        BY <3>1
    <2>3. \A id, z : z \in PositionsIn(s[id].at, m) <=> IsPosition(s[id].at, m, z)
      BY PositionIs, Zenon
    <2> HIDE DEF all
    <2>4. ASSUME x \in {"made"} \X all  PROVE InMade(s, m, x)
      <3>1. PICK y \in all : x = <<"made", y>>
        BY <2>1, <2>4
      <3>2. PICK id \in made : \E z \in PositionsIn(s[id].at, m) : y = <<id, z>>
        BY <2>2, <3>1
      <3>3. PICK z \in PositionsIn(s[id].at, m) : y = <<id, z>>
        BY <3>2
      <3>4. IsPosition(s[id].at, m, z)
        BY <2>3, <3>3, Zenon
      <3>5. id \in HandlerIds /\ s[id] # NotMade /\ x = <<"made", <<id, z>>>>
        BY <3>1, <3>3
      <3> HIDE DEF made
      <3> QED
        BY <3>4, <3>5, Zenon DEF InMade, IsPosition
    <2>5. ASSUME InMade(s, m, x)  PROVE x \in {"made"} \X all
      <3>1. PICK id \in HandlerIds : s[id] # NotMade /\
              \E p \in DOMAIN s[id].at : \E k \in DOMAIN s[id].at[p] :
                s[id].at[p][k] = m /\ x = <<"made", <<id, <<p, k>>>>>>
        BY <2>5 DEF InMade
      <3>2. id \in made
        BY <3>1
      <3>3. PICK p \in DOMAIN s[id].at : \E k \in DOMAIN s[id].at[p] :
                s[id].at[p][k] = m /\ x = <<"made", <<id, <<p, k>>>>>>
        BY <3>1
      <3>4. PICK k \in DOMAIN s[id].at[p] :
                s[id].at[p][k] = m /\ x = <<"made", <<id, <<p, k>>>>>>
        BY <3>3
      <3>5. <<p, k>> \in PositionsIn(s[id].at, m)
        BY <2>3, <3>4, Zenon DEF IsPosition
      <3>6. <<id, <<p, k>>>> \in all
        BY <2>2, <3>2, <3>5, Zenon
      <3> QED
        BY <2>1, <3>4, <3>6
    <2> QED
      BY <2>4, <2>5
  <1>4. HeldBy(f, b, s, m) = ({"filed"} \X PositionsIn(f, m))
           \cup ({"bound"} \X PositionsIn(b, m)) \cup ({"made"} \X all)
    BY DEF HeldBy
  <1> QED
    BY <1>1, <1>2, <1>3, <1>4

LEMMA HeldIs ==
  ASSUME NEW m
  PROVE  /\ Held(m) = HeldBy(metrics, bound, store, m)
         /\ Held(m)' = HeldBy(metrics', bound', store', m)
BY Zenon DEF Held, HeldBy, MadeHandlers, PositionsIn

One(S) == \A x, y \in S : x = y

LEMMA NothingHeld == ASSUME NEW m, NEW x  PROVE ~ InBound(NothingBound, m, x)
PROOF
  <1>1. \A p \in DOMAIN NothingBound : DOMAIN NothingBound[p] = {}
    BY EmptyDomain DEF NothingBound
  <1> QED
    BY <1>1, Zenon DEF InBound

LEMMA OneConfigured ==
  ASSUME TypeOK, Early, ConfigureMetric, NEW m, One(Held(m))
  PROVE  One(Held(m)')
PROOF
  <1> DEFINE Old(i) == metrics[i]
             New(i) == SetToSeq(MetricsMade(entry, i))
  <1>1. /\ MadeHandlers' = {} /\ bound' = NothingBound
        /\ DOMAIN metrics' = HandlerIds /\ DOMAIN metrics = HandlerIds
        /\ entry \in Nat
    BY DEF Early, ConfigureMetric, building, MadeHandlers, TypeOK
  <1>2. \A x : x \in Held(m)' <=> InFiled(metrics', m, x)
    <2>1. \A x : x \in Held(m)' <=> \/ InFiled(metrics', m, x)
                                    \/ InBound(bound', m, x)
                                    \/ InMade(store', m, x)
      <3>1. Held(m)' = HeldBy(metrics', bound', store', m)
        BY HeldIs, Zenon
      <3>2. \A x : x \in HeldBy(metrics', bound', store', m) <=>
                     \/ InFiled(metrics', m, x)
                     \/ InBound(bound', m, x)
                     \/ InMade(store', m, x)
        BY HolderIs, Zenon
      <3> QED
        BY <3>1, <3>2, Zenon
    <2>2. \A x : ~ InBound(bound', m, x)
      BY <1>1, NothingHeld
    <2>3. \A x : ~ InMade(store', m, x)
      <3>1. \A id \in HandlerIds : store'[id] = NotMade
        BY <1>1 DEF MadeHandlers
      <3> QED
        BY <3>1, Zenon DEF InMade
    <2> QED
      BY <2>1, <2>2, <2>3, Zenon
  <1>3. \A i \in HandlerIds :
          /\ Old(i) \in Seq(Metric) /\ New(i) \in Seq(Metric) /\ Len(New(i)) <= 1
          /\ metrics'[i] = Old(i) \o New(i)
          /\ \A x \in ToSet(New(i)) : x.entry = entry /\ x.handler = i
          /\ \A x \in ToSet(Old(i)) : x.entry < entry
    <2>1. \A i \in HandlerIds : \A x \in ToSet(Old(i)) : x.entry < entry
      BY DEF Early, ConfigureMetric
    <2> QED
      BY <2>1, ConfiguredMetrics, Zenon
  <1> DEFINE IsOld(i, k) == k \in DOMAIN Old(i) /\ Old(i)[k] = m /\ m.entry < entry
             IsNew(i, k) == k = Len(Old(i)) + 1 /\ i = m.handler /\ m.entry = entry
  <1>4. ASSUME NEW i \in HandlerIds, NEW k \in DOMAIN metrics'[i], metrics'[i][k] = m
        PROVE  IsOld(i, k) \/ IsNew(i, k)
    <2> DEFINE old == Old(i)
               new == New(i)
    <2>1. /\ old \in Seq(Metric) /\ new \in Seq(Metric) /\ Len(new) <= 1
          /\ metrics'[i] = old \o new
          /\ \A x \in ToSet(new) : x.entry = entry /\ x.handler = i
          /\ \A x \in ToSet(old) : x.entry < entry
      BY <1>3
    <2> HIDE DEF old, new
    <2>2. /\ old \o new \in Seq(Metric)
          /\ Len(old \o new) = Len(old) + Len(new)
          /\ Len(old) \in Nat /\ Len(new) \in Nat
          /\ DOMAIN old = 1 .. Len(old) /\ DOMAIN new = 1 .. Len(new)
          /\ \A j \in 1 .. Len(old) + Len(new) :
               (old \o new)[j] = IF j <= Len(old) THEN old[j] ELSE new[j - Len(old)]
      BY <2>1, ConcatProperties, LenProperties
    <2>3. k \in 1 .. Len(old) + Len(new)
      <3>1. DOMAIN (old \o new) = 1 .. Len(old \o new)
        BY <2>2, LenProperties
      <3> QED
        BY <1>4, <2>1, <2>2, <3>1
    <2>4. CASE k <= Len(old)
      <3>1. k \in DOMAIN old /\ old[k] = m
        BY <1>4, <2>1, <2>2, <2>3, <2>4
      <3>2. m \in ToSet(old)
        BY <3>1 DEF ToSet
      <3> QED
        BY <2>1, <3>1, <3>2 DEF old
    <2>5. CASE ~ (k <= Len(old))
      <3>1. k - Len(old) \in DOMAIN new /\ k = Len(old) + 1
        BY <2>1, <2>2, <2>3, <2>5
      <3>2. new[k - Len(old)] = m
        BY <1>4, <2>1, <2>2, <2>3, <2>5
      <3>3. m \in ToSet(new)
        BY <3>1, <3>2 DEF ToSet
      <3>4. m.entry = entry /\ m.handler = i
        BY <2>1, <3>3
      <3> QED
        BY <3>1, <3>4 DEF old
    <2> QED
      BY <2>4, <2>5
  <1>5. SUFFICES ASSUME NEW x, NEW y, x \in Held(m)', y \in Held(m)'  PROVE x = y
    BY Zenon DEF One
  <1>6. PICK i \in HandlerIds : \E k \in DOMAIN metrics'[i] :
          metrics'[i][k] = m /\ x = <<"filed", <<i, k>>>>
    BY <1>1, <1>2, <1>5 DEF InFiled
  <1>61. PICK k \in DOMAIN metrics'[i] :
          metrics'[i][k] = m /\ x = <<"filed", <<i, k>>>>
    BY <1>6
  <1>7. PICK j \in HandlerIds : \E l \in DOMAIN metrics'[j] :
          metrics'[j][l] = m /\ y = <<"filed", <<j, l>>>>
    BY <1>1, <1>2, <1>5 DEF InFiled
  <1>71. PICK l \in DOMAIN metrics'[j] :
          metrics'[j][l] = m /\ y = <<"filed", <<j, l>>>>
    BY <1>7
  <1>8. CASE IsOld(i, k) /\ IsOld(j, l)
    <2>1. InFiled(metrics, m, x) /\ InFiled(metrics, m, y)
      BY <1>1, <1>61, <1>71, <1>8, Zenon DEF InFiled
    <2>2. x \in Held(m) /\ y \in Held(m)
      <3>1. Held(m) = HeldBy(metrics, bound, store, m)
        BY HeldIs, Zenon
      <3>2. x \in HeldBy(metrics, bound, store, m) /\ y \in HeldBy(metrics, bound, store, m)
        BY <2>1, HolderIs, Zenon
      <3> QED
        BY <3>1, <3>2, Zenon
    <2> QED
      BY <2>2 DEF One
  <1>9. CASE IsNew(i, k) /\ IsNew(j, l)
    BY <1>61, <1>71, <1>9
  <1>10. ~ (IsOld(i, k) /\ IsNew(j, l)) /\ ~ (IsNew(i, k) /\ IsOld(j, l))
    BY <1>1
  <1> QED
    BY <1>4, <1>61, <1>71, <1>8, <1>9, <1>10

(***************************************************************************)
(* Storing a handler moves to it what was at places[k], which no place has *)
(* any more.                                                               *)
(***************************************************************************)
Moves(from, f, b, s, f2, s2, m) ==
  /\ \A x, y : <<x, y>> \in from => x[1] = "made" /\ ~ InFiled(f2, m, y) /\ y[1] # "made"
  /\ \A x, z, y : <<x, y>> \in from /\ <<z, y>> \in from => x = z
  /\ \A x : InFiled(f2, m, x) => InFiled(f, m, x)
  /\ \A x : InMade(s2, m, x) =>
        \/ InMade(s, m, x)
        \/ \E y : <<x, y>> \in from /\ (InFiled(f, m, y) \/ InBound(b, m, y))

LEMMA OneStored ==
  ASSUME NEW f, NEW b, NEW s, NEW f2, NEW b2, NEW s2, NEW m, NEW from,
         One(HeldBy(f, b, s, m)), b2 = NothingBound,
         Moves(from, f, b, s, f2, s2, m)
  PROVE  One(HeldBy(f2, b2, s2, m))
PROOF
  <1>0. /\ \A x, y : <<x, y>> \in from => x[1] = "made" /\ ~ InFiled(f2, m, y) /\ y[1] # "made"
        /\ \A x, z, y : <<x, y>> \in from /\ <<z, y>> \in from => x = z
        /\ \A x : InFiled(f2, m, x) => InFiled(f, m, x)
        /\ \A x : InMade(s2, m, x) =>
              \/ InMade(s, m, x)
              \/ \E y : <<x, y>> \in from /\ (InFiled(f, m, y) \/ InBound(b, m, y))
    BY Zenon DEF Moves
  <1> SUFFICES ASSUME NEW x, NEW z, x \in HeldBy(f2, b2, s2, m), z \in HeldBy(f2, b2, s2, m)
               PROVE  x = z
    BY Zenon DEF One
  <1>1. ASSUME NEW w, w \in HeldBy(f2, b2, s2, m)
        PROVE  InFiled(f2, m, w) \/ InMade(s2, m, w)
    BY <1>1, HolderIs, NothingHeld, Zenon
  <1>2. ASSUME NEW w, w \in HeldBy(f2, b2, s2, m)
        PROVE  \/ w \in HeldBy(f, b, s, m) /\ (InFiled(f2, m, w) \/ w[1] = "made")
               \/ \E y \in HeldBy(f, b, s, m) : <<w, y>> \in from
    <2>1. CASE InFiled(f2, m, w)
      BY <1>0, <2>1, HolderIs, Zenon
    <2>2. CASE InMade(s, m, w)
      <3>1. w[1] = "made"
        BY <2>2 DEF InMade
      <3> QED
        BY <2>2, <3>1, HolderIs, Zenon
    <2>3. CASE \E y : <<w, y>> \in from /\ (InFiled(f, m, y) \/ InBound(b, m, y))
      BY <2>3, HolderIs, Zenon
    <2> QED
      BY <1>0, <1>1, <1>2, <2>1, <2>2, <2>3, Zenon
  <1>3. \A u, v \in HeldBy(f, b, s, m) : u = v
    BY Zenon DEF One
  <1>4. ASSUME NEW u, NEW v, u \in HeldBy(f, b, s, m), InFiled(f2, m, u) \/ u[1] = "made",
               \E y \in HeldBy(f, b, s, m) : <<v, y>> \in from
        PROVE  FALSE
    <2>1. PICK y \in HeldBy(f, b, s, m) : <<v, y>> \in from
      BY <1>4
    <2>2. y = u
      BY <1>3, <1>4, <2>1, Zenon
    <2> QED
      BY <1>0, <1>4, <2>1, <2>2, Zenon
  <1>5. CASE /\ \E y \in HeldBy(f, b, s, m) : <<x, y>> \in from
             /\ \E y \in HeldBy(f, b, s, m) : <<z, y>> \in from
    <2>1. PICK y \in HeldBy(f, b, s, m) : <<x, y>> \in from
      BY <1>5
    <2>2. PICK w \in HeldBy(f, b, s, m) : <<z, w>> \in from
      BY <1>5
    <2>3. w = y
      BY <1>3, <2>1, <2>2, Zenon
    <2> QED
      BY <1>0, <2>1, <2>2, <2>3, Zenon
  <1> QED
    BY <1>2, <1>3, <1>4, <1>5, Zenon

\* What is in a store after Store that was not there before.
StoredAs(id, at, m, x) ==
  /\ id \in HandlerIds
  /\ \E p \in DOMAIN at : \E k \in DOMAIN at[p] :
       at[p][k] = m /\ x = <<"made", <<id, <<p, k>>>>>>

LEMMA StoredIs ==
  ASSUME NEW id, NEW at, NEW n, Store(id, at, n), NEW m, NEW x, InMade(store', m, x)
  PROVE  InMade(store, m, x) \/ StoredAs(id, at, m, x)
PROOF
  <1>1. PICK i \in HandlerIds : store'[i] # NotMade /\
          \E p \in DOMAIN store'[i].at : \E k \in DOMAIN store'[i].at[p] :
            store'[i].at[p][k] = m /\ x = <<"made", <<i, <<p, k>>>>>>
    BY DEF InMade
  <1>2. CASE i = id /\ i # Empty /\ store[i] = NotMade /\ n > 0
    <2>1. store'[i] = [at |-> at, count |-> n]
      BY <1>2 DEF Store
    <2>2. store'[i].at = at
      BY <2>1
    <2> QED
      BY <1>1, <1>2, <2>2, Zenon DEF StoredAs
  <1>3. CASE ~ (i = id /\ i # Empty /\ store[i] = NotMade /\ n > 0)
    <2>1. store'[i] = store[i]
      BY <1>3 DEF Store
    <2> QED
      BY <1>1, <2>1, Zenon DEF InMade
  <1> QED
    BY <1>2, <1>3

LEMMA OneWithJson ==
  ASSUME TypeOK, JsonHandler, NEW m, One(Held(m))
  PROVE  One(Held(m)')
PROOF
  <1> DEFINE id == Entry.id
             from == {<< <<"made", <<id, q>>>>, <<"bound", q>> >> : q \in PositionsIn(bound, m)}
  <1>1. Held(m) = HeldBy(metrics, bound, store, m) /\ Held(m)' = HeldBy(metrics', bound', store', m)
    BY HeldIs, Zenon
  <1>2. metrics' = metrics /\ bound' = NothingBound /\ Store(id, bound, count)
    BY DEF JsonHandler, NextHandler
  <1>3. \A x, y : <<x, y>> \in from <=>
          \E q \in PositionsIn(bound, m) : x = <<"made", <<id, q>>>> /\ y = <<"bound", q>>
    OBVIOUS
  <1> HIDE DEF from, id
  <1>4. \A x, y : <<x, y>> \in from => x[1] = "made" /\ y[1] = "bound"
    BY <1>3
  <1>5. \A x : InFiled(metrics', m, x) => x[1] = "filed"
    BY DEF InFiled
  <1>6. \A x, y : <<x, y>> \in from => x[1] = "made" /\ ~ InFiled(metrics', m, y) /\ y[1] # "made"
    BY <1>4, <1>5
  <1>7. \A x, z, y : <<x, y>> \in from /\ <<z, y>> \in from => x = z
    BY <1>3
  <1>8. \A x : InFiled(metrics', m, x) => InFiled(metrics, m, x)
    BY <1>2
  <1>9. ASSUME NEW x, InMade(store', m, x)
        PROVE  \/ InMade(store, m, x)
               \/ \E y : <<x, y>> \in from /\ (InFiled(metrics, m, y) \/ InBound(bound, m, y))
    <2>1. CASE StoredAs(id, bound, m, x)
      <3>1. PICK p \in DOMAIN bound : \E k \in DOMAIN bound[p] :
                 bound[p][k] = m /\ x = <<"made", <<id, <<p, k>>>>>>
        BY <2>1, Zenon DEF StoredAs
      <3>2. PICK k \in DOMAIN bound[p] : bound[p][k] = m /\ x = <<"made", <<id, <<p, k>>>>>>
        BY <3>1
      <3>3. <<p, k>> \in PositionsIn(bound, m)
        <4>1. IsPosition(bound, m, <<p, k>>)
          BY <3>2, Zenon DEF IsPosition
        <4> QED
          BY <4>1, PositionIs, Zenon
      <3>4. <<x, <<"bound", <<p, k>>>>>> \in from
        BY <1>3, <3>2, <3>3, Zenon
      <3>5. InBound(bound, m, <<"bound", <<p, k>>>>)
        BY <3>2, Zenon DEF InBound
      <3> QED
        BY <3>4, <3>5, Zenon
    <2>2. InMade(store, m, x) \/ StoredAs(id, bound, m, x)
      BY <1>2, <1>9, StoredIs
    <2> QED
      BY <2>1, <2>2
  <1>10. One(HeldBy(metrics', bound', store', m))
    <2> DEFINE f2 == metrics'
               b2 == bound'
               s2 == store'
    <2>0. One(HeldBy(metrics, bound, store, m))
      BY <1>1, Zenon
    <2>1. b2 = NothingBound
      BY <1>2
    <2>2. \A x, y : <<x, y>> \in from => x[1] = "made" /\ ~ InFiled(f2, m, y) /\ y[1] # "made"
      BY <1>6
    <2>3. \A x : InFiled(f2, m, x) => InFiled(metrics, m, x)
      BY <1>8
    <2>4. \A x : InMade(s2, m, x) =>
            \/ InMade(store, m, x)
            \/ \E y : <<x, y>> \in from /\ (InFiled(metrics, m, y) \/ InBound(bound, m, y))
      BY <1>9, Zenon
    <2> HIDE DEF f2, b2, s2
    <2>5. Moves(from, metrics, bound, store, f2, s2, m)
      BY <2>2, <2>3, <2>4, <1>7, Zenon DEF Moves
    <2>6. One(HeldBy(f2, b2, s2, m))
      BY <2>0, <2>1, <2>5, OneStored, Zenon
    <2> QED
      BY <2>6 DEF f2, b2, s2
  <1> QED
    BY <1>1, <1>10, Zenon

LEMMA OneWithValue ==
  ASSUME TypeOK, ValueHandler, NEW m, One(Held(m))
  PROVE  One(Held(m)')
PROOF
  <1> DEFINE id == Entry.id
             filed == Filed(id)
             at == [NothingBound EXCEPT ![Whole] = filed]
             from == {<< <<"made", <<id, <<Whole, k>>>>>>, <<"filed", <<id, k>>>> >> :
                        k \in DOMAIN filed}
  <1>1. Held(m) = HeldBy(metrics, bound, store, m) /\ Held(m)' = HeldBy(metrics', bound', store', m)
    BY HeldIs, Zenon
  <1>2. /\ metrics' = [i \in HandlerIds |-> IF i = id THEN <<>> ELSE metrics[i]]
        /\ bound' = NothingBound /\ Store(id, at, Len(filed))
        /\ DOMAIN metrics = HandlerIds
    BY DEF ValueHandler, NextHandler, TypeOK
  <1>3. \A x, y : <<x, y>> \in from <=>
          \E k \in DOMAIN filed : x = <<"made", <<id, <<Whole, k>>>>>> /\ y = <<"filed", <<id, k>>>>
    OBVIOUS
  <1>4. filed = metrics[id]
    BY DEF Filed
  <1>5. /\ Whole \in Places /\ DOMAIN at = Places /\ at[Whole] = filed
        /\ \A p \in Places : p # Whole => DOMAIN at[p] = {}
    BY EmptyDomain DEF NothingBound, Places
  <1> HIDE DEF from, id, filed, at
  <1>6. ASSUME NEW x, InFiled(metrics', m, x)
        PROVE  InFiled(metrics, m, x) /\ x[1] = "filed" /\ x[2][1] # id
    <2>1. PICK i \in HandlerIds : \E k \in DOMAIN metrics'[i] :
            metrics'[i][k] = m /\ x = <<"filed", <<i, k>>>>
      BY <1>2, <1>6 DEF InFiled
    <2>2. PICK k \in DOMAIN metrics'[i] : metrics'[i][k] = m /\ x = <<"filed", <<i, k>>>>
      BY <2>1
    <2>3. i # id
      <3>1. i = id => DOMAIN metrics'[i] = {}
        BY <1>2, EmptyDomain
      <3> QED
        BY <2>2, <3>1
    <2>4. metrics'[i] = metrics[i]
      BY <1>2, <2>3
    <2>5. InFiled(metrics, m, x)
      BY <1>2, <2>2, <2>4, Zenon DEF InFiled
    <2> QED
      BY <2>2, <2>3, <2>5
  <1>7. \A x, y : <<x, y>> \in from => x[1] = "made" /\ ~ InFiled(metrics', m, y) /\ y[1] # "made"
    <2>1. \A x, y : <<x, y>> \in from => x[1] = "made" /\ y[1] = "filed" /\ y[2][1] = id
      BY <1>3
    <2> QED
      BY <1>6, <2>1
  <1>8. \A x, z, y : <<x, y>> \in from /\ <<z, y>> \in from => x = z
    BY <1>3
  <1>9. ASSUME NEW x, InMade(store', m, x)
        PROVE  \/ InMade(store, m, x)
               \/ \E y : <<x, y>> \in from /\ (InFiled(metrics, m, y) \/ InBound(bound, m, y))
    <2>1. CASE StoredAs(id, at, m, x)
      <3>1. PICK p \in DOMAIN at : \E k \in DOMAIN at[p] :
                 at[p][k] = m /\ x = <<"made", <<id, <<p, k>>>>>>
        BY <2>1, Zenon DEF StoredAs
      <3>2. PICK k \in DOMAIN at[p] : at[p][k] = m /\ x = <<"made", <<id, <<p, k>>>>>>
        BY <3>1
      <3>3. p = Whole
        BY <1>5, <3>2
      <3>4. k \in DOMAIN filed /\ filed[k] = m /\ x = <<"made", <<id, <<Whole, k>>>>>>
        BY <1>5, <3>2, <3>3
      <3>5. <<x, <<"filed", <<id, k>>>>>> \in from
        BY <1>3, <3>4, Zenon
      <3>6. InFiled(metrics, m, <<"filed", <<id, k>>>>)
        BY <1>2, <1>4, <2>1, <3>4, Zenon DEF InFiled, StoredAs
      <3> QED
        BY <3>5, <3>6, Zenon
    <2>2. InMade(store, m, x) \/ StoredAs(id, at, m, x)
      BY <1>2, <1>9, StoredIs
    <2> QED
      BY <2>1, <2>2
  <1>10. One(HeldBy(metrics', bound', store', m))
    <2> DEFINE f2 == metrics'
               b2 == bound'
               s2 == store'
    <2>0. One(HeldBy(metrics, bound, store, m))
      BY <1>1, Zenon
    <2>1. b2 = NothingBound
      BY <1>2
    <2>2. \A x, y : <<x, y>> \in from => x[1] = "made" /\ ~ InFiled(f2, m, y) /\ y[1] # "made"
      BY <1>7
    <2>3. \A x : InFiled(f2, m, x) => InFiled(metrics, m, x)
      BY <1>6, Zenon
    <2>4. \A x : InMade(s2, m, x) =>
            \/ InMade(store, m, x)
            \/ \E y : <<x, y>> \in from /\ (InFiled(metrics, m, y) \/ InBound(bound, m, y))
      BY <1>9, Zenon
    <2> HIDE DEF f2, b2, s2
    <2>5. Moves(from, metrics, bound, store, f2, s2, m)
      BY <2>2, <2>3, <2>4, <1>8, Zenon DEF Moves
    <2>6. One(HeldBy(f2, b2, s2, m))
      BY <2>0, <2>1, <2>5, OneStored, Zenon
    <2> QED
      BY <2>6 DEF f2, b2, s2
  <1> QED
    BY <1>1, <1>10, Zenon

LEMMA PicksOnce ==
  ASSUME NEW g, NEW t, NEW s, NEW n \in Nat, Picks(g, t, s, n), Len(t) \in Nat,
         NEW i \in 1 .. Len(t), NEW j \in 1 .. Len(t), g[i] = g[j]
  PROVE  i = j
PROOF
  <1>1. /\ g[i] \in 1 .. n /\ g[j] \in 1 .. n
        /\ i < j => g[i] < g[j]
        /\ j < i => g[j] < g[i]
    BY DEF Picks
  <1> QED
    BY <1>1

LEMMA OneWithProperty ==
  ASSUME TypeOK, AddProperty, NEW m, One(Held(m))
  PROVE  One(Held(m)')
PROOF
  <1> DEFINE p == Entry.properties[nextProperty]
             id == Entry.id
             filed == Filed(id)
             S == WithProperty(filed, Name(p))
             R == ToSet(filed) \ S
             taken == Those(filed, S)
             left == Those(filed, R)
             place == p.pointer
             b == bound[place]
             n == Len(b)
  <1>1. Held(m) = HeldBy(metrics, bound, store, m) /\ Held(m)' = HeldBy(metrics', bound', store', m)
    BY HeldIs, Zenon
  <1>2. store' = store /\ DOMAIN metrics = HandlerIds /\ DOMAIN bound = Places
    BY DEF AddProperty, TypeOK
  <1>3. CASE UNCHANGED <<metrics, bound>>
    BY <1>1, <1>2, <1>3
  <1>4. CASE /\ Binds
             /\ metrics' = [i \in HandlerIds |-> IF i = id THEN left ELSE metrics[i]]
             /\ bound' = [bound EXCEPT ![place] = @ \o taken]
    <2>0. id \in HandlerIds
      BY EntryType DEF AddProperty
    <2>1. filed \in Seq(Metric) /\ Len(filed) \in Nat
      BY <2>0, FiledType, LenProperties
    <2>2. place \in Places
      BY <1>4, PropertyType DEF AddProperty, Binds
    <2>3. b \in Seq(Metric)
      BY <2>2 DEF TypeOK
    <2>4. filed = metrics[id]
      BY DEF Filed
    <2> HIDE DEF filed, S, place, b, id
    <2>6. left \in Seq(Metric \cap R) /\ taken \in Seq(Metric \cap S)
      BY <2>1, ThoseType
    <2>7. PICK g : Picks(g, left, filed, Len(filed))
      BY <2>1, ThosePicked
    <2>8. PICK h : Picks(h, taken, filed, Len(filed))
      BY <2>1, ThosePicked
    <2> HIDE DEF left, taken
    <2>9. /\ Len(left) \in Nat /\ DOMAIN left = 1 .. Len(left)
          /\ \A i \in 1 .. Len(left) : left[i] \in R
          /\ Len(taken) \in Nat /\ DOMAIN taken = 1 .. Len(taken)
          /\ \A i \in 1 .. Len(taken) : taken[i] \in S
          /\ n \in Nat /\ DOMAIN b = 1 .. n
      BY <2>3, <2>6, LenProperties, ElementOfSeq
    <2>10. /\ \A i \in 1 .. Len(left) : g[i] \in 1 .. Len(filed) /\ left[i] = filed[g[i]]
           /\ \A i \in 1 .. Len(taken) : h[i] \in 1 .. Len(filed) /\ taken[i] = filed[h[i]]
      BY <2>7, <2>8 DEF Picks
    <2>11. /\ DOMAIN (b \o taken) = 1 .. (n + Len(taken))
           /\ \A k \in 1 .. (n + Len(taken)) :
                (b \o taken)[k] = IF k <= n THEN b[k] ELSE taken[k - n]
      <3>1. taken \in Seq(Metric)
        <4>1. Metric \cap S \in SUBSET Metric
          OBVIOUS
        <4> QED
          BY <2>6, <4>1, SeqOfMore
      <3>2. /\ b \o taken \in Seq(Metric) /\ Len(b \o taken) = n + Len(taken)
            /\ \A k \in 1 .. Len(b) + Len(taken) :
                (b \o taken)[k] = IF k <= Len(b) THEN b[k] ELSE taken[k - Len(b)]
        BY <2>3, <3>1, ConcatProperties
      <3> QED
        BY <3>2, LenProperties
    <2> HIDE DEF n
    <2> DEFINE Kept(x, y) == y = x /\ (x[1] = "filed" => x[2][1] # id)
               Left(x, y) == \E i \in 1 .. Len(left) :
                               x = <<"filed", <<id, i>>>> /\ y = <<"filed", <<id, g[i]>>>>
               Taken(x, y) == \E i \in 1 .. Len(taken) :
                               x = <<"bound", <<place, n + i>>>> /\ y = <<"filed", <<id, h[i]>>>>
               From(x, y) == Kept(x, y) \/ Left(x, y) \/ Taken(x, y)
    <2>12. ASSUME NEW x, InFiled(metrics', m, x)
           PROVE  \E y : InFiled(metrics, m, y) /\ From(x, y)
      <3>1. PICK i \in HandlerIds : \E k \in DOMAIN metrics'[i] :
              metrics'[i][k] = m /\ x = <<"filed", <<i, k>>>>
        BY <1>4, <2>12 DEF InFiled
      <3>2. PICK k \in DOMAIN metrics'[i] : metrics'[i][k] = m /\ x = <<"filed", <<i, k>>>>
        BY <3>1
      <3>3. CASE i = id
        <4>1. metrics'[i] = left /\ id \in HandlerIds
          BY <1>4, <3>3
        <4>2. k \in 1 .. Len(left) /\ left[k] = m
          BY <2>9, <3>2, <4>1
        <4>3. g[k] \in DOMAIN metrics[id] /\ metrics[id][g[k]] = m
          <5>1. DOMAIN filed = 1 .. Len(filed)
            BY <2>1, LenProperties
          <5> QED
            BY <2>4, <2>10, <4>1, <4>2, <5>1
        <4>4. InFiled(metrics, m, <<"filed", <<id, g[k]>>>>)
          BY <1>2, <4>1, <4>3, Zenon DEF InFiled
        <4>5. Left(x, <<"filed", <<id, g[k]>>>>)
          BY <3>2, <3>3, <4>2
        <4> QED
          BY <4>4, <4>5
      <3>4. CASE i # id
        <4>1. metrics'[i] = metrics[i]
          BY <1>4, <3>4
        <4>2. InFiled(metrics, m, x)
          BY <1>2, <3>2, <4>1, Zenon DEF InFiled
        <4>3. Kept(x, x)
          BY <3>2, <3>4
        <4> QED
          BY <4>2, <4>3
      <3> QED
        BY <3>3, <3>4
    <2>13. ASSUME NEW x, InBound(bound', m, x)
           PROVE  \E y : (InFiled(metrics, m, y) \/ InBound(bound, m, y)) /\ From(x, y)
      <3>1. PICK q \in Places : \E k \in DOMAIN bound'[q] :
              bound'[q][k] = m /\ x = <<"bound", <<q, k>>>>
        BY <1>2, <1>4, <2>13 DEF InBound
      <3>2. PICK k \in DOMAIN bound'[q] : bound'[q][k] = m /\ x = <<"bound", <<q, k>>>>
        BY <3>1
      <3>3. Kept(x, x)
        BY <3>2
      <3>4. CASE q # place
        <4>1. bound'[q] = bound[q]
          BY <1>2, <1>4, <3>4
        <4>2. InBound(bound, m, x)
          BY <1>2, <3>2, <4>1, Zenon DEF InBound
        <4> QED
          BY <3>3, <4>2
      <3>5. CASE q = place
        <4>1. bound'[q] = b \o taken
          BY <1>2, <1>4, <2>2, <3>5 DEF b
        <4>2. k \in 1 .. (n + Len(taken)) /\ m = IF k <= n THEN b[k] ELSE taken[k - n]
          BY <2>11, <3>2, <4>1
        <4>3. CASE k <= n
          <5>1. k \in DOMAIN bound[q] /\ bound[q][k] = m
            BY <2>9, <3>5, <4>2, <4>3 DEF b
          <5>2. InBound(bound, m, x)
            BY <1>2, <3>2, <5>1, Zenon DEF InBound
          <5> QED
            BY <3>3, <5>2
        <4>4. CASE ~ (k <= n)
          <5> DEFINE i == k - n
          <5>1. i \in 1 .. Len(taken) /\ taken[i] = m /\ n + i = k
            BY <2>9, <4>2, <4>4
          <5> HIDE DEF i
          <5>2. id \in HandlerIds
            BY <2>0
          <5>3. h[i] \in DOMAIN metrics[id] /\ metrics[id][h[i]] = m
            <6>1. DOMAIN filed = 1 .. Len(filed)
              BY <2>1, LenProperties
            <6> QED
              BY <2>4, <2>10, <5>1, <5>2, <6>1
          <5>4. InFiled(metrics, m, <<"filed", <<id, h[i]>>>>)
            BY <1>2, <5>2, <5>3, Zenon DEF InFiled
          <5>5. Taken(x, <<"filed", <<id, h[i]>>>>)
            BY <3>2, <3>5, <5>1
          <5> QED
            BY <5>4, <5>5
        <4> QED
          BY <4>3, <4>4
      <3> QED
        BY <3>4, <3>5
    <2>14. ASSUME NEW x, InMade(store, m, x)  PROVE Kept(x, x)
      BY <2>14 DEF InMade
    <2>15. ASSUME NEW x, NEW z, NEW y, From(x, y), From(z, y)  PROVE x = z
      <3>1. CASE Kept(x, y) \/ Kept(z, y)
        BY <2>15, <3>1
      <3>2. CASE Left(x, y) /\ Left(z, y)
        <4>1. PICK i \in 1 .. Len(left) :
                x = <<"filed", <<id, i>>>> /\ y = <<"filed", <<id, g[i]>>>>
          BY <3>2
        <4>2. PICK j \in 1 .. Len(left) :
                z = <<"filed", <<id, j>>>> /\ y = <<"filed", <<id, g[j]>>>>
          BY <3>2
        <4>3. g[i] = g[j]
          BY <4>1, <4>2
        <4>4. i = j
          BY <2>1, <2>7, <2>9, <4>3, PicksOnce
        <4> QED
          BY <4>1, <4>2, <4>4
      <3>3. CASE Taken(x, y) /\ Taken(z, y)
        <4>1. PICK i \in 1 .. Len(taken) :
                x = <<"bound", <<place, n + i>>>> /\ y = <<"filed", <<id, h[i]>>>>
          BY <3>3
        <4>2. PICK j \in 1 .. Len(taken) :
                z = <<"bound", <<place, n + j>>>> /\ y = <<"filed", <<id, h[j]>>>>
          BY <3>3
        <4>3. h[i] = h[j]
          BY <4>1, <4>2
        <4>4. i = j
          BY <2>1, <2>8, <2>9, <4>3, PicksOnce
        <4> QED
          BY <4>1, <4>2, <4>4
      <3>4. ASSUME NEW u, NEW v, Left(u, y), Taken(v, y)  PROVE FALSE
        <4>1. PICK i \in 1 .. Len(left) : y = <<"filed", <<id, g[i]>>>>
          BY <3>4
        <4>2. PICK j \in 1 .. Len(taken) : y = <<"filed", <<id, h[j]>>>>
          BY <3>4
        <4>3. g[i] = h[j]
          BY <4>1, <4>2
        <4>4. left[i] = taken[j]
          BY <2>10, <4>3
        <4>5. left[i] \in R /\ taken[j] \in S
          BY <2>9
        <4> QED
          BY <4>4, <4>5
      <3> HIDE DEF Kept, Left, Taken
      <3> QED
        BY <2>15, <3>1, <3>2, <3>3, <3>4
    <2> DEFINE H == HeldBy(metrics, bound, store, m)
               H2 == HeldBy(metrics', bound', store', m)
    <2>16. \A x \in H2 : \E y \in H : From(x, y)
      <3> SUFFICES ASSUME NEW x \in H2  PROVE \E y \in H : From(x, y)
        OBVIOUS
      <3>1. InFiled(metrics', m, x) \/ InBound(bound', m, x) \/ InMade(store', m, x)
        BY HolderIs, Zenon
      <3>2. \E y : /\ InFiled(metrics, m, y) \/ InBound(bound, m, y) \/ InMade(store, m, y)
                   /\ From(x, y)
        <4> HIDE DEF Kept, Left, Taken
        <4> QED
          BY <1>2, <2>12, <2>13, <2>14, <3>1
      <3> HIDE DEF From
      <3> QED
        BY <3>2, HolderIs, Zenon
    <2>17. \A x, y \in H : x = y
      BY <1>1, Zenon DEF One
    <2> HIDE DEF H, H2, From
    <2>18. \A x, z \in H2 : x = z
      <3> SUFFICES ASSUME NEW x \in H2, NEW z \in H2  PROVE x = z
        OBVIOUS
      <3>1. PICK y \in H : From(x, y)
        BY <2>16
      <3>2. PICK w \in H : From(z, w)
        BY <2>16
      <3>3. w = y
        BY <2>17
      <3> QED
        BY <2>15, <3>1, <3>2, <3>3
    <2> QED
      BY <1>1, <2>18, Zenon DEF One, H2
  <1> QED
    BY <1>3, <1>4, PropertyCases, Zenon DEF MoveTo, LeftFiled

OnePlace == \A m \in AllMade : One(Held(m))

LEMMA FileKept ==
  ASSUME [Next]_vars
  PROVE  UNCHANGED <<cfg, AllMade>>
PROOF
  <1>1. cfg' = cfg
    BY DEF Next, vars, ConfigureMetric, EndMetrics, AddProperty, JsonHandler, ValueHandler,
           TextHandler, EndHandlers, ConfigureTopic, EndTopics, NextHandler
  <1>2. AllMade' = AllMade
    BY <1>1 DEF AllMade, MetricsMade, FirstWith
  <1> QED
    BY <1>1, <1>2

LEMMA OnePlaceStep == TypeOK /\ Early /\ OnePlace /\ [Next]_vars => OnePlace'
PROOF
  <1> SUFFICES ASSUME TypeOK, Early, OnePlace, [Next]_vars  PROVE OnePlace'
    OBVIOUS
  <1>a. AllMade' = AllMade
    BY FileKept
  <1> SUFFICES ASSUME NEW m \in AllMade  PROVE One(Held(m)')
    BY <1>a DEF OnePlace, One
  <1>0. One(Held(m))
    BY DEF OnePlace
  <1>1. /\ Held(m) = HeldBy(metrics, bound, store, m)
        /\ Held(m)' = HeldBy(metrics', bound', store', m)
    BY HeldIs, Zenon
  <1>2. CASE ConfigureMetric
    BY <1>0, <1>2, OneConfigured
  <1>3. CASE AddProperty
    BY <1>0, <1>3, OneWithProperty
  <1>4. CASE JsonHandler
    BY <1>0, <1>4, OneWithJson
  <1>5. CASE ValueHandler
    BY <1>0, <1>5, OneWithValue
  <1>6. CASE TextHandler
    <2>1. metrics' = metrics /\ store' = store /\ bound' = NothingBound
      BY <1>6 DEF TextHandler, NextHandler
    <2>2. HeldBy(metrics', bound', store', m) \subseteq HeldBy(metrics, bound, store, m)
      <3> SUFFICES ASSUME NEW x, x \in HeldBy(metrics', bound', store', m)
                   PROVE  x \in HeldBy(metrics, bound, store, m)
        OBVIOUS
      <3>1. InFiled(metrics, m, x) \/ InMade(store, m, x)
        BY <2>1, HolderIs, NothingHeld, Zenon
      <3> QED
        BY <3>1, HolderIs, Zenon
    <2> QED
      BY <1>0, <1>1, <2>2 DEF One
  <1>7. CASE UNCHANGED <<metrics, bound, store>>
    BY <1>0, <1>1, <1>7
  <1>8. CASE EndMetrics \/ EndHandlers \/ ConfigureTopic \/ EndTopics \/ UNCHANGED vars
    BY <1>7, <1>8 DEF EndMetrics, EndHandlers, ConfigureTopic, EndTopics, vars, building
  <1> QED
    BY <1>2, <1>3, <1>4, <1>5, <1>6, <1>8 DEF Next

(***************************************************************************)
(* Whatever the file, a metric is in one place: filed, at one pointer of   *)
(* the handler that is being made, or at one pointer of one that is made.  *)
(***************************************************************************)
THEOREM MetricsHaveOnePlace == Spec => []MetricHasOnePlace
PROOF
  <1>1. Init => Early /\ OnePlace
    <2> SUFFICES ASSUME Init  PROVE Early /\ OnePlace
      OBVIOUS
    <2>1. MadeHandlers = {} /\ bound = NothingBound
      BY DEF Init, MadeHandlers
    <2>2. \A id \in HandlerIds : metrics[id] = <<>> /\ DOMAIN metrics[id] = {}
      BY EmptyDomain DEF Init
    <2>3. Early
      BY <2>1, <2>2, EmptyElements DEF Early
    <2>4. \A m, x : ~ (x \in HeldBy(metrics, bound, store, m))
      <3> SUFFICES ASSUME NEW m, NEW x, x \in HeldBy(metrics, bound, store, m)  PROVE FALSE
        BY Zenon
      <3>1. InFiled(metrics, m, x) \/ InBound(bound, m, x) \/ InMade(store, m, x)
        BY HolderIs, Zenon
      <3>2. ~ InBound(bound, m, x)
        BY <2>1, NothingHeld
      <3>3. ~ InMade(store, m, x)
        <4>1. \A id \in HandlerIds : store[id] = NotMade
          BY DEF Init
        <4> QED
          BY <4>1, Zenon DEF InMade
      <3>4. ~ InFiled(metrics, m, x)
        <4>1. DOMAIN metrics = HandlerIds
          BY DEF Init
        <4> QED
          BY <2>2, <4>1 DEF InFiled
      <3> QED
        BY <3>1, <3>2, <3>3, <3>4
    <2>5. ASSUME NEW m  PROVE Held(m) = HeldBy(metrics, bound, store, m)
      BY HeldIs, Zenon
    <2>6. OnePlace
      BY <2>4, <2>5 DEF OnePlace, One
    <2> QED
      BY <2>3, <2>6
  <1>2. OnePlace => MetricHasOnePlace
    <2> SUFFICES ASSUME OnePlace, NEW m \in AllMade  PROVE Cardinality(Held(m)) <= 1
      BY DEF MetricHasOnePlace
    <2> DEFINE H == Held(m)
    <2>1. \A x, y \in H : x = y
      BY DEF OnePlace, One
    <2> HIDE DEF H
    <2>2. CASE H = {}
      BY <2>2, FS_EmptySet DEF H
    <2>3. CASE H # {}
      <3>1. PICK x \in H : TRUE
        BY <2>3
      <3>2. H = {x}
        BY <2>1, <3>1
      <3>3. Cardinality(H) = 1
        BY <3>2, FS_Singleton
      <3> QED
        BY <3>3 DEF H
    <2> QED
      BY <2>2, <2>3
  <1> QED
    BY TypeInit, TypeStep, EarlyStep, OnePlaceStep, <1>1, <1>2, PTL DEF Spec

-----------------------------------------------------------------------------
(***************************************************************************)
(* What is subscribed to is handled.  There are the topic entries there    *)
(* have been, and the handlers they add for a filter.                      *)
(***************************************************************************)
PastTopics ==
  {i \in DOMAIN cfg.topics :
     /\ cfg.host /\ stage \in {"topics", "done"}
     /\ stage = "topics" => i < entry}

Adds(i, id, f) ==
  /\ id \in ToSet(cfg.topics[i].handlers)
  /\ f \in ToSet(cfg.topics[i].filters) \cap ValidFilters

Added(f) == {id \in MadeHandlers : \E i \in PastTopics : Adds(i, id, f)}

HandlersOf(lists) == UNION {ToSet(hs) : hs \in ToSet(lists)}

FiltersAre(f) ==
  /\ f \in ToSet(subscriptions) <=> topics[f] # <<>>
  /\ <<>> \notin ToSet(topics[f])
  /\ HandlersOf(topics[f]) = Added(f)

TopicsInv ==
  /\ Ascends(subscriptions)
  /\ stage \in {"handlers", "topics"} => cfg.host
  /\ \A f \in Filters : FiltersAre(f)

LEMMA AppendElements ==
  ASSUME NEW T, NEW s \in Seq(T), NEW e \in T
  PROVE  ToSet(Append(s, e)) = ToSet(s) \cup {e}
PROOF
  <1> DEFINE t == Append(s, e)
  <1>1. /\ t \in Seq(T) /\ Len(s) \in Nat /\ Len(t) = Len(s) + 1
        /\ \A n \in 1 .. Len(s) : t[n] = s[n]
        /\ t[Len(s) + 1] = e
    BY AppendProperties, LenProperties
  <1> HIDE DEF t
  <1>2. /\ ToSet(s) = {s[i] : i \in 1 .. Len(s)}
        /\ ToSet(t) = {t[i] : i \in 1 .. Len(t)}
    BY <1>1, ElementsOf
  <1>3. 1 .. Len(t) = (1 .. Len(s)) \cup {Len(s) + 1}
    BY <1>1
  <1>4. ToSet(t) = ToSet(s) \cup {e}
    BY <1>1, <1>2, <1>3
  <1> QED
    BY <1>4 DEF t

LEMMA EmptyIfNone ==
  ASSUME NEW T, NEW s \in Seq(T)
  PROVE  s = <<>> <=> ToSet(s) = {}
PROOF
  <1>1. Len(s) \in Nat /\ (Len(s) = 0 <=> s = <<>>) /\ ToSet(s) = {s[i] : i \in 1 .. Len(s)}
    BY EmptySeq, LenProperties, ElementsOf
  <1>2. CASE Len(s) = 0
    BY <1>1, <1>2, EmptyElements
  <1>3. CASE Len(s) # 0
    <2>1. 1 \in 1 .. Len(s)
      BY <1>1, <1>3
    <2> QED
      BY <1>1, <1>3, <2>1
  <1> QED
    BY <1>2, <1>3

LEMMA MaxIs == Max(Filters) \in Nat /\ \A f \in Filters : f \in 1 .. Max(Filters)
PROOF
  <1>1. Filters \in SUBSET Nat /\ IsFiniteSet(Filters) /\ Filters # {} /\ 0 \notin Filters
    BY ConfigAssumption
  <1> DEFINE a == Ascending(Filters)
             n == Len(a)
  <1>2. a \in Seq(Filters) /\ Ascends(a) /\ ToSet(a) = Filters
    BY <1>1, AscendingIs
  <1> HIDE DEF a
  <1>3. n \in Nat /\ DOMAIN a = 1 .. n /\ Filters = {a[i] : i \in 1 .. n}
    BY <1>2, LenProperties, ElementsOf
  <1>4. n \in 1 .. n
    BY <1>1, <1>3
  <1>5. a[n] \in Filters
    BY <1>3, <1>4
  <1>6. \A f \in Filters : f <= a[n]
    <2> SUFFICES ASSUME NEW i \in 1 .. n  PROVE a[i] <= a[n]
      BY <1>3
    <2>1. a[i] \in Nat /\ a[n] \in Nat
      BY <1>1, <1>3, <1>5
    <2>2. i = n \/ i < n
      <3> HIDE DEF n
      <3> QED
        BY <1>3
    <2>3. i < n => a[i] < a[n]
      BY <1>2, <1>3, <1>4 DEF Ascends
    <2> QED
      BY <2>1, <2>2, <2>3
  <1>7. \E x \in Filters : \A y \in Filters : x >= y
    <2>1. \A y \in Filters : a[n] >= y
      BY <1>1, <1>5, <1>6
    <2> QED
      BY <1>5, <2>1
  <1>8. Max(Filters) \in Filters /\ \A y \in Filters : Max(Filters) >= y
    BY <1>7 DEF Max
  <1> DEFINE max == Max(Filters)
  <1>9. max \in Nat /\ \A f \in Filters : f \in Nat /\ f # 0 /\ max >= f
    BY <1>1, <1>8
  <1> HIDE DEF max
  <1>10. max \in Nat /\ \A f \in Filters : f \in 1 .. max
    BY <1>9
  <1> QED
    BY <1>10 DEF max

LEMMA FindIs ==
  ASSUME TypeOK, NEW t
  PROVE  /\ Find(t) \in Seq(HandlerIds)
         /\ ToSet(Find(t)) = UNION {HandlersOf(topics[f]) : f \in {g \in Filters : Matches(g, t)}}
PROOF
  <1> DEFINE N == Max(Filters)
             L == Seq(HandlerIds)
             seqs == [f \in 1 .. N |-> IF f \in Filters /\ Matches(f, t) THEN topics[f] ELSE <<>>]
             lists == FlattenSeq(seqs)
  <1>1. N \in Nat /\ \A f \in Filters : f \in 1 .. N
    BY MaxIs
  <1>2. \A f \in 1 .. N : seqs[f] = IF f \in Filters /\ Matches(f, t) THEN topics[f] ELSE <<>>
    OBVIOUS
  <1>3. \A f \in Filters : topics[f] \in Seq(L)
    BY DEF TypeOK
  <1>4. <<>> \in Seq(L)
    BY EmptySeq
  <1>5. seqs \in [1 .. N -> Seq(L)]
    <2> HIDE DEF L, N
    <2> QED
      BY <1>3, <1>4
  <1> HIDE DEF seqs, N
  <1>6. seqs \in Seq(Seq(L)) /\ Len(seqs) = N
    BY <1>1, <1>5, SeqDef
  <1>7. /\ lists \in Seq(L)
        /\ ToSet(lists) = UNION {ToSet(seqs[f]) : f \in 1 .. N}
    <2> HIDE DEF L
    <2> QED
      BY <1>6, FlattenType, FlattenElements
  <1>8. Find(t) = FlattenSeq(lists)
    BY Zenon DEF Find, seqs, N
  <1> HIDE DEF lists
  <1>9. /\ FlattenSeq(lists) \in Seq(HandlerIds)
        /\ ToSet(FlattenSeq(lists)) = UNION {ToSet(lists[i]) : i \in 1 .. Len(lists)}
    BY <1>7, FlattenType, FlattenElements
  <1>10. ToSet(lists) = {lists[i] : i \in 1 .. Len(lists)}
    BY <1>7, ElementsOf
  <1>11. ToSet(FlattenSeq(lists)) = UNION {ToSet(hs) : hs \in ToSet(lists)}
    BY <1>9, <1>10
  <1>12. \A hs : hs \in ToSet(lists) <=>
           \E f \in Filters : Matches(f, t) /\ hs \in ToSet(topics[f])
    <2>1. \A f \in 1 .. N : ToSet(seqs[f]) = IF f \in Filters /\ Matches(f, t)
                                             THEN ToSet(topics[f]) ELSE {}
      BY <1>2, EmptyElements
    <2>2. \A hs : hs \in ToSet(lists) <=> \E f \in 1 .. N : hs \in ToSet(seqs[f])
      BY <1>7
    <2> QED
      BY <1>1, <2>1, <2>2
  <1>13. \A id : id \in ToSet(Find(t)) <=>
           \E f \in Filters : Matches(f, t) /\ \E hs \in ToSet(topics[f]) : id \in ToSet(hs)
    BY <1>8, <1>11, <1>12
  <1>14. \A f, id : id \in HandlersOf(topics[f]) <=> \E hs \in ToSet(topics[f]) : id \in ToSet(hs)
    BY DEF HandlersOf
  <1> QED
    BY <1>8, <1>9, <1>13, <1>14

LEMMA TopicsKept ==
  ASSUME TopicsInv, UNCHANGED <<topics, subscriptions>>,
         (stage \in {"handlers", "topics"} => cfg.host)',
         \A f \in Filters : Added(f)' = Added(f)
  PROVE  TopicsInv'
PROOF
  <1>1. \A f \in Filters : FiltersAre(f)'
    <2> SUFFICES ASSUME NEW f \in Filters  PROVE FiltersAre(f)'
      OBVIOUS
    <2>1. /\ f \in ToSet(subscriptions) <=> topics[f] # <<>>
          /\ <<>> \notin ToSet(topics[f])
          /\ HandlersOf(topics[f]) = Added(f)
      BY DEF TopicsInv, FiltersAre
    <2>2. /\ f \in ToSet(subscriptions') <=> topics'[f] # <<>>
          /\ <<>> \notin ToSet(topics'[f])
          /\ HandlersOf(topics'[f]) = Added(f)'
      BY <2>1
    <2> QED
      BY <2>2, Zenon DEF FiltersAre, HandlersOf
  <1>2. Ascends(subscriptions')
    BY DEF TopicsInv
  <1> QED
    BY <1>1, <1>2 DEF TopicsInv, Ascends

LEMMA NoneAdded ==
  ASSUME NEW f
  PROVE  /\ stage \in {"metrics", "handlers"} => Added(f) = {}
         /\ stage' \in {"metrics", "handlers"} => Added(f)' = {}
         /\ ~ cfg.host => Added(f) = {}
         /\ ~ cfg'.host => Added(f)' = {}
         /\ stage' = "topics" /\ entry' = 1 /\ cfg' \in Configs => Added(f)' = {}
PROOF
  <1>1. stage \in {"metrics", "handlers"} \/ ~ cfg.host => PastTopics = {}
    BY DEF PastTopics
  <1>2. stage' \in {"metrics", "handlers"} \/ ~ cfg'.host => PastTopics' = {}
    BY DEF PastTopics
  <1>3. ASSUME stage' = "topics", entry' = 1, cfg' \in Configs  PROVE PastTopics' = {}
    <2>1. cfg'.topics \in Seq(TopicEntry)
      BY <1>3, ConfigAssumption DEF Config
    <2>2. DOMAIN cfg'.topics = 1 .. Len(cfg'.topics)
      BY <2>1, LenProperties
    <2>3. \A i \in DOMAIN cfg'.topics : ~ (i < 1)
      BY <2>2
    <2> QED
      BY <1>3, <2>3 DEF PastTopics
  <1> QED
    BY <1>1, <1>2, <1>3 DEF Added

LEMMA TopicAdded ==
  ASSUME TypeOK, TopicsInv, ConfigureTopic, NEW f \in Filters
  PROVE  LET e == cfg.topics[entry]
         IN Added(f)' = Added(f) \cup
              IF f \in ToSet(e.filters) \cap ValidFilters THEN ToSet(Made(e.handlers)) ELSE {}
PROOF
  <1> DEFINE e == cfg.topics[entry]
  <1>1. /\ stage = "topics" /\ stage' = "topics" /\ cfg.host /\ cfg' = cfg
        /\ store' = store /\ entry' = entry + 1
    BY DEF ConfigureTopic, TopicsInv
  <1>2. /\ entry \in DOMAIN cfg.topics
        /\ ToSet(Made(e.handlers)) = ToSet(e.handlers) \cap MadeHandlers
    BY TopicType DEF ConfigureTopic
  <1>3. Len(cfg.topics) \in Nat /\ DOMAIN cfg.topics = 1 .. Len(cfg.topics) /\ entry \in Nat
    BY FileTypes, Zenon DEF TypeOK
  <1>4. PastTopics' = PastTopics \cup {entry}
    <2> DEFINE n == Len(cfg.topics)
    <2>1. \A i \in 1 .. n : i < entry + 1 <=> i < entry \/ i = entry
      <3> HIDE DEF n
      <3> QED
        BY <1>3 DEF n
    <2>2. PastTopics = {i \in 1 .. n : i < entry}
      BY <1>1, <1>3 DEF PastTopics
    <2>3. PastTopics' = {i \in 1 .. n : i < entry + 1}
      BY <1>1, <1>3 DEF PastTopics
    <2>4. entry \in 1 .. n
      BY <1>2, <1>3
    <2> HIDE DEF n
    <2> QED
      BY <2>1, <2>2, <2>3, <2>4
  <1>5. /\ MadeHandlers' = MadeHandlers
        /\ \A i, id : Adds(i, id, f)' <=> Adds(i, id, f)
    BY <1>1 DEF MadeHandlers, Adds
  <1>6. Added(f)' = Added(f) \cup {id \in MadeHandlers : Adds(entry, id, f)}
    <2>1. Added(f)' = {id \in MadeHandlers : \E i \in PastTopics \cup {entry} : Adds(i, id, f)}
      BY <1>4, <1>5 DEF Added
    <2> QED
      BY <2>1 DEF Added
  <1>7. {id \in MadeHandlers : Adds(entry, id, f)}
          = IF f \in ToSet(e.filters) \cap ValidFilters THEN ToSet(Made(e.handlers)) ELSE {}
    BY <1>2 DEF Adds
  <1> QED
    BY <1>6, <1>7

LEMMA TopicsStep == TypeOK /\ TopicsInv /\ [Next]_vars => TopicsInv'
PROOF
  <1> SUFFICES ASSUME TypeOK, TopicsInv, [Next]_vars  PROVE TopicsInv'
    OBVIOUS
  <1>0. /\ Ascends(subscriptions)
        /\ stage \in {"handlers", "topics"} => cfg.host
        /\ \A f \in Filters : FiltersAre(f)
    BY DEF TopicsInv
  <1>1. CASE ConfigureTopic
    <2> DEFINE e == cfg.topics[entry]
               handlers == Made(e.handlers)
               filters == ToSet(e.filters) \cap ValidFilters
    <2>1. handlers \in Seq(HandlerIds) /\ filters \in SUBSET Filters
      BY <1>1, TopicType DEF ConfigureTopic
    <2>2. \A f \in Filters : Added(f)' = Added(f) \cup IF f \in filters THEN ToSet(handlers) ELSE {}
      BY <1>1, TopicAdded
    <2>3. (stage \in {"handlers", "topics"} => cfg.host)'
      BY <1>0, <1>1 DEF ConfigureTopic
    <2>4. \/ ~ Handled(handlers) /\ UNCHANGED <<topics, subscriptions>>
          \/ /\ Handled(handlers)
             /\ topics' = [f \in Filters |-> IF f \in filters THEN Append(topics[f], handlers)
                                                              ELSE topics[f]]
             /\ subscriptions' = Subscribe(filters)
      BY <1>1, Zenon DEF ConfigureTopic
    <2> HIDE DEF handlers, filters
    <2>5. CASE ~ Handled(handlers) /\ UNCHANGED <<topics, subscriptions>>
      <3>1. ToSet(handlers) = {}
        BY <2>5, EmptyElements DEF Handled
      <3>2. \A f \in Filters : Added(f)' = Added(f)
        BY <2>2, <3>1
      <3> QED
        BY <2>3, <2>5, <3>2, TopicsKept
    <2>6. CASE /\ Handled(handlers)
               /\ topics' = [f \in Filters |-> IF f \in filters THEN Append(topics[f], handlers)
                                                                ELSE topics[f]]
               /\ subscriptions' = Subscribe(filters)
      <3>1. /\ Ascends(subscriptions')
            /\ ToSet(subscriptions') = ToSet(subscriptions) \cup filters
        BY <2>1, <2>6, SubscribeType
      <3>2. handlers # <<>>
        BY <2>6 DEF Handled
      <3>3. ASSUME NEW f \in Filters  PROVE FiltersAre(f)'
        <4>1. /\ f \in ToSet(subscriptions) <=> topics[f] # <<>>
              /\ <<>> \notin ToSet(topics[f])
              /\ HandlersOf(topics[f]) = Added(f)
          BY <1>0 DEF FiltersAre
        <4>2. /\ f \in ToSet(subscriptions') <=> topics'[f] # <<>>
              /\ <<>> \notin ToSet(topics'[f])
              /\ HandlersOf(topics'[f]) = Added(f)'
          <5>1. CASE f \notin filters
            <6>1. topics'[f] = topics[f] /\ Added(f)' = Added(f)
              BY <2>2, <2>6, <5>1
            <6> QED
              BY <3>1, <4>1, <5>1, <6>1
          <5>2. CASE f \in filters
            <6> DEFINE R == Seq(HandlerIds)
                       old == topics[f]
                       new == topics'[f]
            <6>1. new = Append(old, handlers) /\ Added(f)' = Added(f) \cup ToSet(handlers)
              BY <2>2, <2>6, <5>2
            <6>2. old \in Seq(R) /\ handlers \in R
              BY <2>1 DEF TypeOK
            <6> HIDE DEF R, old, new
            <6>3. ToSet(new) = ToSet(old) \cup {handlers}
              BY <6>1, <6>2, AppendElements
            <6>4. new # <<>>
              BY <6>3, EmptyElements
            <6>5. HandlersOf(new) = HandlersOf(old) \cup ToSet(handlers)
              BY <6>3 DEF HandlersOf
            <6> QED
              BY <3>1, <3>2, <4>1, <5>2, <6>1, <6>3, <6>4, <6>5 DEF old, new
          <5> QED
            BY <5>1, <5>2
        <4> QED
          BY <4>2, Zenon DEF FiltersAre, HandlersOf
      <3> QED
        BY <2>3, <3>1, <3>3 DEF TopicsInv, Ascends
    <2> QED
      BY <2>4, <2>5, <2>6
  <1>2. CASE EndTopics
    <2>1. /\ stage = "topics" /\ stage' = "done" /\ ~ (entry <= Len(cfg.topics))
          /\ UNCHANGED <<cfg, store, topics, subscriptions>>
      <3>1. entry > Len(cfg.topics) => ~ (entry <= Len(cfg.topics))
        <4>1. entry \in Nat /\ Len(cfg.topics) \in Nat
          BY FileTypes, Zenon DEF TypeOK
        <4> DEFINE n == Len(cfg.topics)
        <4> HIDE DEF n
        <4>2. entry > n => ~ (entry <= n)
          BY <4>1 DEF n
        <4> QED
          BY <4>2 DEF n
      <3> QED
        BY <1>2, <3>1 DEF EndTopics
    <2>2. PastTopics' = PastTopics
      <3>1. Len(cfg.topics) \in Nat /\ DOMAIN cfg.topics = 1 .. Len(cfg.topics) /\ entry \in Nat
        BY FileTypes, Zenon DEF TypeOK
      <3> DEFINE n == Len(cfg.topics)
      <3>2. \A i \in 1 .. n : i < entry
        <4>1. n \in Nat /\ entry \in Nat /\ ~ (entry <= n)
          BY <2>1, <3>1
        <4> HIDE DEF n
        <4> QED
          BY <4>1
      <3> QED
        BY <2>1, <3>1, <3>2 DEF PastTopics
    <2>3. \A f \in Filters : Added(f)' = Added(f)
      BY <2>1, <2>2 DEF Added, MadeHandlers, Adds
    <2> QED
      BY <2>1, <2>3, TopicsKept
  <1>3. CASE UNCHANGED vars
    <2>1. UNCHANGED <<cfg, stage, entry, store, topics, subscriptions>>
      BY <1>3 DEF vars
    <2>2. \A f \in Filters : Added(f)' = Added(f)
      BY <2>1 DEF Added, MadeHandlers, Adds, PastTopics
    <2> QED
      BY <1>0, <2>1, <2>2, TopicsKept
  <1>4. CASE EndMetrics \/ EndHandlers
    <2>1. /\ stage \in {"metrics", "handlers"} /\ entry' = 1 /\ cfg' \in Configs
          /\ UNCHANGED <<cfg, topics, subscriptions>>
          /\ stage' \in {"handlers", "topics"} \/ ~ cfg'.host
          /\ (stage \in {"handlers", "topics"} => cfg.host)'
      BY <1>0, <1>4 DEF EndMetrics, EndHandlers, TypeOK
    <2>2. \A f \in Filters : Added(f) = {} /\ Added(f)' = {}
      BY <2>1, NoneAdded
    <2> QED
      BY <2>1, <2>2, TopicsKept
  <1>5. CASE ConfigureMetric \/ AddProperty \/ JsonHandler \/ ValueHandler \/ TextHandler
    <2>1. /\ stage \in {"metrics", "handlers"}
          /\ UNCHANGED <<cfg, stage, topics, subscriptions>>
      BY <1>5 DEF ConfigureMetric, AddProperty, JsonHandler, ValueHandler, TextHandler,
                  NextHandler, AtHandler
    <2>2. \A f \in Filters : Added(f) = {} /\ Added(f)' = {}
      BY <2>1, NoneAdded
    <2> QED
      BY <1>0, <2>1, <2>2, TopicsKept
  <1> QED
    BY <1>1, <1>2, <1>3, <1>4, <1>5 DEF Next

(***************************************************************************)
(* Whatever the file, the filters that are subscribed to are in order and  *)
(* match the topics that find gives handlers for, all of them made; and    *)
(* when all is configured it gives every handler that an entry asks for.   *)
(***************************************************************************)
THEOREM SubscriptionsAreHandled == Spec => []SubscribedIsHandled
PROOF
  <1>1. Init => TopicsInv
    <2> SUFFICES ASSUME Init  PROVE TopicsInv
      OBVIOUS
    <2>1. Ascends(subscriptions) /\ ToSet(subscriptions) = {}
      BY EmptyDomain, EmptyElements DEF Init, Ascends
    <2>2. \A f \in Filters : topics[f] = <<>> /\ HandlersOf(topics[f]) = {}
      BY EmptyElements DEF Init, HandlersOf
    <2>3. \A f : Added(f) = {}
      BY NoneAdded DEF Init
    <2>4. \A f \in Filters : FiltersAre(f)
      BY <2>1, <2>2, <2>3, EmptyElements DEF FiltersAre
    <2> QED
      BY <2>1, <2>4 DEF TopicsInv, Init
  <1>2. TypeOK /\ TopicsInv => SubscribedIsHandled
    <2> SUFFICES ASSUME TypeOK, TopicsInv  PROVE SubscribedIsHandled
      OBVIOUS
    <2>0. \A f \in Filters :
            /\ f \in ToSet(subscriptions) <=> topics[f] # <<>>
            /\ <<>> \notin ToSet(topics[f])
            /\ HandlersOf(topics[f]) = Added(f)
      BY DEF TopicsInv, FiltersAre
    <2>1. Ascends(subscriptions) /\ ToSet(subscriptions) \subseteq Filters
      BY ElementsOf DEF TopicsInv, TypeOK
    <2>2. ASSUME NEW t \in Topics
          PROVE  LET found == ToSet(Find(t))
                 IN /\ found \subseteq MadeHandlers
                    /\ found # {} <=> \E f \in ToSet(subscriptions) : Matches(f, t)
                    /\ stage = "done" /\ cfg.host =>
                         found = {id \in MadeHandlers :
                                    \E e \in ToSet(cfg.topics) : AsksForTopic(e, id, t)}
      <3> DEFINE found == ToSet(Find(t))
      <3>1. \A id : id \in found <=> \E f \in Filters : Matches(f, t) /\ id \in Added(f)
        <4>1. found = UNION {HandlersOf(topics[f]) : f \in {g \in Filters : Matches(g, t)}}
          BY FindIs
        <4> HIDE DEF found
        <4>2. \A id : id \in found <=>
                \E f \in {g \in Filters : Matches(g, t)} : id \in HandlersOf(topics[f])
          BY <4>1, Zenon
        <4> QED
          BY <2>0, <4>2
      <3> HIDE DEF found
      <3>2. found \subseteq MadeHandlers
        BY <3>1 DEF Added
      <3>3. \A f \in Filters : f \in ToSet(subscriptions) <=> Added(f) # {}
        <4> SUFFICES ASSUME NEW f \in Filters
                     PROVE  f \in ToSet(subscriptions) <=> Added(f) # {}
          OBVIOUS
        <4> DEFINE L == Seq(HandlerIds)
                   lists == topics[f]
        <4>1. lists \in Seq(L)
          BY DEF TypeOK
        <4> HIDE DEF L, lists
        <4>2. (lists = <<>> <=> ToSet(lists) = {}) /\ ToSet(lists) \subseteq L
          BY <4>1, EmptyIfNone, ElementsOf
        <4>3. \A hs \in ToSet(lists) : hs # <<>> => ToSet(hs) # {}
          BY <4>2, EmptyIfNone DEF L
        <4>4. \A x : x \in HandlersOf(lists) <=> \E hs \in ToSet(lists) : x \in ToSet(hs)
          BY Zenon DEF HandlersOf
        <4>5. /\ f \in ToSet(subscriptions) <=> lists # <<>>
              /\ <<>> \notin ToSet(lists)
              /\ HandlersOf(lists) = Added(f)
          BY <2>0 DEF lists
        <4>6. lists # <<>> <=> HandlersOf(lists) # {}
          <5>1. ASSUME lists # <<>>  PROVE HandlersOf(lists) # {}
            <6>1. PICK hs \in ToSet(lists) : TRUE
              BY <4>2, <5>1
            <6>2. ToSet(hs) # {}
              BY <4>3, <4>5, <6>1
            <6> QED
              BY <4>4, <6>1, <6>2
          <5>2. ASSUME HandlersOf(lists) # {}  PROVE lists # <<>>
            BY <4>2, <4>4, <5>2
          <5> QED
            BY <5>1, <5>2
        <4> QED
          BY <4>5, <4>6
      <3>4. found # {} <=> \E f \in ToSet(subscriptions) : Matches(f, t)
        BY <2>1, <3>1, <3>3
      <3>5. ASSUME stage = "done", cfg.host
            PROVE  found = {id \in MadeHandlers :
                              \E e \in ToSet(cfg.topics) : AsksForTopic(e, id, t)}
        <4>1. PastTopics = DOMAIN cfg.topics
          BY <3>5 DEF PastTopics
        <4>2. \A e : e \in ToSet(cfg.topics) <=> \E i \in DOMAIN cfg.topics : e = cfg.topics[i]
          BY Zenon DEF ToSet
        <4>3. ASSUME NEW id
              PROVE  id \in found <=> /\ id \in MadeHandlers
                                      /\ \E e \in ToSet(cfg.topics) : AsksForTopic(e, id, t)
          <5>1. id \in found <=> \E f \in Filters : Matches(f, t) /\ id \in MadeHandlers
                                   /\ \E i \in DOMAIN cfg.topics : Adds(i, id, f)
            BY <3>1, <4>1 DEF Added
          <5>2. \A i : AsksForTopic(cfg.topics[i], id, t) <=>
                         \E f \in Filters : Matches(f, t) /\ Adds(i, id, f)
            BY ConfigAssumption DEF AsksForTopic, Adds
          <5>3. (\E e \in ToSet(cfg.topics) : AsksForTopic(e, id, t)) <=>
                  \E i \in DOMAIN cfg.topics : AsksForTopic(cfg.topics[i], id, t)
            BY <4>2, Zenon
          <5> QED
            BY <5>1, <5>2, <5>3, Zenon
        <4> QED
          BY <4>3
      <3> QED
        BY <3>2, <3>4, <3>5 DEF found
    <2> QED
      BY <2>1, <2>2, Zenon DEF SubscribedIsHandled, Ascends
  <1> QED
    BY TypeInit, TypeStep, TopicsStep, <1>1, <1>2, PTL DEF Spec

-----------------------------------------------------------------------------
(***************************************************************************)
(* A metric is bound where its handler asks for it.  Metrics are filed     *)
(* under their handler, and only a JSON handler is made in steps.          *)
(***************************************************************************)
Home ==
  /\ \A id \in HandlerIds : \A m \in ToSet(metrics[id]) :
       m.handler = id /\ m.property # Empty
  /\ \A p \in Places : \A m \in ToSet(bound[p]) : m.handler = Entry.id

Resting == bound = NothingBound /\ seen = {} /\ nextProperty = 1

Building == ~ AtHandler("json") => Resting

\* Handlers are made of entries there have been.
Turned ==
  stage = "handlers" =>
    \A id \in MadeHandlers : \E j \in 1 .. entry - 1 : cfg.handlers[j].id = id

\* What a JSON handler has asked for so far is not filed any more ...
SaidSoFar == {k \in 1 .. nextProperty - 1 : IsSaid(Entry.properties[k])}

Asked ==
  /\ seen = {Name(Entry.properties[k]) : k \in SaidSoFar}
  /\ \A k \in 1 .. nextProperty - 1 :
       \A m \in ToSet(metrics[Entry.id]), p \in Places : ~ AsksIn(Entry, k, m, p)

PastHandlers ==
  {i \in DOMAIN cfg.handlers :
     stage # "metrics" /\ cfg.host /\ (stage = "handlers" => i < entry)}

\* ... nor what an entry there has been asks for.
Taken ==
  \A i \in PastHandlers : \A id \in HandlerIds :
    \A m \in ToSet(metrics[id]), p \in Places : ~ AsksAt(cfg.handlers[i], m, p)

\* What is at a place was asked for there.
Placed ==
  /\ \A p \in Places : \A m \in ToSet(bound[p]) :
       AtHandler("json") /\ AsksAt(Entry, m, p)
  /\ \A id \in MadeHandlers : \A p \in Places : \A m \in ToSet(store[id].at[p]) :
       IsAskedAt(m, p)

MadeSoFar == {m \in AllMade : stage = "metrics" => m.entry < entry}

Stored(m) == \E p \in Places : BoundTo(m, p)

Kept(m) ==
  \/ m \in ToSet(metrics[m.handler])
  \/ \E p \in Places : m \in ToSet(bound[p])
  \/ Stored(m)

NoneLost == \A m \in MadeSoFar : HasOneEntry(m.handler) => Kept(m)

AskInv == Home /\ Building /\ Turned /\ Asked /\ Taken /\ Placed /\ NoneLost

LEMMA AllMadeAre ==
  ASSUME TypeOK, NEW m \in AllMade
  PROVE  /\ m \in Metric /\ m.handler \in HandlerIds /\ m.property # Empty
         /\ m.entry \in DOMAIN cfg.metrics /\ m \in MetricsMade(m.entry, m.handler)
PROOF
  <1>1. PICK e \in DOMAIN cfg.metrics : \E id \in HandlerIds : m \in MetricsMade(e, id)
    <2>1. m \in UNION {MetricsMade(e, id) : e \in DOMAIN cfg.metrics, id \in HandlerIds}
      BY DEF AllMade
    <2> QED
      BY <2>1
  <1>2. PICK id \in HandlerIds : m \in MetricsMade(e, id)
    BY <1>1
  <1>3. /\ MetricsMade(e, id) \subseteq Metric
        /\ \A x \in MetricsMade(e, id) : x.entry = e /\ x.handler = id /\ x.property # Empty
    BY MetricsMadeAre, Zenon DEF TypeOK
  <1>4. m \in Metric /\ m.entry = e /\ m.handler = id /\ m.property # Empty
    BY <1>2, <1>3
  <1> QED
    BY <1>2, <1>4

\* What AddProperty changes, if it binds.
LEMMA PropertyAdded ==
  ASSUME TypeOK, AddProperty
  PROVE  LET p == Entry.properties[nextProperty]
             filed == ToSet(metrics[Entry.id])
         IN \/ UNCHANGED <<metrics, bound, count>> /\ (Passed(p) \/ p.pointer \notin Addable)
            \/ /\ Binds
               /\ p.pointer \in Places
               /\ \A id \in HandlerIds :
                    ToSet(metrics'[id]) =
                      IF id = Entry.id THEN {m \in filed : m.property # Name(p)}
                                       ELSE ToSet(metrics[id])
               /\ \A q \in Places :
                    ToSet(bound'[q]) =
                      ToSet(bound[q]) \cup IF q = p.pointer
                                           THEN {m \in filed : m.property = Name(p)} ELSE {}
PROOF
  <1> DEFINE p == Entry.properties[nextProperty]
             name == Name(p)
             filed == Filed(Entry.id)
             S == WithProperty(filed, name)
             R == ToSet(filed) \ S
             taken == Those(filed, S)
             left == Those(filed, R)
             place == p.pointer
  <1>0. SUFFICES ASSUME Binds, MoveTo(place, name)
                 PROVE  /\ place \in Places
                        /\ \A id \in HandlerIds :
                             ToSet(metrics'[id]) =
                               IF id = Entry.id THEN {m \in ToSet(filed) : m.property # name}
                                                ELSE ToSet(metrics[id])
                        /\ \A q \in Places :
                             ToSet(bound'[q]) =
                               ToSet(bound[q]) \cup
                                 IF q = place THEN {m \in ToSet(filed) : m.property = name} ELSE {}
    BY PropertyCases DEF Filed
  <1>1. /\ metrics' = [id \in HandlerIds |-> IF id = Entry.id THEN left ELSE metrics[id]]
        /\ bound' = [bound EXCEPT ![place] = @ \o taken]
    BY <1>0, Zenon DEF MoveTo, LeftFiled
  <1>2. place \in Places
    BY <1>0, PropertyType DEF AddProperty, Binds
  <1>3. filed \in Seq(Metric)
    BY EntryType, FiledType DEF AddProperty
  <1> HIDE DEF filed, S, place, name
  <1>4. ToSet(left) = ToSet(filed) \cap R /\ ToSet(taken) = ToSet(filed) \cap S
    BY <1>3, ThoseSet
  <1>5. taken \in Seq(Metric)
    <2>1. taken \in Seq(Metric \cap S) /\ Metric \cap S \in SUBSET Metric
      BY <1>3, ThoseType
    <2> QED
      BY <2>1, SeqOfMore
  <1> HIDE DEF left, taken
  <1>6. S = {m \in ToSet(filed) : m.property = name}
    BY DEF S, WithProperty
  <1>7. /\ ToSet(left) = {m \in ToSet(filed) : m.property # name}
        /\ ToSet(taken) = {m \in ToSet(filed) : m.property = name}
    BY <1>4, <1>6
  <1>8. \A id \in HandlerIds :
          ToSet(metrics'[id]) = IF id = Entry.id THEN ToSet(left) ELSE ToSet(metrics[id])
    BY <1>1
  <1>9. \A q \in Places :
          ToSet(bound'[q]) = ToSet(bound[q]) \cup IF q = place THEN ToSet(taken) ELSE {}
    <2> SUFFICES ASSUME NEW q \in Places
                 PROVE  ToSet(bound'[q]) =
                          ToSet(bound[q]) \cup IF q = place THEN ToSet(taken) ELSE {}
      OBVIOUS
    <2>1. bound[q] \in Seq(Metric) /\ DOMAIN bound = Places
      BY DEF TypeOK
    <2>2. CASE q = place
      <3> DEFINE b == bound[q]
      <3>1. bound'[q] = b \o taken
        BY <1>1, <2>1, <2>2
      <3> HIDE DEF b
      <3>2. ToSet(b \o taken) = ToSet(b) \cup ToSet(taken)
        BY <1>5, <2>1, ConcatElements DEF b
      <3> QED
        BY <2>2, <3>1, <3>2 DEF b
    <2>3. CASE q # place
      <3>1. bound'[q] = bound[q]
        BY <1>1, <2>1, <2>3
      <3> QED
        BY <2>3, <3>1
    <2> QED
      BY <2>2, <2>3
  <1>10. \A id \in HandlerIds :
          ToSet(metrics'[id]) = IF id = Entry.id THEN {m \in ToSet(filed) : m.property # name}
                                ELSE ToSet(metrics[id])
    BY <1>7, <1>8, Zenon
  <1>11. \A q \in Places :
          ToSet(bound'[q]) = ToSet(bound[q]) \cup
             IF q = place THEN {m \in ToSet(filed) : m.property = name} ELSE {}
    BY <1>7, <1>9, Zenon
  <1> QED
    BY <1>2, <1>10, <1>11

LEMMA Configured ==
  ASSUME TypeOK, ConfigureMetric, NEW id \in HandlerIds
  PROVE  /\ ToSet(metrics'[id]) = ToSet(metrics[id]) \cup MetricsMade(entry, id)
         /\ \A m \in MetricsMade(entry, id) : m.handler = id /\ m.property # Empty
PROOF
  <1> DEFINE new == SetToSeq(MetricsMade(entry, id))
             old == metrics[id]
  <1>1. /\ new \in Seq(Metric) /\ old \in Seq(Metric)
        /\ ToSet(new) = MetricsMade(entry, id)
        /\ \A x \in ToSet(new) : x.handler = id /\ x.property # Empty
        /\ metrics'[id] = old \o new
    BY ConfiguredMetrics, Zenon
  <1> HIDE DEF new, old
  <1>2. ToSet(old \o new) = ToSet(old) \cup ToSet(new)
    BY <1>1, ConcatElements
  <1>3. \A x \in MetricsMade(entry, id) : x.handler = id /\ x.property # Empty
    BY <1>1
  <1> QED
    BY <1>1, <1>2, <1>3 DEF old

LEMMA NothingIn == \A p \in Places : ToSet(NothingBound[p]) = {}
BY EmptyElements DEF NothingBound

\* Storing keeps what is stored.
LEMMA StoreKeeps ==
  ASSUME NEW id, NEW at, NEW n, Store(id, at, n), NEW m, m.handler \in HandlerIds, Stored(m)
  PROVE  Stored(m)'
PROOF
  <1>1. store'[m.handler] = store[m.handler]
    BY DEF Store, Stored, BoundTo
  <1> QED
    BY <1>1 DEF Stored, BoundTo

LEMMA PastEnd ==
  ASSUME TypeOK
  PROVE  /\ entry > Len(cfg.metrics) => ~ (entry <= Len(cfg.metrics))
         /\ entry > Len(cfg.handlers) => ~ (entry <= Len(cfg.handlers))
PROOF
  <1>1. entry \in Nat /\ Len(cfg.metrics) \in Nat /\ Len(cfg.handlers) \in Nat
    BY FileTypes, Zenon DEF TypeOK
  <1> DEFINE n == Len(cfg.metrics)
             l == Len(cfg.handlers)
  <1> HIDE DEF n, l
  <1>2. (entry > n => ~ (entry <= n)) /\ (entry > l => ~ (entry <= l))
    BY <1>1 DEF n, l
  <1> QED
    BY <1>2 DEF n, l

\* Between handlers nothing is bound.
LEMMA Rests ==
  ASSUME TypeOK, Building, [Next]_vars
  PROVE  AddProperty \/ UNCHANGED vars \/ Resting'
PROOF
  <1>1. CASE ConfigureMetric \/ EndMetrics \/ EndHandlers \/ ConfigureTopic \/ EndTopics
    <2>1. ~ AtHandler("json")
      BY <1>1, PastEnd DEF AtHandler, ConfigureMetric, EndMetrics, EndHandlers,
                           ConfigureTopic, EndTopics
    <2>2. Resting
      BY <2>1 DEF Building
    <2>3. UNCHANGED <<bound, seen, nextProperty>>
      BY <1>1 DEF ConfigureMetric, EndMetrics, EndHandlers, ConfigureTopic, EndTopics, building
    <2> QED
      BY <2>2, <2>3 DEF Resting, NothingBound
  <1>2. CASE JsonHandler \/ ValueHandler \/ TextHandler
    <2>1. bound' = NothingBound /\ seen' = {} /\ nextProperty' = 1
      BY <1>2 DEF JsonHandler, ValueHandler, TextHandler, NextHandler
    <2> QED
      BY <2>1 DEF Resting, NothingBound
  <1> QED
    BY <1>1, <1>2 DEF Next

LEMMA BuildingStep == TypeOK /\ Building /\ [Next]_vars => Building'
PROOF
  <1> SUFFICES ASSUME TypeOK, Building, [Next]_vars  PROVE Building'
    OBVIOUS
  <1>1. CASE AddProperty
    BY <1>1 DEF AddProperty, AtHandler, Building
  <1>2. CASE UNCHANGED vars
    BY <1>2 DEF vars, building, Building, AtHandler, Resting, NothingBound
  <1>3. CASE Resting'
    BY <1>3 DEF Building
  <1> QED
    BY <1>1, <1>2, <1>3, Rests

LEMMA HomeStep == TypeOK /\ Building /\ Home /\ [Next]_vars => Home'
PROOF
  <1> SUFFICES ASSUME TypeOK, Building, Home, [Next]_vars  PROVE Home'
    OBVIOUS
  <1>1. ASSUME NEW id \in HandlerIds, NEW m \in ToSet(metrics'[id])
        PROVE  m.handler = id /\ m.property # Empty
    <2>1. \A x \in ToSet(metrics[id]) : x.handler = id /\ x.property # Empty
      BY DEF Home
    <2>2. CASE ConfigureMetric
      BY <1>1, <2>1, <2>2, Configured
    <2>3. CASE AddProperty
      <3>1. CASE UNCHANGED metrics
        BY <1>1, <2>1, <3>1
      <3>2. CASE m \in ToSet(metrics[id])
        BY <2>1, <3>2
      <3> QED
        BY <1>1, <2>3, <3>1, <3>2, PropertyAdded
    <2>4. CASE ValueHandler
      <3>1. metrics'[id] = IF id = Entry.id THEN <<>> ELSE metrics[id]
        BY <2>4 DEF ValueHandler
      <3> QED
        BY <1>1, <2>1, <3>1, EmptyElements
    <2>5. CASE UNCHANGED metrics
      BY <1>1, <2>1, <2>5
    <2> QED
      BY <2>2, <2>3, <2>4, <2>5
         DEF Next, vars, EndMetrics, JsonHandler, TextHandler, EndHandlers, ConfigureTopic,
             EndTopics
  <1>2. ASSUME NEW p \in Places, NEW m \in ToSet(bound'[p])  PROVE m.handler = Entry'.id
    <2>1. \A x \in ToSet(bound[p]) : x.handler = Entry.id
      BY DEF Home
    <2>2. CASE AddProperty
      <3>0. Entry' = Entry
        BY <2>2 DEF AddProperty, Entry
      <3>1. CASE UNCHANGED bound
        BY <1>2, <2>1, <3>0, <3>1
      <3>2. CASE m \in ToSet(bound[p]) \/ m \in ToSet(metrics[Entry.id])
        <4>1. Entry.id \in HandlerIds
          BY <2>2, EntryType DEF AddProperty
        <4> QED
          BY <2>1, <3>0, <3>2, <4>1 DEF Home
      <3> QED
        BY <1>2, <2>2, <3>1, <3>2, PropertyAdded
    <2>3. CASE UNCHANGED vars
      <3>1. bound' = bound /\ Entry' = Entry
        BY <2>3 DEF vars, building, Entry
      <3> QED
        BY <1>2, <2>1, <3>1
    <2>4. CASE Resting'
      <3>1. bound' = NothingBound
        BY <2>4 DEF Resting, NothingBound
      <3> QED
        BY <1>2, <3>1, NothingIn
    <2> QED
      BY <2>2, <2>3, <2>4, Rests
  <1> QED
    BY <1>1, <1>2 DEF Home

LEMMA StoredFrom ==
  ASSUME NEW id, NEW at, NEW n, Store(id, at, n), NEW i \in MadeHandlers'
  PROVE  i \in HandlerIds /\ (i \in MadeHandlers \/ i = id)
BY DEF Store, MadeHandlers

LEMMA TurnedStep == TypeOK /\ Early /\ Turned /\ [Next]_vars => Turned'
PROOF
  <1> SUFFICES ASSUME TypeOK, Early, Turned, [Next]_vars, stage' = "handlers",
                      NEW id \in MadeHandlers'
               PROVE  \E j \in 1 .. entry' - 1 : cfg'.handlers[j].id = id
    BY DEF Turned
  <1>0. entry \in Nat \ {0}
    BY DEF TypeOK
  <1>1. CASE EndMetrics
    <2>1. MadeHandlers' = {}
      BY <1>1 DEF EndMetrics, Early, MadeHandlers
    <2> QED
      BY <2>1
  <1>2. CASE JsonHandler \/ ValueHandler \/ TextHandler
    <2>1. /\ cfg' = cfg /\ entry' = entry + 1 /\ stage = "handlers"
          /\ id \in MadeHandlers \/ id = Entry.id
      BY <1>2, StoredFrom DEF JsonHandler, ValueHandler, TextHandler, NextHandler, AtHandler,
                              MadeHandlers
    <2>2. CASE id = Entry.id
      <3>1. entry \in 1 .. entry' - 1
        BY <1>0, <2>1
      <3> QED
        BY <2>1, <2>2, <3>1 DEF Entry
    <2>3. CASE id \in MadeHandlers
      <3>1. PICK j \in 1 .. entry - 1 : cfg.handlers[j].id = id
        BY <2>1, <2>3 DEF Turned
      <3>2. j \in 1 .. entry' - 1
        BY <1>0, <2>1
      <3> QED
        BY <2>1, <3>1, <3>2
    <2> QED
      BY <2>1, <2>2, <2>3
  <1>3. CASE UNCHANGED <<cfg, stage, entry, store>>
    <2>1. stage = "handlers" /\ id \in MadeHandlers /\ entry' = entry /\ cfg' = cfg
      BY <1>3 DEF MadeHandlers
    <2> QED
      BY <2>1 DEF Turned
  <1>4. CASE AddProperty \/ UNCHANGED vars
    BY <1>3, <1>4 DEF AddProperty, vars
  <1>5. CASE ConfigureMetric \/ EndHandlers \/ ConfigureTopic \/ EndTopics
    BY <1>5 DEF ConfigureMetric, EndHandlers, ConfigureTopic, EndTopics
  <1> QED
    BY <1>1, <1>2, <1>4, <1>5 DEF Next

LEMMA AskedStep == TypeOK /\ Building /\ Asked /\ [Next]_vars => Asked'
PROOF
  <1> SUFFICES ASSUME TypeOK, Building, Asked, [Next]_vars  PROVE Asked'
    OBVIOUS
  <1>1. CASE Resting'
    <2>1. seen' = {} /\ nextProperty' = 1
      BY <1>1 DEF Resting
    <2>2. 1 .. nextProperty' - 1 = {}
      BY <2>1
    <2> QED
      BY <2>1, <2>2 DEF Asked, SaidSoFar
  <1>2. CASE UNCHANGED vars
    <2>1. UNCHANGED <<Entry, nextProperty, seen, metrics>>
      BY <1>2 DEF Entry, vars, building
    <2> QED
      BY <2>1 DEF Asked, SaidSoFar, AsksIn, IsFirst, IsSaid, Name, Places
  <1>3. CASE AddProperty
    <2> DEFINE now == Entry.properties[nextProperty]
    <2>0. Entry' = Entry /\ nextProperty' = nextProperty + 1 /\ nextProperty \in Nat \ {0}
      BY <1>3 DEF AddProperty, Entry, TypeOK
    <2>1. \/ Passed(now) /\ seen' = seen
          \/ ~ Passed(now) /\ seen' = seen \cup {Name(now)}
      BY <1>3, PropertyCases
    <2>2. ToSet(metrics'[Entry.id]) \subseteq ToSet(metrics[Entry.id])
      <3>1. Entry.id \in HandlerIds
        BY <1>3, EntryType DEF AddProperty
      <3> QED
        BY <1>3, <3>1, PropertyAdded
    <2>3. seen' = {Name(Entry.properties[k]) : k \in SaidSoFar'}
      <3>1. SaidSoFar' = SaidSoFar \cup {k \in {nextProperty} : IsSaid(now)}
        <4>1. 1 .. nextProperty' - 1 = (1 .. nextProperty - 1) \cup {nextProperty}
          BY <2>0
        <4> QED
          BY <2>0, <4>1 DEF SaidSoFar, IsSaid, Name
      <3> QED
        BY <2>1, <3>1 DEF Asked, Passed
    <2>4. ASSUME NEW k \in 1 .. nextProperty' - 1, NEW m \in ToSet(metrics'[Entry.id]),
                 NEW p \in Places, AsksIn(Entry, k, m, p)
          PROVE  FALSE
      <3>1. k \in 1 .. nextProperty - 1 \/ k = nextProperty
        BY <2>0
      <3>2. CASE k \in 1 .. nextProperty - 1
        BY <2>2, <2>4, <3>2 DEF Asked
      <3>3. CASE k = nextProperty
        <4>1. /\ IsSaid(now) /\ Name(now) = m.property
              /\ now.pointer \in Addable
              /\ \A j \in 1 .. nextProperty - 1 :
                   IsSaid(Entry.properties[j]) => Name(Entry.properties[j]) # Name(now)
          BY <2>4, <3>3 DEF AsksIn, IsFirst
        <4>2. ~ Passed(now)
          BY <4>1 DEF Passed, Asked, SaidSoFar
        <4>3. Entry.id \in HandlerIds
          BY <1>3, EntryType DEF AddProperty
        <4>4. m.property # Name(now)
          BY <1>3, <2>4, <4>1, <4>2, <4>3, PropertyAdded
        <4> QED
          BY <4>1, <4>4
      <3> QED
        BY <3>1, <3>2, <3>3
    <2> QED
      BY <2>0, <2>3, <2>4 DEF Asked, AsksIn, IsFirst, IsSaid, Name, Places
  <1> QED
    BY <1>1, <1>2, <1>3, Rests

\* After the metrics are made, none is filed.
LEMMA FiledShrinks ==
  ASSUME TypeOK, [Next]_vars, ~ ConfigureMetric, NEW id \in HandlerIds
  PROVE  ToSet(metrics'[id]) \subseteq ToSet(metrics[id])
PROOF
  <1>1. CASE AddProperty
    BY <1>1, PropertyAdded
  <1>2. CASE ValueHandler
    <2>1. metrics'[id] = IF id = Entry.id THEN <<>> ELSE metrics[id]
      BY <1>2 DEF ValueHandler
    <2> QED
      BY <2>1, EmptyElements
  <1>3. CASE UNCHANGED metrics
    BY <1>3
  <1> QED
    BY <1>1, <1>2, <1>3
       DEF Next, vars, EndMetrics, JsonHandler, TextHandler, EndHandlers, ConfigureTopic, EndTopics

LEMMA TakenStep == TypeOK /\ Home /\ Building /\ Asked /\ Taken /\ [Next]_vars => Taken'
PROOF
  <1> SUFFICES ASSUME TypeOK, Home, Building, Asked, Taken, [Next]_vars  PROVE Taken'
    OBVIOUS
  <1>0. cfg' = cfg /\ entry \in Nat
    BY FileKept DEF TypeOK
  <1>1. SUFFICES ASSUME NEW i \in PastHandlers', NEW id \in HandlerIds,
                        NEW m \in ToSet(metrics'[id]), NEW q \in Places
                 PROVE  ~ AsksAt(cfg.handlers[i], m, q)
    BY <1>0 DEF Taken, AsksAt, AsksIn, IsFirst, IsSaid, Name, Places
  <1>2. i \in DOMAIN cfg.handlers /\ stage' # "metrics" /\ cfg.host
          /\ (stage' = "handlers" => i < entry')
    BY <1>0, <1>1 DEF PastHandlers
  <1>3. m \in ToSet(metrics[id])
    <2>1. ~ ConfigureMetric
      BY <1>2 DEF ConfigureMetric
    <2> QED
      BY <1>1, <2>1, FiledShrinks
  <1>4. DOMAIN cfg.handlers = 1 .. Len(cfg.handlers) /\ Len(cfg.handlers) \in Nat
    BY FileTypes, Zenon DEF TypeOK
  <1>5. CASE i \in PastHandlers
    BY <1>3, <1>5 DEF Taken
  <1>6. CASE i \notin PastHandlers
    <2>1. stage = "metrics" \/ (stage = "handlers" /\ ~ (i < entry))
      BY <1>2, <1>6 DEF PastHandlers
    <2> DEFINE n == Len(cfg.handlers)
    <2>2. n \in Nat /\ i \in 1 .. n
      BY <1>2, <1>4
    <2> HIDE DEF n
    <2>3. ~ EndMetrics
      BY <1>0, <1>2, <2>2 DEF EndMetrics
    <2>4. ~ EndHandlers
      <3>1. entry > n => i < entry
        BY <1>0, <2>2
      <3> QED
        BY <2>1, <3>1 DEF EndHandlers, n
    <2>5. ~ (UNCHANGED <<stage, entry>>)
      BY <1>2, <2>1
    <2>6. JsonHandler \/ ValueHandler \/ TextHandler
      BY <1>2, <2>1, <2>3, <2>4, <2>5
         DEF Next, vars, ConfigureMetric, AddProperty, ConfigureTopic, EndTopics
    <2>7. stage = "handlers" /\ stage' = "handlers" /\ entry' = entry + 1
      BY <2>6 DEF JsonHandler, ValueHandler, TextHandler, NextHandler, AtHandler
    <2>8. i = entry
      BY <1>0, <1>2, <2>1, <2>2, <2>7
    <2>9. cfg.handlers[i] = Entry
      BY <2>8 DEF Entry
    <2>10. m.handler = id /\ m.property # Empty
      BY <1>3 DEF Home
    <2>11. CASE JsonHandler
      <3>1. /\ AtHandler("json") /\ nextProperty > Len(Entry.properties)
        BY <2>11 DEF JsonHandler
      <3>3. \A k \in DOMAIN Entry.properties : k \in 1 .. nextProperty - 1
        <4> DEFINE ps == Entry.properties
        <4>1. ps \in Seq([property : Properties \cup {Empty}, pointer : Pointers \cup {Empty}])
          BY <3>1, EntryType DEF HandlerEntry
        <4> HIDE DEF ps
        <4>2. Len(ps) \in Nat /\ DOMAIN ps = 1 .. Len(ps)
          BY <4>1, LenProperties
        <4>3. nextProperty \in Nat /\ nextProperty > Len(ps)
          BY <3>1 DEF TypeOK, ps
        <4>4. \A k \in DOMAIN ps : k \in 1 .. nextProperty - 1
          BY <4>2, <4>3
        <4> QED
          BY <4>4 DEF ps
      <3>4. id = Entry.id => \A k \in DOMAIN Entry.properties : ~ AsksIn(Entry, k, m, q)
        BY <1>3, <3>3 DEF Asked
      <3>5. Entry.type = "json"
        BY <3>1 DEF AtHandler, Entry
      <3> QED
        BY <2>9, <2>10, <3>4, <3>5 DEF AsksAt
    <2>12. CASE ValueHandler
      <3>1. id # Entry.id
        <4>1. metrics'[id] = IF id = Entry.id THEN <<>> ELSE metrics[id]
          BY <2>12 DEF ValueHandler
        <4> QED
          BY <1>1, <4>1, EmptyElements
      <3> QED
        BY <2>9, <2>10, <3>1 DEF AsksAt
    <2>13. CASE TextHandler
      <3>1. Entry.type = "text"
        BY <2>13 DEF TextHandler, AtHandler, Entry
      <3> QED
        BY <2>9, <3>1 DEF AsksAt
    <2> QED
      BY <2>6, <2>11, <2>12, <2>13
  <1> QED
    BY <1>5, <1>6

LEMMA StoredWas ==
  ASSUME TypeOK, NEW id, NEW at, NEW n, Store(id, at, n), NEW i \in MadeHandlers',
         NEW p \in Places, NEW m \in ToSet(store'[i].at[p])
  PROVE  \/ i \in MadeHandlers /\ m \in ToSet(store[i].at[p])
         \/ i = id /\ m \in ToSet(at[p])
PROOF
  <1>1. i \in HandlerIds /\ store'[i] # NotMade
    BY DEF MadeHandlers
  <1>2. CASE i = id /\ i # Empty /\ store[i] = NotMade /\ n > 0
    <2>1. store'[i] = [at |-> at, count |-> n]
      BY <1>1, <1>2 DEF Store
    <2> QED
      BY <1>2, <2>1
  <1>3. CASE ~ (i = id /\ i # Empty /\ store[i] = NotMade /\ n > 0)
    <2>1. store'[i] = store[i]
      BY <1>1, <1>3 DEF Store
    <2> QED
      BY <1>1, <2>1 DEF MadeHandlers
  <1> QED
    BY <1>2, <1>3

LEMMA PlacedStep == TypeOK /\ Home /\ Building /\ Asked /\ Placed /\ [Next]_vars => Placed'
PROOF
  <1> SUFFICES ASSUME TypeOK, Home, Building, Asked, Placed, [Next]_vars  PROVE Placed'
    OBVIOUS
  <1>0. cfg' = cfg
    BY FileKept
  <1>1. \A m, p : IsAskedAt(m, p)' <=> IsAskedAt(m, p)
    BY <1>0 DEF IsAskedAt, AsksAt, AsksIn, IsFirst, IsSaid, Name
  <1>2. ASSUME NEW p \in Places, NEW m \in ToSet(bound'[p])
        PROVE  AtHandler("json")' /\ AsksAt(Entry, m, p)'
    <2>1. m \in ToSet(bound[p]) => AtHandler("json") /\ AsksAt(Entry, m, p)
      BY DEF Placed
    <2>2. CASE AddProperty
      <3> DEFINE now == Entry.properties[nextProperty]
      <3>1. Entry' = Entry /\ AtHandler("json") /\ AtHandler("json")'
        BY <2>2 DEF AddProperty, Entry, AtHandler
      <3>2. SUFFICES AsksAt(Entry, m, p)
        BY <3>1 DEF AsksAt, AsksIn, IsFirst, IsSaid, Name
      <3>3. CASE m \in ToSet(bound[p])
        BY <2>1, <3>3
      <3>4. CASE m \notin ToSet(bound[p])
        <4>1. /\ Binds /\ p = now.pointer /\ m \in ToSet(metrics[Entry.id])
              /\ m.property = Name(now)
          BY <1>2, <2>2, <3>4, PropertyAdded
        <4>2. m.handler = Entry.id
          BY <2>2, <4>1, EntryType DEF Home, AddProperty
        <4>3. nextProperty \in DOMAIN Entry.properties
          BY <2>2, PropertyType DEF AddProperty
        <4>4. IsFirst(Entry, nextProperty)
          <5>1. IsSaid(now) /\ Name(now) \notin seen
            BY <4>1 DEF Binds, Passed
          <5>2. \A j \in 1 .. nextProperty - 1 :
                  IsSaid(Entry.properties[j]) => Name(Entry.properties[j]) \in seen
            BY DEF Asked, SaidSoFar
          <5> QED
            BY <5>1, <5>2 DEF IsFirst
        <4>5. AsksIn(Entry, nextProperty, m, p)
          BY <4>1, <4>4 DEF AsksIn, Binds
        <4>6. Entry.type = "json"
          BY <3>1 DEF AtHandler, Entry
        <4> QED
          BY <4>2, <4>3, <4>5, <4>6 DEF AsksAt
      <3> QED
        BY <3>3, <3>4
    <2>3. CASE UNCHANGED vars
      <3>1. UNCHANGED <<bound, Entry, stage, entry, cfg>>
        BY <2>3 DEF vars, building, Entry
      <3> QED
        BY <1>2, <2>1, <3>1 DEF AtHandler, AsksAt, AsksIn, IsFirst, IsSaid, Name
    <2>4. CASE Resting'
      <3>1. bound' = NothingBound
        BY <2>4 DEF Resting, NothingBound
      <3> QED
        BY <1>2, <3>1, NothingIn
    <2> QED
      BY <2>2, <2>3, <2>4, Rests
  <1>3. ASSUME NEW i \in MadeHandlers', NEW p \in Places, NEW m \in ToSet(store'[i].at[p])
        PROVE  IsAskedAt(m, p)
    <2>1. CASE i \in MadeHandlers /\ m \in ToSet(store[i].at[p])
      BY <2>1 DEF Placed
    <2>2. CASE UNCHANGED store
      BY <1>3, <2>1, <2>2 DEF MadeHandlers
    <2>3. CASE JsonHandler
      <3>1. Store(Entry.id, bound, count) /\ AtHandler("json")
        BY <2>3 DEF JsonHandler
      <3>2. CASE m \in ToSet(bound[p])
        <4>1. AsksAt(Entry, m, p)
          BY <3>2 DEF Placed
        <4>2. entry \in DOMAIN cfg.handlers
          BY <3>1, EntryType
        <4> QED
          BY <4>1, <4>2 DEF IsAskedAt, Entry
      <3> QED
        BY <1>3, <2>1, <3>1, <3>2, StoredWas
    <2>4. CASE ValueHandler
      <3> DEFINE filed == Filed(Entry.id)
                 at == [NothingBound EXCEPT ![Whole] = filed]
      <3>1. /\ Store(Entry.id, at, Len(filed)) /\ AtHandler("value")
            /\ entry \in DOMAIN cfg.handlers /\ Entry.id \in HandlerIds
        BY <2>4, EntryType DEF ValueHandler
      <3>2. CASE m \in ToSet(at[p])
        <4>1. at[p] = IF p = Whole THEN filed ELSE NothingBound[p]
          BY DEF NothingBound
        <4>2. p = Whole /\ m \in ToSet(metrics[Entry.id])
          BY <3>2, <4>1, NothingIn DEF Filed
        <4>3. AsksAt(Entry, m, p)
          BY <3>1, <4>2 DEF Home, AsksAt, AtHandler, Entry
        <4> QED
          BY <3>1, <4>3 DEF IsAskedAt, Entry
      <3> HIDE DEF at, filed
      <3> QED
        BY <1>3, <2>1, <3>1, <3>2, StoredWas
    <2> QED
      BY <2>2, <2>3, <2>4
         DEF Next, vars, ConfigureMetric, EndMetrics, AddProperty, TextHandler, EndHandlers,
             ConfigureTopic, EndTopics
  <1> QED
    BY <1>1, <1>2, <1>3 DEF Placed, Places

LEMMA NotYetMade ==
  ASSUME TypeOK, Turned, HasOneEntry(Entry.id), NEW type, AtHandler(type)
  PROVE  store[Entry.id] = NotMade
PROOF
  <1>1. SUFFICES ASSUME store[Entry.id] # NotMade  PROVE FALSE
    OBVIOUS
  <1>2. Entry.id \in MadeHandlers /\ stage = "handlers"
    BY <1>1, EntryType DEF MadeHandlers, AtHandler
  <1>3. PICK j \in 1 .. entry - 1 : cfg.handlers[j].id = Entry.id
    BY <1>2 DEF Turned
  <1>4. entry \in DOMAIN cfg.handlers
    BY EntryType
  <1>5. DOMAIN cfg.handlers = 1 .. Len(cfg.handlers) /\ Len(cfg.handlers) \in Nat
    BY FileTypes, Zenon DEF TypeOK
  <1> DEFINE n == Len(cfg.handlers)
  <1>6. n \in Nat /\ entry \in 1 .. n
    BY <1>4, <1>5
  <1> HIDE DEF n
  <1>7. j \in 1 .. n /\ j # entry
    BY <1>3, <1>6
  <1>8. j \in DOMAIN cfg.handlers
    BY <1>5, <1>7 DEF n
  <1>9. j = entry
    BY <1>3, <1>4, <1>8 DEF HasOneEntry, Entry
  <1> QED
    BY <1>7, <1>9

LEMMA NowStored ==
  ASSUME NEW id \in HandlerIds, id # Empty,
         NEW at \in [Places -> Seq(Metric)], NEW n \in Nat, n # 0,
         Store(id, at, n), store[id] = NotMade
  PROVE  store'[id] # NotMade /\ store'[id].at = at
PROOF
  <1>1. store'[id] = [at |-> at, count |-> n]
    BY DEF Store
  <1>2. [at |-> at, count |-> n] \in Handler
    BY DEF Handler
  <1> QED
    BY <1>1, <1>2, NotMadeAssumption

LEMMA NoneLostStep ==
  TypeOK /\ CountInv /\ Home /\ Building /\ Turned /\ NoneLost /\ [Next]_vars => NoneLost'
PROOF
  <1> SUFFICES ASSUME TypeOK, CountInv, Home, Building, Turned, NoneLost, [Next]_vars
               PROVE  NoneLost'
    OBVIOUS
  <1>0. cfg' = cfg /\ AllMade' = AllMade
    BY FileKept
  <1>1. \A id : HasOneEntry(id)' <=> HasOneEntry(id)
    BY <1>0 DEF HasOneEntry
  <1>2. SUFFICES ASSUME NEW m \in MadeSoFar', HasOneEntry(m.handler)  PROVE Kept(m)'
    BY <1>1 DEF NoneLost
  <1> DEFINE h == m.handler
  <1>3. m \in AllMade /\ (stage' = "metrics" => m.entry < entry')
    BY <1>0, <1>2 DEF MadeSoFar
  <1>4. /\ h \in HandlerIds /\ m.entry \in DOMAIN cfg.metrics
        /\ m \in MetricsMade(m.entry, h)
    BY <1>3, AllMadeAre
  <1>5. entry \in Nat /\ DOMAIN cfg.metrics = 1 .. Len(cfg.metrics)
    BY FileTypes, Zenon DEF TypeOK
  <1>6. CASE ConfigureMetric
    <2>1. /\ stage = "metrics" /\ stage' = "metrics" /\ entry' = entry + 1
          /\ UNCHANGED <<bound, store>>
      BY <1>6 DEF ConfigureMetric, building
    <2>2. m.entry < entry \/ m.entry = entry
      <3>1. m.entry \in Nat
        <4> DEFINE n == Len(cfg.metrics)
        <4>1. m.entry \in 1 .. n
          BY <1>4, <1>5
        <4> HIDE DEF n
        <4> QED
          BY <4>1
      <3> QED
        BY <1>3, <1>5, <2>1, <3>1
    <2>3. ToSet(metrics'[h]) = ToSet(metrics[h]) \cup MetricsMade(entry, h)
      BY <1>4, <1>6, Configured
    <2>4. CASE m.entry = entry
      BY <1>4, <2>3, <2>4 DEF Kept
    <2>5. CASE m.entry < entry
      <3>1. Kept(m)
        BY <1>2, <1>3, <2>5 DEF NoneLost, MadeSoFar
      <3> QED
        BY <2>1, <2>3, <3>1 DEF Kept, Stored, BoundTo
    <2> QED
      BY <2>2, <2>4, <2>5
  <1>7. CASE ~ ConfigureMetric
    <2>1. Kept(m)
      <3>1. stage = "metrics" => m.entry < entry
        <4>1. CASE EndMetrics
          <5> DEFINE n == Len(cfg.metrics)
          <5>1. n \in Nat /\ entry > n /\ m.entry \in 1 .. n
            BY <1>4, <1>5, <4>1, FileTypes DEF EndMetrics, TypeOK
          <5> HIDE DEF n
          <5> QED
            BY <1>5, <5>1
        <4>2. CASE UNCHANGED vars
          BY <1>3, <4>2 DEF vars
        <4>3. CASE stage # "metrics"
          BY <4>3
        <4> QED
          BY <1>7, <4>1, <4>2, <4>3
             DEF Next, AddProperty, JsonHandler, ValueHandler, TextHandler, EndHandlers,
                 ConfigureTopic, EndTopics, AtHandler
      <3> QED
        BY <1>2, <1>3, <3>1 DEF NoneLost, MadeSoFar
    <2>2. CASE UNCHANGED <<metrics, bound, store>>
      BY <2>1, <2>2 DEF Kept, Stored, BoundTo
    <2>3. CASE AddProperty
      <3>1. store' = store
        BY <2>3 DEF AddProperty
      <3>2. CASE UNCHANGED <<metrics, bound>>
        BY <2>2, <3>1, <3>2
      <3>3. CASE /\ Binds
                 /\ Entry.properties[nextProperty].pointer \in Places
                 /\ \A id \in HandlerIds :
                      ToSet(metrics'[id]) =
                        IF id = Entry.id
                        THEN {x \in ToSet(metrics[Entry.id]) :
                                x.property # Name(Entry.properties[nextProperty])}
                        ELSE ToSet(metrics[id])
                 /\ \A q \in Places :
                      ToSet(bound'[q]) =
                        ToSet(bound[q]) \cup
                          IF q = Entry.properties[nextProperty].pointer
                          THEN {x \in ToSet(metrics[Entry.id]) :
                                  x.property = Name(Entry.properties[nextProperty])} ELSE {}
        <4> DEFINE p == Entry.properties[nextProperty]
                   name == Name(p)
        <4>1. /\ p.pointer \in Places
              /\ \A id \in HandlerIds :
                   ToSet(metrics'[id]) =
                     IF id = Entry.id THEN {x \in ToSet(metrics[Entry.id]) : x.property # name}
                                      ELSE ToSet(metrics[id])
              /\ \A q \in Places :
                   ToSet(bound'[q]) =
                     ToSet(bound[q]) \cup
                       IF q = p.pointer
                       THEN {x \in ToSet(metrics[Entry.id]) : x.property = name} ELSE {}
          BY <3>3
        <4> HIDE DEF name
        <4> HIDE DEF p
        <4>2. CASE m \in ToSet(metrics[h])
          <5>1. CASE h # Entry.id
            BY <1>4, <4>1, <4>2, <5>1 DEF Kept
          <5>2. CASE h = Entry.id
            <6>1. m \in ToSet(metrics[Entry.id])
              BY <4>2, <5>2
            <6>2. m.property = name => m \in ToSet(bound'[p.pointer])
              BY <4>1, <6>1
            <6>3. m.property # name => m \in ToSet(metrics'[h])
              BY <1>4, <4>1, <5>2, <6>1
            <6> QED
              BY <4>1, <6>2, <6>3 DEF Kept
          <5> QED
            BY <5>1, <5>2
        <4>3. CASE \E q \in Places : m \in ToSet(bound[q])
          <5>1. \E q \in Places : m \in ToSet(bound'[q])
            BY <4>1, <4>3
          <5> QED
            BY <5>1 DEF Kept
        <4>4. CASE Stored(m)
          BY <3>1, <4>4 DEF Kept, Stored, BoundTo
        <4> QED
          BY <2>1, <4>2, <4>3, <4>4 DEF Kept
      <3> QED
        BY <2>3, <3>2, <3>3, PropertyAdded
    <2>4. CASE JsonHandler
      <3>1. /\ metrics' = metrics /\ Store(Entry.id, bound, count) /\ AtHandler("json")
            /\ bound \in [Places -> Seq(Metric)] /\ count \in Nat
        BY <2>4 DEF JsonHandler, TypeOK
      <3>2. CASE m \in ToSet(metrics[h])
        BY <3>1, <3>2 DEF Kept
      <3>3. CASE \E q \in Places : m \in ToSet(bound[q])
        <4>1. PICK q \in Places : m \in ToSet(bound[q])
          BY <3>3
        <4>2. h = Entry.id
          BY <4>1 DEF Home
        <4>3. store[Entry.id] = NotMade
          BY <1>2, <1>4, <3>1, <4>2, NotYetMade
        <4>4. count # 0
          <5>1. PICK k \in DOMAIN bound[q] : bound[q][k] = m
            BY <4>1 DEF ToSet
          <5>2. <<q, k>> \in BoundAt(bound)
            BY <5>1 DEF BoundAt
          <5>3. IsFiniteSet(BoundAt(bound)) /\ count = Cardinality(BoundAt(bound))
            BY DEF CountInv, Counted
          <5> QED
            BY <5>2, <5>3, FS_EmptySet
        <4>5. store'[h] # NotMade /\ store'[h].at = bound
          BY <1>2, <1>4, <3>1, <4>2, <4>3, <4>4, NowStored DEF HasOneEntry
        <4>6. m \in ToSet(store'[h].at[q])
          BY <4>1, <4>5
        <4> QED
          BY <4>5, <4>6 DEF Kept, Stored, BoundTo
      <3>4. CASE Stored(m)
        <4>1. Stored(m)'
          BY <1>4, <3>1, <3>4, StoreKeeps
        <4> QED
          BY <4>1 DEF Kept
      <3> QED
        BY <2>1, <3>2, <3>3, <3>4 DEF Kept
    <2>5. ASSUME ValueHandler \/ TextHandler, NEW q \in Places  PROVE ToSet(bound[q]) = {}
      <3>1. ~ AtHandler("json")
        BY <2>5 DEF ValueHandler, TextHandler, AtHandler
      <3>2. bound = NothingBound
        BY <3>1 DEF Building, Resting
      <3> QED
        BY <3>2, NothingIn
    <2>6. CASE ValueHandler
      <3> DEFINE filed == Filed(Entry.id)
                 at == [NothingBound EXCEPT ![Whole] = filed]
      <3>1. /\ Store(Entry.id, at, Len(filed)) /\ AtHandler("value")
            /\ metrics' = [id \in HandlerIds |-> IF id = Entry.id THEN <<>> ELSE metrics[id]]
        BY <2>6 DEF ValueHandler
      <3>2. filed \in Seq(Metric) /\ Len(filed) \in Nat
        BY <3>1, EntryType, FiledType, LenProperties
      <3>3. /\ at \in [Places -> Seq(Metric)] /\ at[Whole] = filed /\ Whole \in Places
        BY <3>2, EmptyIsTyped DEF Places, NothingBound
      <3> HIDE DEF at
      <3>4. CASE m \in ToSet(metrics[h]) /\ h # Entry.id
        <4>1. metrics'[h] = metrics[h]
          BY <1>4, <3>1, <3>4
        <4> QED
          BY <3>4, <4>1 DEF Kept
      <3>5. CASE m \in ToSet(metrics[h]) /\ h = Entry.id
        <4>1. m \in ToSet(filed)
          BY <1>4, <3>5 DEF Filed
        <4>2. Len(filed) # 0
          <5> HIDE DEF filed
          <5>1. ToSet(filed) = {filed[i] : i \in 1 .. Len(filed)}
            BY <3>2, ElementsOf
          <5> QED
            BY <3>2, <4>1, <5>1
        <4>3. store[Entry.id] = NotMade
          BY <1>2, <1>4, <3>1, <3>5, NotYetMade
        <4> HIDE DEF filed
        <4>4. store'[h] # NotMade /\ store'[h].at = at
          BY <1>2, <1>4, <3>1, <3>2, <3>3, <3>5, <4>2, <4>3, NowStored DEF HasOneEntry
        <4>5. m \in ToSet(store'[h].at[Whole])
          BY <3>3, <4>1, <4>4
        <4> QED
          BY <3>3, <4>4, <4>5 DEF Kept, Stored, BoundTo
      <3>6. CASE Stored(m)
        <4> HIDE DEF filed
        <4>1. Stored(m)'
          BY <1>4, <3>1, <3>6, StoreKeeps
        <4> QED
          BY <4>1 DEF Kept
      <3> QED
        BY <2>1, <2>5, <2>6, <3>4, <3>5, <3>6 DEF Kept
    <2>7. CASE TextHandler
      <3>1. UNCHANGED <<metrics, store>>
        BY <2>7 DEF TextHandler
      <3>2. m \in ToSet(metrics[h]) \/ Stored(m)
        BY <2>1, <2>5, <2>7 DEF Kept
      <3> QED
        BY <3>1, <3>2 DEF Kept, Stored, BoundTo
    <2> QED
      BY <1>7, <2>2, <2>3, <2>4, <2>6, <2>7
         DEF Next, vars, building, EndMetrics, EndHandlers, ConfigureTopic, EndTopics
  <1> QED
    BY <1>6, <1>7

LEMMA AskStep ==
  TypeOK /\ Early /\ CountInv /\ AskInv /\ [Next]_vars => AskInv'
PROOF
  <1> SUFFICES ASSUME TypeOK, Early, CountInv, AskInv, [Next]_vars  PROVE AskInv'
    OBVIOUS
  <1>1. Home /\ Building /\ Turned /\ Asked /\ Taken /\ Placed /\ NoneLost
    BY DEF AskInv
  <1>2. Home' /\ Building' /\ Turned' /\ Asked' /\ Taken' /\ Placed' /\ NoneLost'
    BY <1>1, HomeStep, BuildingStep, TurnedStep, AskedStep, TakenStep, PlacedStep, NoneLostStep
  <1> QED
    BY <1>2 DEF AskInv

\* An entry asks for a metric at one place.
LEMMA AsksAtOne ==
  ASSUME cfg \in Configs, NEW i \in DOMAIN cfg.handlers, NEW m, NEW p, NEW q,
         AsksAt(cfg.handlers[i], m, p), AsksAt(cfg.handlers[i], m, q)
  PROVE  p = q
PROOF
  <1> DEFINE e == cfg.handlers[i]
             ps == e.properties
  <1>1. CASE e.type = "value"
    BY <1>1 DEF AsksAt
  <1>2. CASE e.type # "value"
    <2>1. ps \in Seq([property : Properties \cup {Empty}, pointer : Pointers \cup {Empty}])
      BY FileTypes DEF HandlerEntry
    <2>2. PICK k \in DOMAIN ps : AsksIn(e, k, m, p)
      BY <1>2 DEF AsksAt
    <2>3. PICK l \in DOMAIN ps : AsksIn(e, l, m, q)
      BY <1>2 DEF AsksAt
    <2>4. /\ IsSaid(ps[k]) /\ IsSaid(ps[l]) /\ Name(ps[k]) = Name(ps[l])
          /\ \A j \in 1 .. k - 1 : IsSaid(ps[j]) => Name(ps[j]) # Name(ps[k])
          /\ \A j \in 1 .. l - 1 : IsSaid(ps[j]) => Name(ps[j]) # Name(ps[l])
          /\ p = ps[k].pointer /\ q = ps[l].pointer
      BY <2>2, <2>3 DEF AsksIn, IsFirst
    <2> HIDE DEF ps, e
    <2>5. k \in Nat \ {0} /\ l \in Nat \ {0}
      BY <2>1, LenProperties
    <2>6. k \notin 1 .. l - 1 /\ l \notin 1 .. k - 1
      BY <2>4
    <2>7. k = l
      BY <2>5, <2>6
    <2> QED
      BY <2>4, <2>7
  <1> QED
    BY <1>1, <1>2

(***************************************************************************)
(* Whatever the file, a metric is bound only where its handler asks for    *)
(* it; and when all is configured it is bound there, if its handler's id   *)
(* is not empty and that of no other entry.                                *)
(***************************************************************************)
THEOREM WhatIsAskedIsBound == Spec => []AskedIsBound
PROOF
  <1>1. Init => Early /\ CountInv /\ AskInv
    <2> SUFFICES ASSUME Init  PROVE Early /\ CountInv /\ AskInv
      OBVIOUS
    <2>1. /\ stage = "metrics" /\ entry = 1 /\ MadeHandlers = {} /\ Resting /\ count = 0
          /\ \A id \in HandlerIds : ToSet(metrics[id]) = {}
          /\ \A p \in Places : ToSet(bound[p]) = {}
      BY NothingIn, EmptyElements DEF Init, MadeHandlers, Resting
    <2>2. Early
      BY <2>1 DEF Early, Resting
    <2>3. CountInv
      BY <2>1, NothingCounted DEF CountInv, Resting
    <2>4. Home /\ Building /\ Turned /\ Taken /\ Placed
      BY <2>1 DEF Home, Building, Turned, Taken, Placed, PastHandlers
    <2>5. Asked
      <3>1. 1 .. nextProperty - 1 = {} /\ seen = {}
        BY <2>1 DEF Resting
      <3> QED
        BY <3>1 DEF Asked, SaidSoFar
    <2>6. NoneLost
      <3> SUFFICES ASSUME NEW m \in MadeSoFar  PROVE FALSE
        BY DEF NoneLost
      <3>1. TypeOK
        BY TypeInit
      <3>2. m.entry \in DOMAIN cfg.metrics /\ m.entry < 1
        BY <2>1, <3>1, AllMadeAre DEF MadeSoFar
      <3>3. DOMAIN cfg.metrics = 1 .. Len(cfg.metrics)
        BY <3>1, FileTypes, Zenon DEF TypeOK
      <3> DEFINE n == Len(cfg.metrics)
      <3>4. m.entry \in 1 .. n /\ m.entry < 1
        BY <3>2, <3>3
      <3> HIDE DEF n
      <3> QED
        BY <3>4
    <2> QED
      BY <2>2, <2>3, <2>4, <2>5, <2>6 DEF AskInv
  <1>2. TypeOK /\ AskInv => AskedIsBound
    <2> SUFFICES ASSUME TypeOK, AskInv, NEW m \in AllMade, NEW p \in Places
                 PROVE  /\ BoundTo(m, p) => IsAskedAt(m, p)
                        /\ stage = "done" /\ cfg.host /\ HasOneEntry(m.handler)
                             /\ IsAskedAt(m, p) => BoundTo(m, p)
      BY DEF AskedIsBound
    <2>1. /\ Home /\ Building /\ Taken /\ Placed /\ NoneLost
          /\ m.handler \in HandlerIds /\ cfg \in Configs
      BY AllMadeAre DEF AskInv, TypeOK
    <2>2. \A q \in Places : BoundTo(m, q) => IsAskedAt(m, q)
      BY <2>1 DEF BoundTo, Placed, MadeHandlers
    <2>3. ASSUME stage = "done", cfg.host, HasOneEntry(m.handler), IsAskedAt(m, p)
          PROVE  BoundTo(m, p)
      <3>1. PICK i \in DOMAIN cfg.handlers : AsksAt(cfg.handlers[i], m, p)
        BY <2>3 DEF IsAskedAt
      <3>2. i \in PastHandlers /\ m \in MadeSoFar
        BY <2>3 DEF PastHandlers, MadeSoFar
      <3>3. m \notin ToSet(metrics[m.handler])
        BY <2>1, <3>1, <3>2 DEF Taken
      <3>4. bound = NothingBound
        BY <2>1, <2>3 DEF Building, AtHandler, Resting
      <3>5. Stored(m)
        BY <2>1, <2>3, <3>2, <3>3, <3>4, NothingIn DEF Kept, NoneLost
      <3>6. PICK q \in Places : BoundTo(m, q)
        BY <3>5 DEF Stored
      <3>7. PICK j \in DOMAIN cfg.handlers : AsksAt(cfg.handlers[j], m, q)
        BY <2>2, <3>6 DEF IsAskedAt
      <3>8. i = j
        BY <2>3, <3>1, <3>7 DEF HasOneEntry, AsksAt
      <3>9. p = q
        BY <2>1, <3>1, <3>7, <3>8, AsksAtOne
      <3> QED
        BY <3>6, <3>9
    <2> QED
      BY <2>2, <2>3
  <1> QED
    BY TypeInit, TypeStep, EarlyStep, CountStep, AskStep, <1>1, <1>2, PTL DEF Spec
=============================================================================
