------------------------- MODULE ScrapeHandlerProofs -------------------------
(***************************************************************************)
(* What a scrape answers, proved for any number of workers, any series and *)
(* any messages.                                                           *)
(***************************************************************************)
EXTENDS ScrapeHandler, SequenceProofs

\* The series the cache has samples of.
Sampled(c) == {s \in Series : c[s] # NoSample}

(***************************************************************************)
(* The worker that visits the cache is the one that has its lock, and the  *)
(* cache is still what it was when the visit began.                        *)
(***************************************************************************)
VisitIsLocked == \A w \in Workers : at[w] = "visit" <=> visiting = w

VisitSeesOneCache ==
  \A w \in Workers :
    at[w] = "visit" => took[w] = cache /\ left[w] \in Seq(Sampled(cache))

\* A worker that is alone is the only one that may touch the buffers.
AloneIsAlone == \A w \in Workers : alone[w] /\ Busy(w) => ~ OthersBusy(w)

(***************************************************************************)
(* How far the answer of a worker that is alone has come: the samples it   *)
(* has formatted and those it has still to format are those of the cache   *)
(* it visits.                                                              *)
(***************************************************************************)
Formatting(w) ==
  /\ at[w] = "lock" => body = <<>>
  /\ at[w] = "visit" =>
       /\ body \in Seq(Formatted)
       /\ Those(body, SampleLines) \o LinesOf(left[w], took[w])
            = SnapshotOf(took[w])
  /\ at[w] \in {"format", "writeHeader", "writeBody"} =>
       Those(body, SampleLines) = SnapshotOf(took[w])
  /\ at[w] = "writeHeader" => header = Len(body)
  /\ at[w] = "writeBody" => reply[w].length = Len(body)
  /\ at[w] = "done" =>
       /\ reply[w].length = Len(reply[w].body)
       /\ Those(reply[w].body, SampleLines) = SnapshotOf(took[w])

Inv ==
  /\ TypeOK
  /\ VisitIsLocked
  /\ VisitSeesOneCache
  /\ AloneIsAlone
  /\ \A w \in Workers : alone[w] => Formatting(w)

-----------------------------------------------------------------------------
(***************************************************************************)
(* Lemmas about the lines.                                                 *)
(***************************************************************************)
LEMMA SampledIsSample ==
  ASSUME NEW c \in Contents, NEW s \in Sampled(c)
  PROVE  s \in Series /\ c[s] \in Samples
BY DEF Sampled, Contents

\* A sample is formatted as its headers, if any, and the line of the sample.
LEMMA SerializedLines ==
  ASSUME NEW l, NEW d \in Samples
  PROVE  /\ Serialized(l, d) \in Seq(Formatted)
         /\ Those(Serialized(l, d), SampleLines) = <<SampleLine(d)>>
PROOF
  <1> DEFINE s == SampleLine(d)
             h == Headers(d, l.unit # UnitOf(d))
  <1>1. s \in SampleLines /\ s \in Formatted
    BY DEF SampleLine, SampleLines, Formatted
  <1>2. h \in Formatted /\ h \notin SampleLines
    <2> DEFINE u == l.unit # UnitOf(d)
    <2>0. u \in BOOLEAN
      OBVIOUS
    <2>1. Headers(d, u) \in Formatted
      <3> HIDE DEF u
      <3> QED
        BY <2>0 DEF Formatted
    <2>2. h.kind = "headers"
      BY DEF Headers
    <2>3. \A x \in SampleLines : x.kind = "sample"
      BY DEF SampleLines
    <2> QED
      BY <2>1, <2>2, <2>3
  <1>3. Serialized(l, d) = IF NewHeaders(l, d) THEN <<h>> \o <<s>>
                                               ELSE <<>> \o <<s>>
    BY DEF Serialized
  <1> HIDE DEF s, h
  <1>4. <<h>> \in Seq(Formatted) /\ <<s>> \in Seq(Formatted)
    BY <1>1, <1>2
  <1>5. <<>> \o <<s>> = <<s>>
    BY <1>4, ConcatEmptySeq
  <1>6. <<h>> \o <<s>> \in Seq(Formatted)
    BY <1>4, ConcatProperties
  <1>7. Those(<<h>>, SampleLines) = <<>> /\ Those(<<s>>, SampleLines) = <<s>>
    BY <1>1, <1>2, ThoseOne
  <1>8. Those(<<h>> \o <<s>>, SampleLines)
          = Those(<<h>>, SampleLines) \o Those(<<s>>, SampleLines)
    BY <1>4, ThoseConcat
  <1> QED
    BY <1>3, <1>4, <1>5, <1>6, <1>7, <1>8 DEF s

LEMMA AppendedBody ==
  ASSUME NEW w \in Workers, NEW before \in Seq(Lines),
         NEW lines \in Seq(Formatted), AppendBody(w, before, lines)
  PROVE  body' \in Seq(Lines)
PROOF
  <1>1. lines \in Seq(Lines)
    BY SeqMonotonic DEF Lines
  <1>2. before \o lines \in Seq(Lines)
    BY <1>1, ConcatProperties
  <1>3. <<Torn>> \in Seq(Lines)
    BY DEF Lines
  <1> QED
    BY <1>2, <1>3 DEF AppendBody

\* Alone, and with nothing torn before, the lines are appended.
LEMMA AppendedAlone ==
  ASSUME NEW w \in Workers, NEW before \in Seq(Formatted),
         NEW lines \in Seq(Formatted), AppendBody(w, before, lines),
         ~ OthersBusy(w)
  PROVE  body' = before \o lines /\ body' \in Seq(Formatted)
PROOF
  <1>1. Torn \notin Formatted
    <2>1. Torn.kind = "torn"
      BY DEF Torn
    <2>2. \A x \in Formatted : x.kind \in {"headers", "sample"}
      BY DEF Formatted, Headers, SampleLines
    <2> QED
      BY <2>1, <2>2
  <1>2. before # <<Torn>>
    <2>1. SUFFICES ASSUME before = <<Torn>>  PROVE FALSE
      OBVIOUS
    <2>2. 1 \in 1 .. Len(before) /\ before[1] = Torn
      BY <2>1
    <2>3. before[1] \in Formatted
      BY <2>2, ElementOfSeq
    <2> QED
      BY <1>1, <2>2, <2>3
  <1>3. body' = before \o lines
    BY <1>2 DEF AppendBody
  <1> QED
    BY <1>3, ConcatProperties

\* The lines of some series are those of the first and of the rest.
LEMMA LinesOfHead ==
  ASSUME NEW c \in Contents, NEW series \in Seq(Sampled(c)), series # <<>>
  PROVE  /\ LinesOf(series, c)
              = <<SampleLine(c[Head(series)])>> \o LinesOf(Tail(series), c)
         /\ LinesOf(Tail(series), c) \in Seq(SampleLines)
         /\ SampleLine(c[Head(series)]) \in SampleLines
PROOF
  <1> DEFINE rest == Tail(series)
             first == SampleLine(c[Head(series)])
  <1>1. /\ Head(series) \in Sampled(c) /\ rest \in Seq(Sampled(c))
        /\ Len(series) \in Nat \ {0} /\ Len(rest) = Len(series) - 1
        /\ \A i \in 1 .. Len(rest) : rest[i] = series[i + 1]
        /\ Head(series) = series[1]
        /\ DOMAIN rest = 1 .. Len(rest) /\ DOMAIN series = 1 .. Len(series)
    BY HeadTailProperties, LenProperties, EmptySeq
  <1>2. \A i \in 1 .. Len(rest) : rest[i] \in Sampled(c)
    BY <1>1, ElementOfSeq
  <1>3. first \in SampleLines
    BY <1>1, SampledIsSample DEF SampleLine, SampleLines
  <1>4. LinesOf(rest, c) = [i \in 1 .. Len(rest) |-> SampleLine(c[rest[i]])]
    BY <1>1 DEF LinesOf
  <1>5. \A i \in 1 .. Len(rest) : SampleLine(c[rest[i]]) \in SampleLines
    BY <1>2, SampledIsSample DEF SampleLine, SampleLines
  <1> HIDE DEF rest
  <1>6. /\ LinesOf(rest, c) \in Seq(SampleLines)
        /\ Len(LinesOf(rest, c)) = Len(rest)
    BY <1>1, <1>4, <1>5
  <1>7. LinesOf(series, c) = <<first>> \o LinesOf(rest, c)
    <2> DEFINE whole == <<first>> \o LinesOf(rest, c)
    <2>1. /\ whole \in Seq(SampleLines) /\ Len(whole) = 1 + Len(rest)
          /\ \A i \in 1 .. 1 + Len(rest) :
               whole[i] = IF i <= 1 THEN first ELSE LinesOf(rest, c)[i - 1]
      BY <1>3, <1>6, ConcatProperties
    <2>2. whole = [i \in 1 .. Len(series) |-> whole[i]]
      BY <1>1, <2>1, LenProperties
    <2> HIDE DEF whole
    <2>3. ASSUME NEW i \in 1 .. Len(series)
          PROVE  whole[i] = SampleLine(c[series[i]])
      <3>1. CASE i = 1
        BY <1>1, <2>1, <3>1
      <3>2. CASE i # 1
        <4>1. i - 1 \in 1 .. Len(rest) /\ (i - 1) + 1 = i
          BY <1>1, <3>2
        <4>2. LinesOf(rest, c)[i - 1] = SampleLine(c[series[i]])
          BY <1>1, <1>4, <4>1
        <4> QED
          BY <1>1, <2>1, <3>2, <4>2
      <3> QED
        BY <3>1, <3>2
    <2>4. LinesOf(series, c) = [i \in 1 .. Len(series) |-> whole[i]]
      BY <1>1, <2>3 DEF LinesOf
    <2> QED
      BY <2>2, <2>4 DEF whole
  <1> QED
    BY <1>3, <1>6, <1>7 DEF rest

LEMMA LinesOfType ==
  ASSUME NEW c \in Contents, NEW series \in Seq(Sampled(c))
  PROVE  LinesOf(series, c) \in Seq(SampleLines)
PROOF
  <1>1. /\ Len(series) \in Nat /\ DOMAIN series = 1 .. Len(series)
        /\ \A i \in 1 .. Len(series) : series[i] \in Sampled(c)
    BY LenProperties, ElementOfSeq
  <1>2. \A i \in 1 .. Len(series) : SampleLine(c[series[i]]) \in SampleLines
    BY <1>1, SampledIsSample DEF SampleLine, SampleLines
  <1> QED
    BY <1>1, <1>2 DEF LinesOf

LEMMA ThereIsSampled ==
  ASSUME NEW c \in Contents
  PROVE  There(c) \in Seq(Sampled(c))
PROOF
  <1>1. Those(Order, Sampled(c)) \in Seq(Series \cap Sampled(c))
    BY ThoseType, ScrapeAssumption
  <1>2. Series \cap Sampled(c) = Sampled(c)
    BY DEF Sampled
  <1> QED
    BY <1>1, <1>2 DEF There, Sampled

-----------------------------------------------------------------------------
(***************************************************************************)
(* The invariant holds at the beginning, and every step keeps it.          *)
(***************************************************************************)
LEMMA InvAtInit == Init => Inv
PROOF
  <1> SUFFICES ASSUME Init  PROVE Inv
    OBVIOUS
  <1>1. TypeOK
    <2>1. cache \in Contents /\ took \in [Workers -> Contents]
      BY DEF Init, Contents
    <2>2. NoLast \in Styles
      BY DEF NoLast, Styles
    <2>3. /\ <<>> \in Seq(Lines) /\ <<>> \in Seq(Series)
          /\ NoReply \in [length : Nat, body : Seq(Lines)]
      BY EmptySeq DEF NoReply
    <2> QED
      BY <2>1, <2>2, <2>3 DEF Init, TypeOK, Points
  <1>2. \A w \in Workers : at[w] = "idle"
    BY DEF Init
  <1>3. VisitIsLocked
    BY <1>2, ScrapeAssumption DEF Init, VisitIsLocked
  <1>4. VisitSeesOneCache /\ AloneIsAlone
    BY <1>2 DEF VisitSeesOneCache, AloneIsAlone, Busy
  <1>5. \A w \in Workers : Formatting(w)
    BY <1>2 DEF Formatting
  <1> QED
    BY <1>1, <1>3, <1>4, <1>5 DEF Inv

LEMMA TypeStep ==
  ASSUME TypeOK, VisitSeesOneCache, [Next]_vars
  PROVE  TypeOK'
PROOF
  <1> USE DEF TypeOK
  <1>1. ASSUME NEW new \in Messages, AddMessage(new)  PROVE TypeOK'
    <2>1. cache' \in Contents
      BY <1>1, ScrapeAssumption DEF AddMessage, Contents
    <2> QED
      BY <1>1, <2>1 DEF AddMessage, getVars, buffers
  <1>2. ASSUME NEW w \in Workers, StartGet(w)  PROVE TypeOK'
    <2>1. NoLast \in Styles
      BY DEF NoLast, Styles
    <2>2. NoReply \in [length : Nat, body : Seq(Lines)]
      BY EmptySeq DEF NoReply
    <2>4. alone' \in [Workers -> BOOLEAN]
      BY <1>2 DEF StartGet
    <2> QED
      BY <1>2, <2>1, <2>2, <2>4 DEF StartGet, buffers, Points
  <1>3. ASSUME NEW w \in Workers, ClearBody(w)  PROVE TypeOK'
    <2>1. body' \in Seq(Lines)
      BY <1>3, AppendedBody, EmptySeq DEF ClearBody, Cleared
    <2> QED
      BY <1>3, <2>1 DEF ClearBody, Go, Points
  <1>4. ASSUME NEW w \in Workers, LockCache(w)  PROVE TypeOK'
    <2>1. There(cache) \in Seq(Series)
      <3>1. There(cache) \in Seq(Sampled(cache)) /\ Sampled(cache) \subseteq Series
        BY ThereIsSampled DEF Sampled
      <3> QED
        BY <3>1, SeqMonotonic
    <2> QED
      BY <1>4, <2>1 DEF LockCache, Go, buffers, Points
  <1>5. ASSUME NEW w \in Workers, VisitSample(w)  PROVE TypeOK'
    <2> DEFINE d == cache[Head(left[w])]
    <2>1. /\ left[w] \in Seq(Sampled(cache)) /\ left[w] # <<>>
          /\ left[w] \in Seq(Series)
      BY <1>5 DEF VisitSeesOneCache, VisitSample
    <2>2. d \in Samples /\ Tail(left[w]) \in Seq(Series)
      BY <2>1, HeadTailProperties, SampledIsSample
    <2>3. Serialized(last[w], d) \in Seq(Formatted)
      BY <2>2, SerializedLines
    <2>4. body' \in Seq(Lines)
      BY <1>5, <2>3, AppendedBody DEF VisitSample
    <2>5. [name |-> NameOf(d), type |-> TypeOf(d), unit |-> UnitOf(d)] \in Styles
      BY <2>2 DEF Styles
    <2>6. left' \in [Workers -> Seq(Series)] /\ last' \in [Workers -> Styles]
      BY <1>5, <2>2, <2>5 DEF VisitSample
    <2> QED
      BY <1>5, <2>4, <2>6 DEF VisitSample
  <1>6. ASSUME NEW w \in Workers, UnlockCache(w)  PROVE TypeOK'
    BY <1>6 DEF UnlockCache, Go, buffers, Points
  <1>7. ASSUME NEW w \in Workers, FormatHeader(w)  PROVE TypeOK'
    <2>1. header' \in Nat
      BY <1>7, LenProperties DEF FormatHeader, ContentLength
    <2> QED
      BY <1>7, <2>1 DEF FormatHeader, Go, Points
  <1>8. ASSUME NEW w \in Workers, WriteHeader(w)  PROVE TypeOK'
    BY <1>8 DEF WriteHeader, Go, buffers, Points
  <1>9. ASSUME NEW w \in Workers, WriteBody(w)  PROVE TypeOK'
    BY <1>9 DEF WriteBody, Go, buffers, Points
  <1>10. CASE UNCHANGED vars
    BY <1>10 DEF vars, getVars, buffers
  <1> QED
    BY <1>1, <1>2, <1>3, <1>4, <1>5, <1>6, <1>7, <1>8, <1>9, <1>10
    DEF Next, GetStep

LEMMA LockStep ==
  ASSUME TypeOK, VisitIsLocked, [Next]_vars
  PROVE  VisitIsLocked'
PROOF
  <1> USE ScrapeAssumption DEF TypeOK, VisitIsLocked
  <1>1. ASSUME NEW new \in Messages, AddMessage(new)  PROVE VisitIsLocked'
    BY <1>1 DEF AddMessage, getVars
  <1>2. ASSUME NEW w \in Workers, StartGet(w)  PROVE VisitIsLocked'
    BY <1>2 DEF StartGet
  <1>3. ASSUME NEW w \in Workers, ClearBody(w)  PROVE VisitIsLocked'
    BY <1>3 DEF ClearBody, Go
  <1>4. ASSUME NEW w \in Workers, LockCache(w)  PROVE VisitIsLocked'
    BY <1>4 DEF LockCache, Go, CacheFree
  <1>5. ASSUME NEW w \in Workers, VisitSample(w)  PROVE VisitIsLocked'
    BY <1>5 DEF VisitSample
  <1>6. ASSUME NEW w \in Workers, UnlockCache(w)  PROVE VisitIsLocked'
    BY <1>6 DEF UnlockCache, Go
  <1>7. ASSUME NEW w \in Workers, FormatHeader(w)  PROVE VisitIsLocked'
    BY <1>7 DEF FormatHeader, Go
  <1>8. ASSUME NEW w \in Workers, WriteHeader(w)  PROVE VisitIsLocked'
    BY <1>8 DEF WriteHeader, Go
  <1>9. ASSUME NEW w \in Workers, WriteBody(w)  PROVE VisitIsLocked'
    BY <1>9 DEF WriteBody, Go
  <1>10. CASE UNCHANGED vars
    BY <1>10 DEF vars, getVars
  <1> QED
    BY <1>1, <1>2, <1>3, <1>4, <1>5, <1>6, <1>7, <1>8, <1>9, <1>10
    DEF Next, GetStep

\* No message is added while a worker visits the cache.
LEMMA VisitStep ==
  ASSUME TypeOK, VisitIsLocked, VisitSeesOneCache, [Next]_vars
  PROVE  VisitSeesOneCache'
PROOF
  <1> USE DEF TypeOK, VisitSeesOneCache
  <1>1. ASSUME NEW new \in Messages, AddMessage(new)  PROVE VisitSeesOneCache'
    BY <1>1, ScrapeAssumption DEF AddMessage, getVars, CacheFree, VisitIsLocked
  <1>2. ASSUME NEW w \in Workers, StartGet(w)  PROVE VisitSeesOneCache'
    BY <1>2 DEF StartGet, Sampled
  <1>3. ASSUME NEW w \in Workers, ClearBody(w)  PROVE VisitSeesOneCache'
    BY <1>3 DEF ClearBody, Go, Sampled
  <1>4. ASSUME NEW w \in Workers, LockCache(w)  PROVE VisitSeesOneCache'
    <2>1. There(cache) \in Seq(Sampled(cache))
      BY ThereIsSampled
    <2> QED
      BY <1>4, <2>1 DEF LockCache, Go, Sampled
  <1>5. ASSUME NEW w \in Workers, VisitSample(w)  PROVE VisitSeesOneCache'
    <2>1. left[w] \in Seq(Sampled(cache)) /\ left[w] # <<>>
      BY <1>5 DEF VisitSample
    <2>2. Tail(left[w]) \in Seq(Sampled(cache))
      BY <2>1, HeadTailProperties
    <2> QED
      BY <1>5, <2>2 DEF VisitSample, Sampled
  <1>6. ASSUME NEW w \in Workers, UnlockCache(w)  PROVE VisitSeesOneCache'
    BY <1>6 DEF UnlockCache, Go, Sampled
  <1>7. ASSUME NEW w \in Workers, FormatHeader(w)  PROVE VisitSeesOneCache'
    BY <1>7 DEF FormatHeader, Go, Sampled
  <1>8. ASSUME NEW w \in Workers, WriteHeader(w)  PROVE VisitSeesOneCache'
    BY <1>8 DEF WriteHeader, Go, Sampled
  <1>9. ASSUME NEW w \in Workers, WriteBody(w)  PROVE VisitSeesOneCache'
    BY <1>9 DEF WriteBody, Go, Sampled
  <1>10. CASE UNCHANGED vars
    BY <1>10 DEF vars, getVars, Sampled
  <1> QED
    BY <1>1, <1>2, <1>3, <1>4, <1>5, <1>6, <1>7, <1>8, <1>9, <1>10
    DEF Next, GetStep

LEMMA AloneStep ==
  ASSUME TypeOK, AloneIsAlone, [Next]_vars
  PROVE  AloneIsAlone'
PROOF
  <1> USE DEF TypeOK, AloneIsAlone, OthersBusy, Busy
  <1>1. ASSUME NEW new \in Messages, AddMessage(new)  PROVE AloneIsAlone'
    BY <1>1 DEF AddMessage, getVars
  <1>2. ASSUME NEW w \in Workers, StartGet(w)  PROVE AloneIsAlone'
    BY <1>2 DEF StartGet
  <1>3. ASSUME NEW w \in Workers, ClearBody(w)  PROVE AloneIsAlone'
    BY <1>3 DEF ClearBody, Go
  <1>4. ASSUME NEW w \in Workers, LockCache(w)  PROVE AloneIsAlone'
    BY <1>4 DEF LockCache, Go
  <1>5. ASSUME NEW w \in Workers, VisitSample(w)  PROVE AloneIsAlone'
    BY <1>5 DEF VisitSample
  <1>6. ASSUME NEW w \in Workers, UnlockCache(w)  PROVE AloneIsAlone'
    BY <1>6 DEF UnlockCache, Go
  <1>7. ASSUME NEW w \in Workers, FormatHeader(w)  PROVE AloneIsAlone'
    BY <1>7 DEF FormatHeader, Go
  <1>8. ASSUME NEW w \in Workers, WriteHeader(w)  PROVE AloneIsAlone'
    BY <1>8 DEF WriteHeader, Go
  <1>9. ASSUME NEW w \in Workers, WriteBody(w)  PROVE AloneIsAlone'
    BY <1>9 DEF WriteBody, Go
  <1>10. CASE UNCHANGED vars
    BY <1>10 DEF vars, getVars
  <1> QED
    BY <1>1, <1>2, <1>3, <1>4, <1>5, <1>6, <1>7, <1>8, <1>9, <1>10
    DEF Next, GetStep

(***************************************************************************)
(* The steps of the others: while a worker that is alone formats, they do  *)
(* nothing, as one that starts is no longer alone with it; and when it has *)
(* answered they do not touch its answer.                                  *)
(***************************************************************************)
LEMMA OthersAreIdle ==
  ASSUME Inv, NEW u \in Workers, NEW w \in Workers, w # u, GetStep(w),
         alone[u]'
  PROVE  ~ Busy(u)
PROOF
  <1>1. alone \in [Workers -> BOOLEAN]
    BY DEF Inv, TypeOK
  <1>2. alone[u]
    BY <1>1 DEF GetStep, StartGet, ClearBody, LockCache, VisitSample,
                UnlockCache, FormatHeader, WriteHeader, WriteBody
  <1>3. SUFFICES ASSUME Busy(u)  PROVE FALSE
    OBVIOUS
  <1>4. ~ Busy(w)
    BY <1>2, <1>3 DEF Inv, AloneIsAlone, OthersBusy
  <1>5. StartGet(w)
    BY <1>4 DEF GetStep, ClearBody, LockCache, VisitSample, UnlockCache,
                FormatHeader, WriteHeader, WriteBody, Go, Busy
  <1> QED
    BY <1>3, <1>5 DEF StartGet

LEMMA OthersKeepFormatting ==
  ASSUME Inv, NEW u \in Workers, NEW w \in Workers, w # u, GetStep(w),
         alone[u]'
  PROVE  Formatting(u)'
PROOF
  <1>1. /\ at \in [Workers -> Points] /\ alone \in [Workers -> BOOLEAN]
        /\ reply \in [Workers -> [length : Nat, body : Seq(Lines)]]
        /\ took \in [Workers -> Contents]
        /\ left \in [Workers -> Seq(Series)]
    BY DEF Inv, TypeOK
  <1>2. alone[u] /\ at'[u] = at[u]
    BY <1>1 DEF GetStep, StartGet, ClearBody, LockCache, VisitSample,
                UnlockCache, FormatHeader, WriteHeader, WriteBody, Go
  <1>3. reply'[u] = reply[u] /\ took'[u] = took[u]
    BY <1>1 DEF GetStep, StartGet, ClearBody, LockCache, VisitSample,
                UnlockCache, FormatHeader, WriteHeader, WriteBody
  <1>4. ~ Busy(u)
    BY OthersAreIdle
  <1>5. at'[u] \in {"idle", "done"}
    BY <1>2, <1>4 DEF Busy
  <1>6. Formatting(u)
    BY <1>2 DEF Inv
  <1> QED
    BY <1>2, <1>3, <1>5, <1>6 DEF Formatting

\* A step of the worker itself.
LEMMA FormattingStep ==
  ASSUME Inv, NEW w \in Workers, GetStep(w), alone[w]'
  PROVE  Formatting(w)'
PROOF
  <1>1. /\ at \in [Workers -> Points] /\ alone \in [Workers -> BOOLEAN]
        /\ reply \in [Workers -> [length : Nat, body : Seq(Lines)]]
        /\ took \in [Workers -> Contents] /\ cache \in Contents
        /\ left \in [Workers -> Seq(Series)]
    BY DEF Inv, TypeOK
  <1>2. ~ StartGet(w) => alone[w] /\ Formatting(w) /\ at[w] # "idle"
    BY <1>1 DEF Inv, GetStep, ClearBody, LockCache, VisitSample, UnlockCache,
                FormatHeader, WriteHeader, WriteBody, Go
  <1>3. at[w] \notin {"idle", "done"} /\ alone[w] => ~ OthersBusy(w)
    BY DEF Inv, AloneIsAlone, Busy
  <1>4. CASE StartGet(w)
    BY <1>1, <1>4 DEF StartGet, Formatting
  <1>5. CASE ClearBody(w)
    <2>1. ~ OthersBusy(w) /\ at'[w] = "lock"
      BY <1>1, <1>2, <1>3, <1>5 DEF ClearBody, StartGet, Go
    <2>2. <<>> \in Seq(Formatted) /\ <<>> \o <<>> = <<>>
      BY EmptySeq, ConcatEmptySeq
    <2>3. body' = <<>>
      BY <1>5, <2>1, <2>2, AppendedAlone DEF ClearBody, Cleared
    <2> QED
      BY <2>1, <2>3 DEF Formatting
  <1>6. CASE LockCache(w)
    <2>1. /\ at'[w] = "visit" /\ left'[w] = There(cache) /\ took'[w] = cache
          /\ body' = body
      BY <1>1, <1>6 DEF LockCache, Go, buffers
    <2>2. body = <<>>
      BY <1>2, <1>6 DEF LockCache, StartGet, Go, Formatting
    <2>3. Those(<<>>, SampleLines) \o SnapshotOf(cache) = SnapshotOf(cache)
      <3>1. SnapshotOf(cache) \in Seq(SampleLines)
        <4>1. There(cache) \in Seq(Sampled(cache))
          BY <1>1, ThereIsSampled
        <4> QED
          BY <1>1, <4>1, LinesOfType DEF SnapshotOf
      <3> QED
        BY <3>1, ThoseEmpty, ConcatEmptySeq
    <2>4. body' \in Seq(Formatted)
      BY <2>1, <2>2, EmptySeq
    <2> QED
      BY <2>1, <2>2, <2>3, <2>4 DEF Formatting, SnapshotOf
  <1>7. CASE VisitSample(w)
    <2> DEFINE q == left[w]
               c == took[w]
               d == c[Head(q)]
               lines == Serialized(last[w], d)
    <2>1. /\ at[w] = "visit" /\ at' = at /\ took' = took
          /\ left'[w] = Tail(q) /\ q # <<>>
          /\ c = cache /\ q \in Seq(Sampled(c)) /\ c \in Contents
          /\ AppendBody(w, body, lines)
      BY <1>1, <1>7 DEF VisitSample, Inv, VisitSeesOneCache
    <2>2. /\ ~ OthersBusy(w)
          /\ body \in Seq(Formatted)
          /\ Those(body, SampleLines) \o LinesOf(q, c) = SnapshotOf(c)
      BY <1>2, <1>3, <2>1 DEF StartGet, Formatting
    <2> HIDE DEF q, c
    <2>3. d \in Samples
      BY <2>1, HeadTailProperties, SampledIsSample
    <2>4. /\ lines \in Seq(Formatted)
          /\ Those(lines, SampleLines) = <<SampleLine(d)>>
      BY <2>3, SerializedLines
    <2> HIDE DEF lines
    <2>5. body' = body \o lines /\ body' \in Seq(Formatted)
      BY <2>1, <2>2, <2>4, AppendedAlone
    <2>6. /\ LinesOf(q, c) = <<SampleLine(d)>> \o LinesOf(Tail(q), c)
          /\ LinesOf(Tail(q), c) \in Seq(SampleLines)
          /\ SampleLine(d) \in SampleLines
      BY <2>1, LinesOfHead
    <2>7. Those(body', SampleLines)
            = Those(body, SampleLines) \o <<SampleLine(d)>>
      <3>1. Those(body \o lines, SampleLines)
              = Those(body, SampleLines) \o Those(lines, SampleLines)
        BY <2>2, <2>4, ThoseConcat, Zenon
      <3> QED
        BY <2>4, <2>5, <3>1
    <2>8. Those(body', SampleLines) \o LinesOf(Tail(q), c) = SnapshotOf(c)
      <3>1. Those(body, SampleLines) \in Seq(SampleLines)
        <4>1. Those(body, SampleLines) \in Seq(Formatted \cap SampleLines)
          BY <2>2, ThoseType
        <4> QED
          BY <4>1, SeqMonotonic
      <3>2. <<SampleLine(d)>> \in Seq(SampleLines)
        BY <2>6
      <3> DEFINE before == Those(body, SampleLines)
                 line == <<SampleLine(d)>>
                 after == LinesOf(Tail(q), c)
      <3> HIDE DEF before, line, after
      <3>3. (before \o line) \o after = before \o (line \o after)
        <4>1. /\ before \in Seq(SampleLines) /\ line \in Seq(SampleLines)
              /\ after \in Seq(SampleLines)
          BY <2>6, <3>1, <3>2 DEF before, line, after
        <4> QED
          BY <4>1, ConcatAssociative
      <3> QED
        BY <2>2, <2>6, <2>7, <3>3 DEF before, line, after
    <2> QED
      BY <2>1, <2>5, <2>8 DEF Formatting, q, c
  <1>8. CASE UnlockCache(w)
    <2>1. /\ at[w] = "visit" /\ at'[w] = "format" /\ took' = took
          /\ body' = body /\ left[w] = <<>>
      BY <1>1, <1>8 DEF UnlockCache, Go, buffers
    <2>2. /\ body \in Seq(Formatted)
          /\ Those(body, SampleLines) \o LinesOf(<<>>, took[w])
               = SnapshotOf(took[w])
      BY <1>2, <2>1 DEF StartGet, Formatting
    <2>3. LinesOf(<<>>, took[w]) = <<>>
      BY DEF LinesOf
    <2>4. Those(body, SampleLines) \o <<>> = Those(body, SampleLines)
      BY <2>2, ThoseType, ConcatEmptySeq
    <2> QED
      BY <2>1, <2>2, <2>3, <2>4 DEF Formatting
  <1>9. CASE FormatHeader(w)
    <2>1. /\ at[w] = "format" /\ at'[w] = "writeHeader"
          /\ body' = body /\ took' = took /\ ~ OthersBusy(w)
      BY <1>1, <1>2, <1>3, <1>9 DEF FormatHeader, StartGet, Go
    <2>2. header' = Len(body)
      BY <1>9, <2>1 DEF FormatHeader, ContentLength
    <2> QED
      BY <1>2, <2>1, <2>2 DEF StartGet, Formatting
  <1>10. CASE WriteHeader(w)
    <2>1. /\ at[w] = "writeHeader" /\ at'[w] = "writeBody"
          /\ body' = body /\ took' = took /\ reply'[w].length = header
      BY <1>1, <1>10 DEF WriteHeader, Go, buffers
    <2> QED
      BY <1>2, <2>1 DEF StartGet, Formatting
  <1>11. CASE WriteBody(w)
    <2>1. /\ at[w] = "writeBody" /\ at'[w] = "done" /\ took' = took
          /\ reply'[w].body = body /\ reply'[w].length = reply[w].length
      BY <1>1, <1>11 DEF WriteBody, Go, buffers
    <2> QED
      BY <1>2, <2>1 DEF StartGet, Formatting
  <1> QED
    BY <1>4, <1>5, <1>6, <1>7, <1>8, <1>9, <1>10, <1>11 DEF GetStep

LEMMA InvStep == Inv /\ [Next]_vars => Inv'
PROOF
  <1> SUFFICES ASSUME Inv, [Next]_vars  PROVE Inv'
    OBVIOUS
  <1>1. TypeOK' /\ VisitIsLocked' /\ VisitSeesOneCache' /\ AloneIsAlone'
    BY TypeStep, LockStep, VisitStep, AloneStep DEF Inv
  <1>2. ASSUME NEW u \in Workers, alone[u]'  PROVE Formatting(u)'
    <2>1. CASE \E new \in Messages : AddMessage(new)
      BY <1>2, <2>1 DEF AddMessage, getVars, buffers, Inv, Formatting
    <2>2. ASSUME NEW w \in Workers, GetStep(w)  PROVE Formatting(u)'
      BY <1>2, <2>2, OthersKeepFormatting, FormattingStep
    <2>3. CASE UNCHANGED vars
      BY <1>2, <2>3 DEF vars, getVars, buffers, Inv, Formatting
    <2> QED
      BY <2>1, <2>2, <2>3 DEF Next
  <1> QED
    BY <1>1, <1>2 DEF Inv

(***************************************************************************)
(* Every state of the handler is well typed, whatever the threads do.      *)
(***************************************************************************)
THEOREM ScrapesAreTyped == Spec => []TypeOK
PROOF
  <1>1. Inv => TypeOK
    BY DEF Inv
  <1> QED
    BY <1>1, InvAtInit, InvStep, PTL DEF Spec

(***************************************************************************)
(* An answer no other was made during is one moment of the cache, all of   *)
(* it, and has its length, for any number of workers and any messages.     *)
(***************************************************************************)
THEOREM AnswersAreSnapshots == Spec => []AnswerIsSnapshot
PROOF
  <1>1. Inv => AnswerIsSnapshot
    BY DEF Inv, Formatting, AnswerIsSnapshot, Sound
  <1> QED
    BY <1>1, InvAtInit, InvStep, PTL DEF Spec
-----------------------------------------------------------------------------
(***************************************************************************)
(* The headers of the answer.                                              *)
(***************************************************************************)
StyleOf(d) == [name |-> NameOf(d), type |-> TypeOf(d), unit |-> UnitOf(d)]

\* Whatever the cache holds of a series was brought for it.
Broughts(c) == \A s \in Sampled(c) : c[s] \in Brought(s)

\* What DoGet remembers of the cache c is the last sample it has formatted.
RemembersLast(c, lines, l) ==
  \/ lines = <<>> /\ l = NoLast
  \/ /\ lines # <<>>
     /\ \E s \in Sampled(c) :
          lines[Len(lines)] = SampleLine(c[s]) /\ l = StyleOf(c[s])

(***************************************************************************)
(* The metrics in the series left, q, of the cache c: those of a metric    *)
(* are together, those of the last metric come first, and no other metric  *)
(* that has headers in the body comes again.                               *)
(***************************************************************************)
NameIn(c, q, i) == NameOf(c[q[i]])

Together(c, q) ==
  \A i, j, k \in DOMAIN q : i < j /\ j < k /\ NameIn(c, q, i) = NameIn(c, q, k)
    => NameIn(c, q, j) = NameIn(c, q, i)

LastComesFirst(c, q, name) ==
  \A i, j \in DOMAIN q : i < j /\ NameIn(c, q, j) = name => NameIn(c, q, i) = name

NoneAgain(lines, c, q, name) ==
  \A i \in DOMAIN lines : IsHeaders(lines[i]) /\ lines[i].name # name =>
    \A k \in DOMAIN q : NameIn(c, q, k) # lines[i].name

NoneRepeats(lines, c, q, name) ==
  /\ NoneTwice(lines)
  /\ Together(c, q)
  /\ LastComesFirst(c, q, name)
  /\ NoneAgain(lines, c, q, name)

Announcing(w) ==
  /\ at[w] \in {"clear", "lock"} => last[w] = NoLast
  /\ at[w] = "visit" =>
       /\ RemembersLast(took[w], body, last[w])
       /\ EachAnnounced(body)
       /\ OneStyle(took[w]) =>
            NoneRepeats(body, took[w], left[w], last[w].name)
  /\ at[w] \in {"format", "writeHeader", "writeBody"} =>
       WellAnnounced(body, took[w])
  /\ at[w] = "done" => WellAnnounced(reply[w].body, took[w])

AnnounceInv ==
  /\ Broughts(cache)
  /\ \A w \in Workers : alone[w] => Announcing(w)

LEMMA BroughtIsSample ==
  ASSUME NEW s \in Series, NEW d \in Brought(s)
  PROVE  d \in Samples
BY ScrapeAssumption DEF Brought

LEMMA KindsOfLines ==
  ASSUME NEW d, NEW u
  PROVE  /\ IsSample(SampleLine(d)) /\ SampleLine(d).data = d
         /\ ~ IsHeaders(SampleLine(d))
         /\ IsHeaders(Headers(d, u)) /\ ~ IsSample(Headers(d, u))
         /\ Headers(d, u).name = NameOf(d) /\ Headers(d, u).type = TypeOf(d)
         /\ Headers(d, u).unit = IF u THEN UnitOf(d) ELSE NoUnit
BY DEF IsSample, IsHeaders, SampleLine, Headers

(***************************************************************************)
(* The body after a sample, line by line.                                  *)
(***************************************************************************)
Grown(new, lines, l, d) ==
  /\ Len(lines) \in Nat
  /\ DOMAIN lines = 1 .. Len(lines) /\ DOMAIN new = 1 .. Len(new)
  /\ \A k \in 1 .. Len(lines) : new[k] = lines[k]
  /\ NewHeaders(l, d) =>
       /\ Len(new) = Len(lines) + 2
       /\ new[Len(lines) + 1] = Headers(d, l.unit # UnitOf(d))
       /\ new[Len(lines) + 2] = SampleLine(d)
  /\ ~ NewHeaders(l, d) =>
       /\ Len(new) = Len(lines) + 1
       /\ new[Len(lines) + 1] = SampleLine(d)

LEMMA NextLines ==
  ASSUME NEW lines \in Seq(Formatted), NEW d \in Samples, NEW l
  PROVE  Grown(lines \o Serialized(l, d), lines, l, d)
PROOF
  <1> DEFINE s == SampleLine(d)
             h == Headers(d, l.unit # UnitOf(d))
             more == Serialized(l, d)
             n == Len(lines)
             new == lines \o more
  <1>1. more \in Seq(Formatted)
    BY SerializedLines
  <1>2. more = IF NewHeaders(l, d) THEN <<h>> \o <<s>> ELSE <<>> \o <<s>>
    BY DEF Serialized
  <1> HIDE DEF s, h, more, new
  <1>3. /\ NewHeaders(l, d) => Len(more) = 2 /\ more[1] = h /\ more[2] = s
        /\ ~ NewHeaders(l, d) => Len(more) = 1 /\ more[1] = s
    <2> DEFINE H == <<h>>
               S == <<s>>
    <2>1. /\ H \in Seq({h, s}) /\ Len(H) = 1 /\ H[1] = h
          /\ S \in Seq({h, s}) /\ Len(S) = 1 /\ S[1] = s
      OBVIOUS
    <2> HIDE DEF H, S
    <2>2. /\ Len(H \o S) = 2
          /\ \A i \in 1 .. 2 : (H \o S)[i] = IF i <= 1 THEN H[i] ELSE S[i - 1]
      <3>1. /\ Len(H \o S) = Len(H) + Len(S)
            /\ \A i \in 1 .. Len(H) + Len(S) :
                 (H \o S)[i] = IF i <= Len(H) THEN H[i] ELSE S[i - Len(H)]
        BY <2>1, ConcatProperties, Zenon
      <3> QED
        BY <2>1, <3>1
    <2>3. (H \o S)[1] = h /\ (H \o S)[2] = s
      BY <2>1, <2>2
    <2>4. <<>> \o S = S
      BY <2>1, ConcatEmptySeq
    <2>5. more = IF NewHeaders(l, d) THEN H \o S ELSE <<>> \o S
      BY <1>2 DEF H, S
    <2> QED
      BY <2>1, <2>2, <2>3, <2>4, <2>5
  <1>4. /\ n \in Nat /\ Len(new) = n + Len(more) /\ new \in Seq(Formatted)
        /\ \A k \in 1 .. n + Len(more) :
             new[k] = IF k <= n THEN lines[k] ELSE more[k - n]
    BY <1>1, ConcatProperties, LenProperties DEF new
  <1>5. DOMAIN lines = 1 .. n /\ DOMAIN new = 1 .. Len(new)
    BY <1>4, LenProperties
  <1> HIDE DEF n
  <1>6. \A k \in 1 .. n : new[k] = lines[k]
    BY <1>1, <1>4, LenProperties
  <1>7. CASE NewHeaders(l, d)
    <2>1. /\ n + 1 \in 1 .. n + 2 /\ n + 2 \in 1 .. n + 2
          /\ (n + 1) - n = 1 /\ (n + 2) - n = 2
          /\ ~ (n + 1 <= n) /\ ~ (n + 2 <= n)
      BY <1>4
    <2>2. Len(new) = n + 2 /\ new[n + 1] = h /\ new[n + 2] = s
      BY <1>3, <1>4, <1>7, <2>1
    <2> QED
      BY <1>4, <1>5, <1>6, <1>7, <2>2 DEF Grown, n, h, s, new, more
  <1>8. CASE ~ NewHeaders(l, d)
    <2>1. n + 1 \in 1 .. n + 1 /\ (n + 1) - n = 1 /\ ~ (n + 1 <= n)
      BY <1>4
    <2>2. Len(new) = n + 1 /\ new[n + 1] = s
      BY <1>3, <1>4, <1>8, <2>1
    <2> QED
      BY <1>4, <1>5, <1>6, <1>8, <2>2 DEF Grown, n, s, new, more
  <1> QED
    BY <1>7, <1>8

\* What announces a line stays when lines are added.
LEMMA AnnouncedPrefix ==
  ASSUME NEW lines, NEW new, NEW n \in Nat, NEW i \in 1 .. n,
         \A k \in 1 .. n : new[k] = lines[k], Announced(lines, i)
  PROVE  Announced(new, i)
PROOF
  <1>1. PICK j \in 1 .. i - 1 :
          /\ IsHeaders(lines[j]) /\ lines[j].name = NameOf(lines[i].data)
          /\ lines[j].type = TypeOf(lines[i].data)
          /\ \A k \in j + 1 .. i - 1 : IsSample(lines[k])
          /\ \/ lines[j].unit = UnitOf(lines[i].data)
             \/ /\ j > 1 /\ IsSample(lines[j - 1])
                /\ UnitOf(lines[j - 1].data) = UnitOf(lines[i].data)
    BY DEF Announced
  <1>2. /\ j \in 1 .. n /\ \A k \in j + 1 .. i - 1 : k \in 1 .. n
        /\ j > 1 => j - 1 \in 1 .. n
    OBVIOUS
  <1>3. /\ new[j] = lines[j] /\ new[i] = lines[i]
        /\ \A k \in j + 1 .. i - 1 : new[k] = lines[k]
        /\ j > 1 => new[j - 1] = lines[j - 1]
    BY <1>2
  <1>4. /\ IsHeaders(new[j]) /\ new[j].name = NameOf(new[i].data)
        /\ new[j].type = TypeOf(new[i].data)
        /\ \A k \in j + 1 .. i - 1 : IsSample(new[k])
    BY <1>1, <1>3
  <1>5. \/ new[j].unit = UnitOf(new[i].data)
        \/ /\ j > 1 /\ IsSample(new[j - 1])
           /\ UnitOf(new[j - 1].data) = UnitOf(new[i].data)
    BY <1>1, <1>3
  <1> QED
    BY <1>4, <1>5 DEF Announced

(***************************************************************************)
(* A sample is announced by the headers it gets, or else by those of the   *)
(* sample before it.                                                       *)
(***************************************************************************)
LEMMA NextIsAnnounced ==
  ASSUME NEW lines \in Seq(Formatted), NEW c \in Contents,
         NEW s \in Sampled(c), NEW d, d = c[s],
         NEW l, NEW new, new = lines \o Serialized(l, d),
         RemembersLast(c, lines, l), EachAnnounced(lines)
  PROVE  EachAnnounced(new) /\ RemembersLast(c, new, StyleOf(d))
PROOF
  <1> DEFINE n == Len(lines)
             h == Headers(d, l.unit # UnitOf(d))
  <1>0. d \in Samples
    BY SampledIsSample
  <1>1. /\ n \in Nat /\ DOMAIN lines = 1 .. n /\ DOMAIN new = 1 .. Len(new)
        /\ \A k \in 1 .. n : new[k] = lines[k]
        /\ NewHeaders(l, d) => /\ Len(new) = n + 2
                               /\ new[n + 1] = h /\ new[n + 2] = SampleLine(d)
        /\ ~ NewHeaders(l, d) => Len(new) = n + 1 /\ new[n + 1] = SampleLine(d)
    <2>1. Grown(new, lines, l, d)
      BY <1>0, NextLines
    <2> QED
      BY <2>1 DEF Grown
  <1>2. n = 0 <=> lines = <<>>
    BY EmptySeq
  <1> HIDE DEF n
  <1>3. \A i \in 1 .. n : IsSample(new[i]) => Announced(new, i)
    <2> SUFFICES ASSUME NEW i \in 1 .. n, IsSample(new[i])
                 PROVE  Announced(new, i)
      OBVIOUS
    <2>1. i \in DOMAIN lines /\ IsSample(lines[i])
      BY <1>1
    <2>2. Announced(lines, i)
      BY <2>1 DEF EachAnnounced
    <2> QED
      BY <1>1, <2>1, <2>2, AnnouncedPrefix
  <1>4. RemembersLast(c, new, StyleOf(d))
    <2>1. new[Len(new)] = SampleLine(d) /\ new # <<>>
      BY <1>1
    <2> QED
      BY <2>1 DEF RemembersLast
  <1>5. CASE NewHeaders(l, d)
    <2>1. /\ n + 1 \in 1 .. (n + 2) - 1
          /\ \A k \in (n + 1) + 1 .. (n + 2) - 1 : IsSample(new[k])
          /\ (n + 1) - 1 = n
      BY <1>1
    <2>2. /\ IsHeaders(new[n + 1]) /\ ~ IsSample(new[n + 1])
          /\ new[n + 2].data = d
          /\ new[n + 1].name = NameOf(d) /\ new[n + 1].type = TypeOf(d)
          /\ new[n + 1].unit = IF l.unit # UnitOf(d) THEN UnitOf(d) ELSE NoUnit
      <3> DEFINE u == l.unit # UnitOf(d)
                 line == Headers(d, u)
      <3>1. new[n + 1] = line /\ new[n + 2] = SampleLine(d)
        BY <1>1, <1>5
      <3>2. /\ IsHeaders(line) /\ ~ IsSample(line)
            /\ line.name = NameOf(d) /\ line.type = TypeOf(d)
            /\ line.unit = IF u THEN UnitOf(d) ELSE NoUnit
        <4> HIDE DEF u
        <4> QED
          BY KindsOfLines
      <3>3. SampleLine(d).data = d
        BY KindsOfLines
      <3> HIDE DEF line
      <3> QED
        BY <3>1, <3>2, <3>3
    <2>3. \/ new[n + 1].unit = UnitOf(d)
          \/ /\ n + 1 > 1 /\ IsSample(new[n])
             /\ UnitOf(new[n].data) = UnitOf(d)
      <3>1. CASE l = NoLast
        BY <2>2, <3>1 DEF NoLast
      <3>2. CASE lines # <<>> /\ \E t \in Sampled(c) :
                   lines[n] = SampleLine(c[t]) /\ l = StyleOf(c[t])
        <4>1. PICK t \in Sampled(c) :
                     lines[n] = SampleLine(c[t]) /\ l = StyleOf(c[t])
          BY <3>2
        <4>2. PICK e \in Samples : lines[n] = SampleLine(e) /\ l = StyleOf(e)
          BY <4>1, SampledIsSample
        <4>3. n \in 1 .. n /\ n + 1 > 1
          BY <1>1, <1>2, <3>2
        <4>4. IsSample(new[n]) /\ UnitOf(new[n].data) = l.unit
          BY <1>1, <4>2, <4>3, KindsOfLines DEF StyleOf
        <4> QED
          BY <2>2, <4>3, <4>4
      <3> QED
        BY <3>1, <3>2 DEF RemembersLast, n
    <2>4. Announced(new, n + 2)
      BY <2>1, <2>2, <2>3 DEF Announced
    <2>5. \A i \in DOMAIN new : i \in 1 .. n \/ i = n + 1 \/ i = n + 2
      BY <1>1, <1>5
    <2> QED
      BY <1>3, <1>4, <2>2, <2>4, <2>5 DEF EachAnnounced
  <1>6. CASE ~ NewHeaders(l, d)
    <2>1. l.name = NameOf(d) /\ l.type = TypeOf(d) /\ l.unit = UnitOf(d)
      BY <1>6 DEF NewHeaders
    <2>2. l # NoLast
      BY <1>0, <2>1, ScrapeAssumption DEF NoLast
    <2>3. PICK t \in Sampled(c) :
                 lines[n] = SampleLine(c[t]) /\ l = StyleOf(c[t])
      BY <2>2 DEF RemembersLast, n
    <2>4. PICK e \in Samples : lines[n] = SampleLine(e) /\ l = StyleOf(e)
      BY <2>3, SampledIsSample
    <2>5. n \in 1 .. n
      <3>1. lines # <<>>
        BY <2>2 DEF RemembersLast
      <3> QED
        BY <1>1, <1>2, <3>1
    <2>6. /\ IsSample(new[n]) /\ new[n].data = e
          /\ NameOf(e) = NameOf(d) /\ TypeOf(e) = TypeOf(d)
          /\ UnitOf(e) = UnitOf(d)
      BY <1>1, <2>1, <2>4, <2>5, KindsOfLines DEF StyleOf
    <2>7. Announced(new, n)
      BY <1>3, <2>5, <2>6
    <2>8. PICK j \in 1 .. n - 1 :
            /\ IsHeaders(new[j]) /\ new[j].name = NameOf(e)
            /\ new[j].type = TypeOf(e)
            /\ \A k \in j + 1 .. n - 1 : IsSample(new[k])
            /\ \/ new[j].unit = UnitOf(e)
               \/ /\ j > 1 /\ IsSample(new[j - 1])
                  /\ UnitOf(new[j - 1].data) = UnitOf(e)
      BY <2>6, <2>7 DEF Announced
    <2>9. /\ j \in 1 .. (n + 1) - 1 /\ new[n + 1].data = d
          /\ \A k \in j + 1 .. (n + 1) - 1 : k = n \/ k \in j + 1 .. n - 1
      <3>1. new[n + 1] = SampleLine(d)
        BY <1>1, <1>6
      <3>2. new[n + 1].data = d
        BY <3>1, KindsOfLines
      <3>3. n \in Nat
        BY <1>1
      <3> QED
        BY <3>2, <3>3
    <2>10. \A k \in j + 1 .. (n + 1) - 1 : IsSample(new[k])
      BY <2>6, <2>8, <2>9
    <2>11. Announced(new, n + 1)
      BY <2>6, <2>8, <2>9, <2>10 DEF Announced
    <2>12. \A i \in DOMAIN new : i \in 1 .. n \/ i = n + 1
      <3>1. n \in Nat
        BY <1>1
      <3>2. DOMAIN new = 1 .. n + 1
        BY <1>1, <1>6
      <3>3. \A i \in 1 .. n + 1 : i \in 1 .. n \/ i = n + 1
        BY <3>1
      <3> QED
        BY <3>2, <3>3
    <2> QED
      BY <1>3, <1>4, <2>11, <2>12 DEF EachAnnounced
  <1> QED
    BY <1>5, <1>6

(***************************************************************************)
(* A sample gets headers when its metric is another than the last, and     *)
(* then none of its metric was there before.                               *)
(***************************************************************************)
LEMMA NextIsNew ==
  ASSUME NEW lines \in Seq(Formatted), NEW c \in Contents, OneStyle(c),
         NEW q \in Seq(Sampled(c)), q # <<>>, NEW l,
         NEW d \in Samples, d = c[Head(q)], NEW new, new = lines \o Serialized(l, d),
         RemembersLast(c, lines, l), NoneRepeats(lines, c, q, l.name)
  PROVE  NoneRepeats(new, c, Tail(q), NameOf(d))
PROOF
  <1> DEFINE n == Len(lines)
             h == Headers(d, l.unit # UnitOf(d))
             rest == Tail(q)
  <1>0. /\ NoneTwice(lines) /\ Together(c, q)
        /\ LastComesFirst(c, q, l.name) /\ NoneAgain(lines, c, q, l.name)
    BY DEF NoneRepeats
  <1>1. Head(q) \in Sampled(c)
    BY HeadTailProperties
  <1>2. /\ Len(q) \in Nat \ {0} /\ DOMAIN q = 1 .. Len(q)
        /\ DOMAIN rest = 1 .. Len(q) - 1 /\ Head(q) = q[1]
        /\ \A i \in 1 .. Len(q) - 1 : rest[i] = q[i + 1]
    BY HeadTailProperties, LenProperties, EmptySeq
  <1> HIDE DEF rest
  <1>3. \A i \in DOMAIN rest :
          /\ i \in 1 .. Len(q) - 1 /\ i + 1 \in DOMAIN q /\ 1 < i + 1
          /\ NameIn(c, rest, i) = NameIn(c, q, i + 1)
    BY <1>2 DEF NameIn
  <1>4. 1 \in DOMAIN q /\ NameIn(c, q, 1) = NameOf(d)
    BY <1>2 DEF NameIn
  <1>5. /\ n \in Nat /\ DOMAIN lines = 1 .. n /\ DOMAIN new = 1 .. Len(new)
        /\ \A k \in 1 .. n : new[k] = lines[k]
        /\ NewHeaders(l, d) => /\ Len(new) = n + 2
                               /\ new[n + 1] = h /\ new[n + 2] = SampleLine(d)
        /\ ~ NewHeaders(l, d) => Len(new) = n + 1 /\ new[n + 1] = SampleLine(d)
    <2>1. Grown(new, lines, l, d)
      BY NextLines
    <2> QED
      BY <2>1 DEF Grown
  <1> HIDE DEF n
  <1>6. Together(c, rest)
    <2> SUFFICES ASSUME NEW i \in DOMAIN rest, NEW j \in DOMAIN rest,
                        NEW k \in DOMAIN rest, i < j, j < k,
                        NameIn(c, rest, i) = NameIn(c, rest, k)
                 PROVE  NameIn(c, rest, j) = NameIn(c, rest, i)
      BY DEF Together
    <2>1. i + 1 < j + 1 /\ j + 1 < k + 1
      BY <1>3
    <2> QED
      BY <1>0, <1>3, <2>1 DEF Together
  <1>7. LastComesFirst(c, rest, NameOf(d))
    <2> SUFFICES ASSUME NEW i \in DOMAIN rest, NEW j \in DOMAIN rest, i < j,
                        NameIn(c, rest, j) = NameOf(d)
                 PROVE  NameIn(c, rest, i) = NameOf(d)
      BY DEF LastComesFirst
    <2>1. 1 < i + 1 /\ i + 1 < j + 1
      BY <1>3
    <2>2. NameIn(c, q, i + 1) = NameIn(c, q, 1)
      BY <1>0, <1>3, <1>4, <2>1 DEF Together
    <2> QED
      BY <1>3, <1>4, <2>2
  <1>8. CASE l.name = NameOf(d)
    <2>1. ~ NewHeaders(l, d)
      <3>1. l # NoLast
        BY <1>1, <1>8, ScrapeAssumption DEF NoLast
      <3>2. PICK s \in Sampled(c) : l = StyleOf(c[s])
        BY <3>1 DEF RemembersLast
      <3>3. l.name = NameOf(c[s]) /\ l.type = TypeOf(c[s]) /\ l.unit = UnitOf(c[s])
        BY <3>2 DEF StyleOf
      <3>4. TypeOf(c[s]) = TypeOf(d) /\ UnitOf(c[s]) = UnitOf(d)
        BY <1>1, <1>8, <3>3 DEF OneStyle, Sampled
      <3> QED
        BY <1>8, <3>3, <3>4 DEF NewHeaders
    <2>2. /\ n \in Nat /\ DOMAIN new = 1 .. n + 1
          /\ new[n + 1] = SampleLine(d) /\ ~ IsHeaders(new[n + 1])
      BY <1>5, <2>1, KindsOfLines
    <2>3. \A i \in DOMAIN new : IsHeaders(new[i]) =>
            i \in DOMAIN lines /\ new[i] = lines[i]
      <3>1. \A i \in DOMAIN new : i = n + 1 \/ i \in 1 .. n
        BY <2>2
      <3> QED
        BY <1>5, <2>2, <3>1
    <2>4. NoneTwice(new)
      BY <1>0, <2>3 DEF NoneTwice
    <2>5. NoneAgain(new, c, rest, NameOf(d))
      BY <1>0, <1>3, <1>8, <2>3 DEF NoneAgain
    <2> QED
      BY <1>6, <1>7, <2>4, <2>5 DEF NoneRepeats, rest
  <1>9. CASE l.name # NameOf(d)
    <2>1. NewHeaders(l, d)
      BY <1>9 DEF NewHeaders
    <2>2. /\ n \in Nat /\ DOMAIN new = 1 .. n + 2
          /\ new[n + 1] = h /\ new[n + 2] = SampleLine(d)
      BY <1>5, <2>1
    <2>3. h.name = NameOf(d) /\ ~ IsHeaders(new[n + 2])
      BY <2>2, KindsOfLines DEF Headers
    <2>4. \A i \in DOMAIN new : IsHeaders(new[i]) =>
            \/ i = n + 1
            \/ i \in DOMAIN lines /\ new[i] = lines[i]
      <3>1. \A i \in DOMAIN new : i = n + 1 \/ i = n + 2 \/ i \in 1 .. n
        <4>1. n \in Nat /\ DOMAIN new = 1 .. n + 2
          BY <2>2
        <4> QED
          BY <4>1
      <3> QED
        BY <1>5, <2>2, <2>3, <3>1
    <2>5. \A i \in DOMAIN lines :
            IsHeaders(lines[i]) => lines[i].name # NameOf(d)
      BY <1>0, <1>4, <1>9 DEF NoneAgain
    <2>6. NoneTwice(new)
      <3> SUFFICES ASSUME NEW i \in DOMAIN new, NEW j \in DOMAIN new,
                          IsHeaders(new[i]), IsHeaders(new[j]),
                          new[i].name = new[j].name
                   PROVE  i = j
        BY DEF NoneTwice
      <3>1. new[n + 1].name = NameOf(d)
        BY <2>2, <2>3
      <3>2. CASE i = n + 1
        BY <2>4, <2>5, <3>1, <3>2
      <3>3. CASE j = n + 1
        BY <2>4, <2>5, <3>1, <3>3
      <3>4. CASE i # n + 1 /\ j # n + 1
        BY <1>0, <2>4, <3>4 DEF NoneTwice
      <3> QED
        BY <3>2, <3>3, <3>4
    <2>7. ASSUME NEW i \in DOMAIN lines, IsHeaders(lines[i]),
                 NEW k \in DOMAIN rest, NameIn(c, rest, k) = lines[i].name
          PROVE  FALSE
      <3>1. NameIn(c, q, k + 1) = lines[i].name /\ k + 1 \in DOMAIN q
            /\ 1 < k + 1
        BY <1>3, <2>7
      <3>2. lines[i].name = l.name
        BY <1>0, <2>7, <3>1 DEF NoneAgain
      <3>3. NameIn(c, q, 1) = l.name
        BY <1>0, <1>4, <3>1, <3>2 DEF LastComesFirst
      <3> QED
        BY <1>4, <1>9, <3>3
    <2>8. NoneAgain(new, c, rest, NameOf(d))
      BY <2>2, <2>3, <2>4, <2>7 DEF NoneAgain
    <2> QED
      BY <1>6, <1>7, <2>6, <2>8 DEF NoneRepeats, rest
  <1> QED
    BY <1>8, <1>9

\* The series the cache has samples of are grouped, as the order is.
LEMMA ThereIsTogether ==
  ASSUME NEW c \in Contents, Broughts(c)
  PROVE  Together(c, There(c))
PROOF
  <1> DEFINE q == There(c)
  <1>1. PICK g : Picks(g, q, Order, Len(Order))
    BY ScrapeAssumption, ThosePicked DEF There
  <1>2. q \in Seq(Sampled(c))
    BY ThereIsSampled
  <1> HIDE DEF q
  <1>3. /\ DOMAIN q = 1 .. Len(q) /\ DOMAIN Order = 1 .. Len(Order)
        /\ \A i \in DOMAIN q : q[i] \in Sampled(c)
    BY <1>2, ScrapeAssumption, LenProperties, ElementOfSeq
  <1>4. /\ \A i \in DOMAIN q : g[i] \in DOMAIN Order /\ q[i] = Order[g[i]]
        /\ \A i, j \in DOMAIN q : i < j => g[i] < g[j]
    BY <1>1, <1>3 DEF Picks
  <1>5. \A i \in DOMAIN q : c[q[i]] \in Brought(Order[g[i]])
    BY <1>3, <1>4 DEF Broughts
  <1> SUFFICES ASSUME NEW i \in DOMAIN q, NEW j \in DOMAIN q, NEW k \in DOMAIN q,
                      i < j, j < k, NameIn(c, q, i) = NameIn(c, q, k)
               PROVE  NameIn(c, q, j) = NameIn(c, q, i)
    BY DEF Together, q
  <1>6. /\ g[i] < g[j] /\ g[j] < g[k]
        /\ NameOf(c[q[i]]) = NameOf(c[q[k]])
    BY <1>4 DEF NameIn
  <1>7. NameOf(c[q[j]]) = NameOf(c[q[i]])
    BY <1>4, <1>5, <1>6, AnnounceAssumption
  <1> QED
    BY <1>7 DEF NameIn

LEMMA BroughtStep ==
  ASSUME TypeOK, Broughts(cache), [Next]_vars
  PROVE  Broughts(cache)'
PROOF
  <1>1. ASSUME NEW new \in Messages, AddMessage(new)  PROVE Broughts(cache)'
    <2>1. \A s \in Series : cache'[s] = IF s \in DOMAIN new THEN new[s]
                                                            ELSE cache[s]
      BY <1>1 DEF AddMessage
    <2> QED
      BY <2>1 DEF Broughts, Brought, Sampled
  <1>2. CASE UNCHANGED cache
    BY <1>2 DEF Broughts, Sampled
  <1> QED
    BY <1>1, <1>2
    DEF Next, GetStep, StartGet, ClearBody, LockCache, VisitSample,
        UnlockCache, FormatHeader, WriteHeader, WriteBody, vars

LEMMA OthersKeepAnnouncing ==
  ASSUME Inv, AnnounceInv, NEW u \in Workers, NEW w \in Workers, w # u,
         GetStep(w), alone[u]'
  PROVE  Announcing(u)'
PROOF
  <1>1. /\ at \in [Workers -> Points] /\ alone \in [Workers -> BOOLEAN]
        /\ reply \in [Workers -> [length : Nat, body : Seq(Lines)]]
        /\ took \in [Workers -> Contents]
    BY DEF Inv, TypeOK
  <1>2. /\ alone[u] /\ at'[u] = at[u] /\ reply'[u] = reply[u]
        /\ took'[u] = took[u]
    BY <1>1 DEF GetStep, StartGet, ClearBody, LockCache, VisitSample,
                UnlockCache, FormatHeader, WriteHeader, WriteBody, Go
  <1>3. ~ Busy(u)
    BY OthersAreIdle
  <1>4. at'[u] \in {"idle", "done"}
    BY <1>2, <1>3 DEF Busy
  <1>5. Announcing(u)
    BY <1>2 DEF AnnounceInv
  <1> QED
    BY <1>2, <1>4, <1>5 DEF Announcing

LEMMA AnnouncingStep ==
  ASSUME Inv, AnnounceInv, NEW w \in Workers, GetStep(w), alone[w]'
  PROVE  Announcing(w)'
PROOF
  <1>1. /\ at \in [Workers -> Points] /\ alone \in [Workers -> BOOLEAN]
        /\ reply \in [Workers -> [length : Nat, body : Seq(Lines)]]
        /\ took \in [Workers -> Contents] /\ cache \in Contents
        /\ left \in [Workers -> Seq(Series)] /\ last \in [Workers -> Styles]
    BY DEF Inv, TypeOK
  <1>2. ~ StartGet(w) =>
          alone[w] /\ Formatting(w) /\ Announcing(w) /\ at[w] # "idle"
    BY <1>1 DEF Inv, AnnounceInv, GetStep, ClearBody, LockCache, VisitSample,
                UnlockCache, FormatHeader, WriteHeader, WriteBody, Go
  <1>3. at[w] \notin {"idle", "done"} /\ alone[w] => ~ OthersBusy(w)
    BY DEF Inv, AloneIsAlone, Busy
  <1>4. CASE StartGet(w)
    BY <1>1, <1>4 DEF StartGet, Announcing
  <1>5. CASE ClearBody(w)
    BY <1>1, <1>2, <1>5 DEF ClearBody, StartGet, Go, Announcing
  <1>6. CASE LockCache(w)
    <2>1. /\ at[w] = "lock" /\ at'[w] = "visit" /\ left'[w] = There(cache)
          /\ took'[w] = cache /\ body' = body /\ last' = last
      BY <1>1, <1>6 DEF LockCache, Go, buffers
    <2>2. body = <<>> /\ last[w] = NoLast
      BY <1>2, <2>1 DEF StartGet, Formatting, Announcing
    <2>3. DOMAIN body = {}
      BY <2>2
    <2>4. Broughts(cache)
      BY DEF AnnounceInv
    <2>5. Together(cache, There(cache))
      BY <1>1, <2>4, ThereIsTogether
    <2>6. LastComesFirst(cache, There(cache), NoLast.name)
      <3> DEFINE q == There(cache)
      <3>1. q \in Seq(Sampled(cache))
        BY <1>1, ThereIsSampled
      <3> HIDE DEF q
      <3>2. \A j \in DOMAIN q : q[j] \in Sampled(cache)
        BY <3>1, LenProperties, ElementOfSeq
      <3>3. \A j \in DOMAIN q : NameIn(cache, q, j) # NoLast.name
        BY <1>1, <3>2, SampledIsSample, ScrapeAssumption DEF NameIn, NoLast
      <3>4. LastComesFirst(cache, q, NoLast.name)
        BY <3>3 DEF LastComesFirst
      <3> QED
        BY <3>4 DEF q
    <2>7. NoneAgain(body, cache, There(cache), NoLast.name)
      BY <2>3 DEF NoneAgain
    <2>8. /\ EachAnnounced(body) /\ NoneTwice(body)
          /\ RemembersLast(cache, body, NoLast)
      BY <2>2, <2>3 DEF EachAnnounced, NoneTwice, RemembersLast
    <2>9. NoneRepeats(body, cache, There(cache), NoLast.name)
      BY <2>5, <2>6, <2>7, <2>8 DEF NoneRepeats
    <2> QED
      BY <2>1, <2>2, <2>8, <2>9 DEF Announcing
  <1>7. CASE VisitSample(w)
    <2> DEFINE q == left[w]
               c == took[w]
               d == c[Head(q)]
               l == last[w]
               new == body \o Serialized(l, d)
    <2>1. /\ at[w] = "visit" /\ at' = at /\ took' = took
          /\ left'[w] = Tail(q) /\ q # <<>> /\ last'[w] = StyleOf(d)
          /\ c = cache /\ q \in Seq(Sampled(c)) /\ c \in Contents
          /\ AppendBody(w, body, Serialized(l, d))
      BY <1>1, <1>7 DEF VisitSample, Inv, VisitSeesOneCache, StyleOf
    <2>2. /\ ~ OthersBusy(w) /\ body \in Seq(Formatted)
          /\ RemembersLast(c, body, l) /\ EachAnnounced(body)
          /\ OneStyle(c) => NoneRepeats(body, c, q, l.name)
      BY <1>2, <1>3, <2>1 DEF StartGet, Formatting, Announcing
    <2> HIDE DEF q, c, l
    <2>3. Head(q) \in Sampled(c) /\ d \in Samples
      BY <2>1, HeadTailProperties, SampledIsSample
    <2>4. Serialized(l, d) \in Seq(Formatted)
      BY <2>3, SerializedLines
    <2>5. body' = new
      BY <2>1, <2>2, <2>4, AppendedAlone
    <2>6. EachAnnounced(new) /\ RemembersLast(c, new, StyleOf(d))
      <3> DEFINE s == Head(q)
      <3>1. s \in Sampled(c) /\ d = c[s] /\ new = body \o Serialized(l, d)
        BY <2>3
      <3>2. c \in Contents /\ body \in Seq(Formatted)
        BY <2>1, <2>2
      <3>3. RemembersLast(c, body, l) /\ EachAnnounced(body)
        BY <2>2
      <3> HIDE DEF s, d, new
      <3> QED
        BY <3>1, <3>2, <3>3, NextIsAnnounced
    <2>7. OneStyle(c) => NoneRepeats(new, c, Tail(q), NameOf(d))
      <3>1. d = c[Head(q)] /\ d \in Samples /\ new = body \o Serialized(l, d)
        BY <2>3
      <3>2. c \in Contents /\ q \in Seq(Sampled(c)) /\ q # <<>>
        BY <2>1
      <3> HIDE DEF d, new
      <3> QED
        BY <2>2, <3>1, <3>2, NextIsNew
    <2>8. StyleOf(d).name = NameOf(d)
      BY DEF StyleOf
    <2> HIDE DEF d, new
    <2> QED
      BY <2>1, <2>5, <2>6, <2>7, <2>8 DEF Announcing, q, c
  <1>8. CASE UnlockCache(w)
    <2>1. /\ at[w] = "visit" /\ at'[w] = "format" /\ body' = body
          /\ took' = took
      BY <1>1, <1>8 DEF UnlockCache, Go, buffers
    <2> QED
      BY <1>2, <2>1 DEF StartGet, Announcing, NoneRepeats, WellAnnounced
  <1>9. CASE FormatHeader(w)
    <2>1. /\ at[w] = "format" /\ at'[w] = "writeHeader" /\ body' = body
          /\ took' = took
      BY <1>1, <1>9 DEF FormatHeader, Go
    <2> QED
      BY <1>2, <2>1 DEF StartGet, Announcing
  <1>10. CASE WriteHeader(w)
    <2>1. /\ at[w] = "writeHeader" /\ at'[w] = "writeBody" /\ body' = body
          /\ took' = took
      BY <1>1, <1>10 DEF WriteHeader, Go, buffers
    <2> QED
      BY <1>2, <2>1 DEF StartGet, Announcing
  <1>11. CASE WriteBody(w)
    <2>1. /\ at[w] = "writeBody" /\ at'[w] = "done" /\ reply'[w].body = body
          /\ took' = took
      BY <1>1, <1>11 DEF WriteBody, Go, buffers
    <2> QED
      BY <1>2, <2>1 DEF StartGet, Announcing
  <1> QED
    BY <1>4, <1>5, <1>6, <1>7, <1>8, <1>9, <1>10, <1>11 DEF GetStep

LEMMA AnnounceStep == Inv /\ AnnounceInv /\ [Next]_vars => AnnounceInv'
PROOF
  <1> SUFFICES ASSUME Inv, AnnounceInv, [Next]_vars  PROVE AnnounceInv'
    OBVIOUS
  <1>1. Broughts(cache)'
    BY BroughtStep DEF Inv, AnnounceInv
  <1>2. ASSUME NEW u \in Workers, alone[u]'  PROVE Announcing(u)'
    <2>1. CASE \E new \in Messages : AddMessage(new)
      BY <1>2, <2>1 DEF AddMessage, getVars, buffers, AnnounceInv, Announcing
    <2>2. ASSUME NEW w \in Workers, GetStep(w)  PROVE Announcing(u)'
      BY <1>2, <2>2, OthersKeepAnnouncing, AnnouncingStep
    <2>3. CASE UNCHANGED vars
      BY <1>2, <2>3 DEF vars, getVars, buffers, AnnounceInv, Announcing
    <2> QED
      BY <2>1, <2>2, <2>3 DEF Next
  <1> QED
    BY <1>1, <1>2 DEF AnnounceInv

(***************************************************************************)
(* In an answer no other was made during, every sample has the headers of  *)
(* its metric last before it, and no metric is announced twice if the      *)
(* samples of a metric have one style, given that Visit has its series     *)
(* together.                                                               *)
(***************************************************************************)
THEOREM AnswersAreAnnounced == Spec => []AnswerIsAnnounced
PROOF
  <1>1. Init => AnnounceInv
    <2>1. SUFFICES ASSUME Init  PROVE AnnounceInv
      OBVIOUS
    <2>2. Broughts(cache)
      BY <2>1 DEF Init, Broughts, Sampled
    <2>3. \A w \in Workers : Announcing(w)
      BY <2>1 DEF Init, Announcing
    <2> QED
      BY <2>2, <2>3 DEF AnnounceInv
  <1>2. AnnounceInv => AnswerIsAnnounced
    BY DEF AnnounceInv, Announcing, AnswerIsAnnounced, Sound
  <1> QED
    BY <1>1, <1>2, InvAtInit, InvStep, AnnounceStep, PTL DEF Spec
=============================================================================
