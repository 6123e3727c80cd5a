------------------------- MODULE TurnRequest_proofs -------------------------
(***************************************************************************)
(* POST /turns as a whole.  For every setting of the deadlines that fits   *)
(* the caller's patience, phase 1 is over in time and phase 2 has a vector *)
(* for each candidate; whatever the model does, the rules catch the rest;  *)
(* for any calls, any number of requests and any limit, the buffer of a    *)
(* body is bounded, and what is handled is whole.                          *)
(***************************************************************************)
EXTENDS TurnRequest, Induction

----------------------------------------------------------------------------
\* Phase 1: Extraction, and TurnRequest, which implements it.

\* Where the calls stand: a batch runs only in "batch", and only an embedding
\* is tried again.
CallsOK ==
    /\ now \in Nat
    /\ pc \in {"gather", "batch", "store", "error"}
    /\ task \in [NetworkCalls -> {"first", "pause", "second", "over"}]
    /\ due \in [NetworkCalls -> Nat]
    /\ task["extract"] \in {"first", "over"}
    /\ task["batch"] = IF pc = "batch" THEN "first" ELSE "over"
    /\ pc \in {"batch", "store"} => task["extract"] = "over"

\* A pending call is before its timer, and the timer of the embedding counts the
\* attempts made.
TimersOK ==
    /\ Pending("extract") => now <= due["extract"] /\ due["extract"] = ExtractionTimeout
    /\ Pending("embed") => now <= due["embed"]
    /\ task["embed"] = "first" => due["embed"] <= EmbedTimeout
    /\ task["embed"] = "pause" => due["embed"] <= EmbedTimeout + RetryPause
    /\ task["embed"] = "second" => due["embed"] <= 2 * EmbedTimeout + RetryPause
    /\ Pending("batch") =>
          /\ now <= due["batch"]
          /\ \/ due["batch"] <= 2 * EmbedTimeout + RetryPause + BatchTimeout
             \/ due["batch"] <= ExtractionTimeout + BatchTimeout

\* How late it can be: in "gather" no later than the slower of the two calls.
ClockOK ==
    \/ now <= 2 * EmbedTimeout + RetryPause
    \/ now <= ExtractionTimeout
    \/ pc \in {"batch", "store"} /\ now <= 2 * EmbedTimeout + RetryPause + BatchTimeout
    \/ pc \in {"batch", "store"} /\ now <= ExtractionTimeout + BatchTimeout

TimeInv == CallsOK /\ TimersOK /\ ClockOK

\* The inductive invariant holds at first.
LEMMA TimeInvInit == PhaseOneInit => TimeInv
  BY ExtractionAssumption DEF PhaseOneInit, TimeInv, CallsOK, TimersOK, ClockOK, Pending, NetworkCalls

\* A step of the embedding keeps it: the first timer starts with the request, the
\* next two when the last one fires or before.
LEMMA EmbedKeepsTime ==
    ASSUME TimeInv, EmbedAnswers \/ EmbedTimesOut \/ EmbedRetries
    PROVE  TimeInv'
<1> USE ExtractionAssumption DEF TimeInv, CallsOK, TimersOK, ClockOK, Pending, NetworkCalls
<1>1. CASE EmbedAnswers
  BY <1>1 DEF EmbedAnswers, Over
<1>2. CASE EmbedTimesOut
  BY <1>2 DEF EmbedTimesOut, Start, Over
<1>3. CASE EmbedRetries
  BY <1>3 DEF EmbedRetries, Start
<1> QED
  BY <1>1, <1>2, <1>3

\* So does a step of the extraction.
LEMMA ExtractKeepsTime ==
    ASSUME TimeInv, ExtractAnswers \/ ExtractTimesOut
    PROVE  TimeInv'
<1> USE ExtractionAssumption DEF TimeInv, CallsOK, TimersOK, ClockOK, Pending, NetworkCalls
<1>1. CASE ExtractAnswers
  BY <1>1 DEF ExtractAnswers, Over
<1>2. CASE ExtractTimesOut
  BY <1>2 DEF ExtractTimesOut, Over
<1> QED
  BY <1>1, <1>2

\* And the steps that join the calls.
LEMMA JoinKeepsTime ==
    ASSUME TimeInv, Gathered \/ BatchEnds
    PROVE  TimeInv'
<1> USE ExtractionAssumption DEF TimeInv, CallsOK, TimersOK, ClockOK, Pending, NetworkCalls
<1>1. CASE Gathered
  <2>1. \/ pc' = "batch" /\ Start("batch", "first", BatchTimeout)
        \/ pc' = "store" /\ UNCHANGED <<task, due>>
    BY <1>1 DEF Gathered
  <2>2. /\ now' = now
        /\ pc = "gather"
        /\ task["embed"] = "over" /\ task["extract"] = "over"
        /\ now <= 2 * EmbedTimeout + RetryPause \/ now <= ExtractionTimeout
    BY <1>1 DEF Gathered, BothOver
  <2>3. CASE pc' = "store" /\ UNCHANGED <<task, due>>
    BY <2>2, <2>3
  <2>4. CASE pc' = "batch" /\ Start("batch", "first", BatchTimeout)
    <3>1. /\ task' = [task EXCEPT !["batch"] = "first"]
          /\ due' = [due EXCEPT !["batch"] = now + BatchTimeout]
      BY <2>4 DEF Start
    <3>2. CallsOK'
      BY <2>2, <2>4, <3>1
    <3>3. TimersOK'
      BY <2>2, <2>4, <3>1
    <3> QED
      BY <2>2, <2>4, <3>2, <3>3
  <2> QED
    BY <2>1, <2>3, <2>4
<1>2. CASE BatchEnds
  BY <1>2 DEF BatchEnds, Over
<1> QED
  BY <1>1, <1>2

\* The clock moves only while a call is pending, and never past its timer.
LEMMA TickKeepsTime ==
    ASSUME TimeInv, Tick
    PROVE  TimeInv'
<1> USE ExtractionAssumption DEF TimeInv, CallsOK, Pending, NetworkCalls
<1>1. CallsOK'
  BY DEF Tick
<1>2. \A c \in NetworkCalls : Pending(c) => now + 1 <= due[c]
  BY DEF Tick, Deadline
<1>3. TimersOK'
  BY <1>2 DEF Tick, TimersOK
<1>4. Pending("embed") \/ Pending("extract") \/ Pending("batch")
  BY DEF Tick, BothOver
<1>5. ClockOK'
  BY <1>2, <1>4 DEF Tick, TimersOK, ClockOK
<1> QED
  BY <1>1, <1>3, <1>5

\* Every step keeps the inductive invariant.
LEMMA TimeInvStep == TimeInv /\ [PhaseOneNext]_phaseOneVars => TimeInv'
<1> SUFFICES ASSUME TimeInv, [PhaseOneNext]_phaseOneVars PROVE TimeInv'
  OBVIOUS
<1>1. CASE UNCHANGED phaseOneVars
  BY <1>1 DEF phaseOneVars, TimeInv, CallsOK, TimersOK, ClockOK, Pending
<1>2. CASE PhaseOneNext
  BY <1>2, EmbedKeepsTime, ExtractKeepsTime, JoinKeepsTime, TickKeepsTime DEF PhaseOneNext
<1> QED
  BY <1>1, <1>2

\* The whole of a turn's request implements phase 1: nothing else touches it.
THEOREM TurnRequestImplementsPhaseOne == TurnRequestSpec => PhaseOneSpec
<1>1. TurnRequestInit => PhaseOneInit
  BY DEF TurnRequestInit
<1>2. [TurnRequestNext]_requestVars => [PhaseOneNext]_phaseOneVars
  BY DEF requestVars, TurnRequestNext, OutsideStep, AdmitStep, OtherHandler,
         PhaseOneStep, StoreTurn, PhaseOneRaises
<1> QED
  BY <1>1, <1>2, PTL DEF TurnRequestSpec, PhaseOneSpec

\* Phase 1 is never longer than its caller waits: whatever the deadlines, if one
\* retried embedding, or the extraction, and then the batch fit the patience.
THEOREM PhaseOneIsInTime == TurnRequestSpec => []PhaseOneInTime
<1>1. TimeInv => PhaseOneInTime
  BY ExtractionAssumption, DeadlinesFit DEF TimeInv, CallsOK, ClockOK, PhaseOneInTime
<1> QED
  BY <1>1, TimeInvInit, TimeInvStep, TurnRequestImplementsPhaseOne, PTL DEF PhaseOneSpec

----------------------------------------------------------------------------
\* The candidates no longer change once they are embedded.
PairInv == CallsOK /\ VectorsPairUp

\* Every step keeps candidates and vectors in pairs: the batch answers with as
\* many as it was asked for, whether it fails or not, and by then the extraction
\* is over.
LEMMA PairInvStep == TimeInv /\ PairInv /\ [PhaseOneNext]_phaseOneVars => PairInv'
<1> SUFFICES ASSUME TimeInv, PairInv, [PhaseOneNext]_phaseOneVars PROVE VectorsPairUp'
  BY TimeInvStep DEF PairInv, TimeInv
<1> USE DEF PairInv, CallsOK, VectorsPairUp
<1>1. CASE UNCHANGED phaseOneVars
  BY <1>1 DEF phaseOneVars
<1>2. CASE EmbedAnswers \/ EmbedTimesOut \/ EmbedRetries
  BY <1>2 DEF EmbedAnswers, EmbedTimesOut, EmbedRetries
<1>3. CASE ExtractAnswers
  BY <1>3 DEF ExtractAnswers
<1>4. CASE ExtractTimesOut
  BY <1>4 DEF ExtractTimesOut
<1>5. CASE Gathered
  BY <1>5 DEF Gathered
<1>6. CASE BatchEnds
  BY <1>6 DEF BatchEnds, Vectors
<1>7. CASE Tick
  BY <1>7 DEF Tick
<1> QED
  BY <1>1, <1>2, <1>3, <1>4, <1>5, <1>6, <1>7 DEF PhaseOneNext

\* Whatever the network does, phase 2 finds a vector, or None, for each of its
\* candidates.
THEOREM EachCandidateHasItsVector == TurnRequestSpec => []VectorsPairUp
<1>1. PhaseOneInit => PairInv
  BY TimeInvInit DEF PhaseOneInit, PairInv, TimeInv, VectorsPairUp
<1>2. PairInv => VectorsPairUp
  BY DEF PairInv
<1> QED
  BY <1>1, <1>2, TimeInvInit, TimeInvStep, PairInvStep, TurnRequestImplementsPhaseOne,
     PTL DEF PhaseOneSpec

----------------------------------------------------------------------------
\* What the rules find: the first line of each of the user's messages is read, and
\* every usable match in it is collected once.

\* A line of the flattened text.
TextLine ==
    [role : {"user", "assistant", "tool", "system", "garbled", "none"}, line : Line, empty : BOOLEAN]

\* A message's first line bears what is read of its role and name.
LEMMA FirstLine ==
  ASSUME NEW m \in Message
  PROVE  /\ Flattened(m) \in Seq(TextLine)
         /\ m.lines # <<>> => /\ 1 \in DOMAIN m.lines /\ 1 \in DOMAIN Flattened(m)
                              /\ Flattened(m)[1] = FlatLine(Heading(m), m.lines[1])
<1>1. Heading(m) \in {"user", "assistant", "tool", "system", "garbled"} /\ m.lines \in Seq(Line)
  BY DEF Message, Heading
<1>2. CASE m.lines = <<>>
  <2> DEFINE l == [role |-> Heading(m), line |-> [matches |-> <<>>, user |-> FALSE],
                   empty |-> Heading(m) = m.role]
  <2>1. <<>> \in Seq(Match)
    OBVIOUS
  <2>2. [matches |-> <<>>, user |-> FALSE] \in Line
    BY <2>1 DEF Line
  <2>3. l \in TextLine
    BY <1>1, <2>2 DEF TextLine
  <2>4. Flattened(m) = <<l>>
    BY <1>2 DEF Flattened
  <2> HIDE DEF l
  <2> QED
    BY <1>2, <2>3, <2>4
<1>3. CASE m.lines # <<>>
  <2> DEFINE n == Len(m.lines)
  <2>1. n \in Nat /\ DOMAIN m.lines = 1..n /\ 1 \in 1..n
    BY <1>1, <1>3
  <2>2. Flattened(m) = [i \in 1..n |-> FlatLine(IF i = 1 THEN Heading(m) ELSE "none", m.lines[i])]
    BY <1>3, <2>1 DEF Flattened
  <2>3. ASSUME NEW i \in 1..n PROVE FlatLine(IF i = 1 THEN Heading(m) ELSE "none", m.lines[i]) \in TextLine
    <3>1. m.lines[i] \in Line
      BY <1>1, <2>1
    <3> QED
      BY <1>1, <3>1 DEF FlatLine, TextLine
  <2> HIDE DEF n
  <2> QED
    BY <2>1, <2>2, <2>3
<1> QED
  BY <1>2, <1>3

\* The text has the first line of each of the user's messages that can be told to be one.
LEMMA TextHasFirstLines ==
  ASSUME NEW ms \in Seq(Message)
  PROVE  /\ FlattenMessages(ms) \in Seq(TextLine)
         /\ \A p \in DOMAIN ms : Spoken(ms[p]) /\ Legible(ms[p]) =>
               \E i \in DOMAIN FlattenMessages(ms) : FlattenMessages(ms)[i] = FlatLine("user", ms[p].lines[1])
<1> DEFINE ss == [i \in DOMAIN ms |-> Flattened(ms[i])]
           t == FlattenMessages(ms)
<1>1. Len(ms) \in Nat /\ DOMAIN ms = 1..Len(ms) /\ \A i \in DOMAIN ms : ms[i] \in Message
  OBVIOUS
<1>2. \A i \in DOMAIN ms : Flattened(ms[i]) \in Seq(TextLine)
  BY <1>1, FirstLine
<1>3. ss \in Seq(Seq(TextLine)) /\ Len(ss) = Len(ms) /\ DOMAIN ss = DOMAIN ms
  BY <1>1, <1>2
<1>4. t = FlattenSeq(ss)
  BY DEF FlattenMessages
<1> HIDE DEF ss, t
<1>5. t \in Seq(TextLine) /\ \E o, w : Origins(o, w, t, ss, Len(ms))
  BY <1>3, <1>4, Flattens
<1>6. ASSUME NEW p \in DOMAIN ms, Spoken(ms[p]), Legible(ms[p])
      PROVE  \E i \in DOMAIN t : t[i] = FlatLine("user", ms[p].lines[1])
  <2>1. PICK o, w : Origins(o, w, t, ss, Len(ms))
    BY <1>5
  <2>2. 1 \in DOMAIN ss[p] /\ ss[p][1] = FlatLine("user", ms[p].lines[1])
    BY <1>1, <1>6, FirstLine DEF ss, Spoken, Legible, Heading
  <2>3. PICK i \in DOMAIN t : o[i] = p /\ w[i] = 1
    BY <1>1, <2>1, <2>2 DEF Origins
  <2>4. t[i] = ss[p][1]
    BY <2>1, <2>3 DEF Origins
  <2> QED
    BY <2>2, <2>4
<1> QED
  BY <1>5, <1>6 DEF t

----------------------------------------------------------------------------
\* The lines the pattern matches from the i-th on, g being known behind it.
LinesFrom(flat, i, g) ==
    IF i > Len(flat) THEN <<>>
    ELSE IF flat[i].empty /\ flat[i].role = "user" /\ i < Len(flat)
         THEN <<flat[i + 1]>> \o g[i + 2]
         ELSE (IF UserLine(flat[i]) THEN <<flat[i]>> ELSE <<>>) \o g[i + 1]

\* g is what they are, from the i-th on.
Scans(flat, i, g) ==
    /\ g = [j \in i..(Len(flat) + 2) |-> g[j]]
    /\ \A j \in i..(Len(flat) + 2) : g[j] = LinesFrom(flat, j, g)

\* A function that scans the text exists.
LEMMA ScanExists ==
  ASSUME NEW flat \in Seq(TextLine)
  PROVE  \E g : Scans(flat, 1, g)
<1> DEFINE N == Len(flat)
           S == {n \in Nat : n <= N + 1 => \E g : Scans(flat, N + 2 - n, g)}
<1>1. N \in Nat /\ \A i \in 1..N : i \in DOMAIN flat /\ flat[i] \in TextLine
  OBVIOUS
<1>2. 0 \in S
  <2> DEFINE g == [j \in (N + 2)..(N + 2) |-> <<>>]
  <2>1. g = [j \in (N + 2)..(N + 2) |-> g[j]]
    OBVIOUS
  <2>2. ASSUME NEW j \in (N + 2)..(N + 2) PROVE g[j] = <<>> /\ j > Len(flat)
    BY <1>1
  <2>3. Scans(flat, N + 2, g)
    BY <2>1, <2>2 DEF Scans, LinesFrom
  <2>4. N + 2 - 0 = N + 2
    BY <1>1
  <2> HIDE DEF g, N
  <2> QED
    BY <2>3, <2>4
<1>3. ASSUME NEW n \in Nat, n \in S PROVE n + 1 \in S
  <2> SUFFICES ASSUME n + 1 <= N + 1 PROVE \E g : Scans(flat, N + 2 - (n + 1), g)
    OBVIOUS
  <2> DEFINE k == N + 2 - (n + 1)
  <2>1. k \in 1..(N + 1) /\ N + 2 - n = k + 1
    BY <1>1
  <2>2. PICK g : Scans(flat, k + 1, g)
    BY <1>3, <2>1
  <2> DEFINE x == LinesFrom(flat, k, g)
             f == [j \in k..(N + 2) |-> IF j = k THEN x ELSE g[j]]
  <2> HIDE DEF k, S
  <2> HIDE DEF x
  <2>4. f = [j \in k..(N + 2) |-> f[j]]
    OBVIOUS
  <2>5. ASSUME NEW j \in k..(N + 2) PROVE f[j] = LinesFrom(flat, j, f)
    <3>1. j >= k /\ (j <= N => j + 1 \in (k + 1)..(N + 2) /\ j + 2 \in (k + 1)..(N + 2))
      BY <1>1, <2>1
    <3>2. j <= N => f[j + 1] = g[j + 1] /\ f[j + 2] = g[j + 2]
      BY <1>1, <2>1, <3>1
    <3>3. LinesFrom(flat, j, f) = LinesFrom(flat, j, g)
      <4> HIDE DEF f
      <4> QED
        BY <1>1, <2>1, <3>2 DEF LinesFrom
    <3>4. f[j] = LinesFrom(flat, j, g)
      <4>1. CASE j = k
        BY <4>1 DEF x
      <4>2. CASE j # k
        <5>1. f[j] = g[j] /\ j \in (k + 1)..(N + 2)
          BY <1>1, <2>1, <4>2
        <5> HIDE DEF f
        <5> QED
          BY <2>2, <5>1 DEF Scans
      <4> QED
        BY <4>1, <4>2
    <3> QED
      BY <3>3, <3>4
  <2>6. Scans(flat, k, f)
    <3> HIDE DEF f
    <3> QED
      BY <2>4, <2>5 DEF Scans
  <2> QED
    BY <2>6 DEF k
<1>4. N + 1 \in S
  <2> HIDE DEF S
  <2> QED
    BY <1>1, <1>2, <1>3, Induct
<1>5. N + 2 - (N + 1) = 1
  BY <1>1
<1> QED
  BY <1>1, <1>4, <1>5

\* IterUserLines takes the first line of each of the user's messages, whatever blank
\* messages are before it.
LEMMA IterTakesFirstLines ==
  ASSUME NEW flat \in Seq(TextLine)
  PROVE  /\ IterUserLines(flat) \in Seq(TextLine)
         /\ \A i \in DOMAIN flat : flat[i].role = "user" /\ ~flat[i].empty =>
               \E k \in DOMAIN IterUserLines(flat) : IterUserLines(flat)[k] = flat[i]
<1> DEFINE N == Len(flat)
           G == CHOOSE f : f = [i \in 1..(N + 2) |->
                    IF i > Len(flat) THEN <<>>
                    ELSE IF flat[i].empty /\ flat[i].role = "user" /\ i < Len(flat)
                         THEN <<flat[i + 1]>> \o f[i + 2]
                         ELSE (IF UserLine(flat[i]) THEN <<flat[i]>> ELSE <<>>) \o f[i + 1]]
<1>1. N \in Nat /\ DOMAIN flat = 1..N /\ \A i \in 1..N : flat[i] \in TextLine
  OBVIOUS
<1>2. IterUserLines(flat) = G[1]
  BY DEF IterUserLines
<1>3. PICK h : h = G
  OBVIOUS
<1>4. \A j \in 1..(N + 2) : h[j] = LinesFrom(flat, j, h)
  <2>1. PICK g : Scans(flat, 1, g)
    BY ScanExists
  <2>2. g = [i \in 1..(N + 2) |->
                    IF i > Len(flat) THEN <<>>
                    ELSE IF flat[i].empty /\ flat[i].role = "user" /\ i < Len(flat)
                         THEN <<flat[i + 1]>> \o g[i + 2]
                         ELSE (IF UserLine(flat[i]) THEN <<flat[i]>> ELSE <<>>) \o g[i + 1]]
    BY <2>1 DEF Scans, LinesFrom
  <2>3. h = [i \in 1..(N + 2) |->
                    IF i > Len(flat) THEN <<>>
                    ELSE IF flat[i].empty /\ flat[i].role = "user" /\ i < Len(flat)
                         THEN <<flat[i + 1]>> \o h[i + 2]
                         ELSE (IF UserLine(flat[i]) THEN <<flat[i]>> ELSE <<>>) \o h[i + 1]]
    BY <1>3, <2>2
  <2> HIDE DEF G
  <2> QED
    BY <2>3 DEF LinesFrom
<1> DEFINE Told(s, i) == \E k \in DOMAIN s : s[k] = flat[i]
           Spoke(i) == flat[i].role = "user" /\ ~flat[i].empty
           Has(j) == h[j] \in Seq(TextLine) /\ \A i \in j..N : Spoke(i) => Told(h[j], i)
           S == {n \in Nat : n <= N + 1 => \A j \in (N + 2 - n)..(N + 2) : Has(j)}
<1> HIDE DEF N, G
<1>5. 0 \in S
  <2>1. LinesFrom(flat, N + 2, h) = <<>> /\ <<>> \in Seq(TextLine)
    BY <1>1 DEF LinesFrom, N
  <2>2. h[N + 2] = <<>>
    BY <1>1, <1>4, <2>1
  <2>3. Has(N + 2)
    BY <1>1, <2>1, <2>2
  <2> HIDE DEF Has
  <2> QED
    BY <1>1, <2>3
<1>6. ASSUME NEW n \in Nat, n \in S PROVE n + 1 \in S
  <2> SUFFICES ASSUME n + 1 <= N + 1 PROVE \A j \in (N + 2 - (n + 1))..(N + 2) : Has(j)
    OBVIOUS
  <2> DEFINE k == N + 2 - (n + 1)
  <2>1. k \in 1..(N + 1) /\ N + 2 - n = k + 1
    BY <1>1
  <2>2. \A j \in (k + 1)..(N + 2) : Has(j)
    <3>1. \A j \in (N + 2 - n)..(N + 2) : Has(j)
      <4>1. n <= N + 1 => \A j \in (N + 2 - n)..(N + 2) : Has(j)
        <5> HIDE DEF Has
        <5> QED
          BY <1>6
      <4> HIDE DEF Has
      <4> QED
        BY <1>1, <4>1
    <3> HIDE DEF Has, k
    <3> QED
      BY <2>1, <3>1
  <2> HIDE DEF k, S
  <2>3. h[k] = LinesFrom(flat, k, h) /\ Has(k + 1)
    <3> HIDE DEF Has
    <3> QED
      BY <1>1, <1>4, <2>1, <2>2
  <2>4. ASSUME k > N PROVE Has(k)
    <3>1. h[k] = <<>> /\ <<>> \in Seq(TextLine)
      BY <2>3, <2>4 DEF LinesFrom, N
    <3> QED
      BY <1>1, <2>1, <2>4, <3>1
  <2>5. ASSUME k <= N PROVE Has(k)
    <3>1. \E p \in Seq(TextLine), q \in Seq(TextLine) :
             /\ h[k] = p \o q
             /\ \A i \in k..N : Spoke(i) => Told(p, i) \/ Told(q, i)
      <4>1. flat[k] \in TextLine
        BY <1>1, <2>1, <2>5
      <4>2. CASE flat[k].empty /\ flat[k].role = "user" /\ k < N
        <5>1. Has(k + 2) /\ flat[k + 1] \in TextLine
          <6> HIDE DEF Has
          <6> QED
            BY <1>1, <2>1, <2>2, <4>2
        <5>2. h[k] = <<flat[k + 1]>> \o h[k + 2]
          BY <2>1, <2>3, <2>5, <4>2, <1>1 DEF LinesFrom, N
        <5>3. <<flat[k + 1]>> \in Seq(TextLine) /\ Told(<<flat[k + 1]>>, k + 1)
          BY <5>1
        <5>4. ASSUME NEW i \in k..N, Spoke(i) PROVE Told(<<flat[k + 1]>>, i) \/ Told(h[k + 2], i)
          <6>1. i # k
            BY <4>2, <5>4
          <6>2. i = k + 1 \/ i \in (k + 2)..N
            BY <1>1, <2>1, <5>4, <6>1
          <6> HIDE DEF Told, Spoke
          <6> QED
            BY <5>1, <5>3, <5>4, <6>2
        <5> HIDE DEF Told, Spoke
        <5> QED
          BY <5>1, <5>2, <5>3, <5>4
      <4>3. CASE ~(flat[k].empty /\ flat[k].role = "user" /\ k < N)
        <5> DEFINE p == IF UserLine(flat[k]) THEN <<flat[k]>> ELSE <<>>
        <5>1. h[k] = p \o h[k + 1]
          <6>1. ~(k > Len(flat)) /\ ~(flat[k].empty /\ flat[k].role = "user" /\ k < Len(flat))
            BY <2>1, <2>5, <4>3, <1>1 DEF N
          <6>2. LinesFrom(flat, k, h) = p \o h[k + 1]
            BY <6>1 DEF LinesFrom
          <6> HIDE DEF p, Has
          <6> QED
            BY <2>3, <6>2
        <5>2. p \in Seq(TextLine) /\ (Spoke(k) => Told(p, k))
          <6>1. CASE UserLine(flat[k])
            <7>1. p = <<flat[k]>>
              BY <6>1
            <7> HIDE DEF p
            <7> QED
              BY <4>1, <7>1
          <6>2. CASE ~UserLine(flat[k])
            <7>1. p = <<>> /\ ~Spoke(k)
              BY <6>2 DEF UserLine
            <7> HIDE DEF p
            <7> QED
              BY <7>1
          <6> QED
            BY <6>1, <6>2
        <5>3. ASSUME NEW i \in k..N, Spoke(i) PROVE Told(p, i) \/ Told(h[k + 1], i)
          <6>1. i = k \/ i \in (k + 1)..N
            BY <1>1, <2>1, <5>3
          <6> HIDE DEF Told, Spoke, p
          <6> QED
            BY <2>3, <5>2, <5>3, <6>1
        <5> HIDE DEF Told, Spoke, p
        <5> QED
          BY <2>3, <5>1, <5>2, <5>3
      <4> QED
        BY <4>2, <4>3
    <3>2. PICK p \in Seq(TextLine), q \in Seq(TextLine) :
             /\ h[k] = p \o q
             /\ \A i \in k..N : Spoke(i) => Told(p, i) \/ Told(q, i)
      BY <3>1
    <3>3. ASSUME NEW i, Told(p, i) \/ Told(q, i) PROVE Told(p \o q, i)
      <4>1. ASSUME NEW j \in DOMAIN p, p[j] = flat[i] PROVE Told(p \o q, i)
        <5>1. j \in DOMAIN (p \o q) /\ (p \o q)[j] = flat[i]
          BY <4>1
        <5> QED
          BY <5>1
      <4>2. ASSUME NEW j \in DOMAIN q, q[j] = flat[i] PROVE Told(p \o q, i)
        <5>1. Len(p) + j \in DOMAIN (p \o q) /\ (p \o q)[Len(p) + j] = flat[i]
          BY <4>2
        <5> QED
          BY <5>1
      <4> QED
        BY <3>3, <4>1, <4>2
    <3>4. p \o q \in Seq(TextLine)
      OBVIOUS
    <3> HIDE DEF Told, Spoke
    <3> QED
      BY <3>2, <3>3, <3>4
  <2>6. Has(k)
    <3> HIDE DEF Has
    <3> QED
      BY <1>1, <2>1, <2>4, <2>5
  <2>7. N + 2 - (n + 1) = k
    BY DEF k
  <2>8. \A j \in k..(N + 2) : j = k \/ j \in (k + 1)..(N + 2)
    BY <1>1, <2>1
  <2> HIDE DEF Has
  <2> QED
    BY <2>2, <2>6, <2>7, <2>8
<1>7. N + 1 \in S
  <2> HIDE DEF S
  <2> QED
    BY <1>1, <1>5, <1>6, Induct
<1>8. Has(1)
  <2> HIDE DEF Has
  <2> QED
    BY <1>1, <1>7
<1> QED
  BY <1>1, <1>2, <1>3, <1>8

----------------------------------------------------------------------------
\* What the rules collect: each usable match, once.
LEMMA CollectsOnce ==
  ASSUME NEW ms \in Seq(Match)
  PROVE  LET c == Collected(ms)
         IN  /\ c \in Seq({Rule(m) : m \in Match})
             /\ IsInjective(c)
             /\ \A n \in DOMAIN ms : ms[n].usable => \E k \in DOMAIN c : c[k] = Rule(ms[n])
<1> DEFINE N == Len(ms)
           R == {Rule(m) : m \in Match}
           W == Seq(R)
           F == [x \in (1..N) \X W |->
                    IF ms[x[1]].usable /\ NotYetFound(x[2], ms[x[1]])
                    THEN Append(x[2], Rule(ms[x[1]])) ELSE x[2]]
           G == CHOOSE f : f = [n \in 0..N |->
                    IF n = 0 THEN <<>>
                    ELSE IF ms[n].usable /\ NotYetFound(f[n - 1], ms[n])
                         THEN Append(f[n - 1], Rule(ms[n])) ELSE f[n - 1]]
<1>1. N \in Nat /\ DOMAIN ms = 1..N /\ \A n \in 1..N : ms[n] \in Match /\ Rule(ms[n]) \in R
  OBVIOUS
<1>2. Collected(ms) = G[N]
  BY DEF Collected
<1> HIDE DEF N, R
<1>3. F \in [(1..N) \X W -> W] /\ <<>> \in W
  <2>1. ASSUME NEW x \in (1..N) \X W PROVE F[x] \in W
    <3>1. x[1] \in 1..N /\ x[2] \in W /\ Rule(ms[x[1]]) \in R
      BY <1>1
    <3>2. Append(x[2], Rule(ms[x[1]])) \in W
      BY <3>1
    <3> QED
      BY <3>1, <3>2
  <2> QED
    BY <2>1
<1>4. \A n \in 1..N : \A t \in W :
         F[<<n, t>>] = IF ms[n].usable /\ NotYetFound(t, ms[n]) THEN Append(t, Rule(ms[n])) ELSE t
  OBVIOUS
<1> HIDE DEF F, W
<1>5. PICK e \in W : e = <<>>
  BY <1>3
<1>6. PICK f \in [0..N -> W] : f[0] = <<>> /\ \A n \in 1..N : f[n] = F[<<n, f[n - 1]>>]
  <2>1. Rounds(F, N, W)
    BY <1>3 DEF Rounds
  <2>2. \E f \in [0..N -> W] : f[0] = e /\ \A n \in 1..N : f[n] = F[<<n, f[n - 1]>>]
    <3> HIDE DEF G
    <3> QED
      BY <1>1, <1>5, <2>1, Iterates
  <2> HIDE DEF G
  <2> QED
    BY <1>5, <2>2
<1>7. \A n \in 1..N : /\ n - 1 \in 0..N /\ f[n - 1] \in W
                      /\ f[n] = IF ms[n].usable /\ NotYetFound(f[n - 1], ms[n])
                                THEN Append(f[n - 1], Rule(ms[n])) ELSE f[n - 1]
  <2> SUFFICES ASSUME NEW n \in 1..N
               PROVE  /\ n - 1 \in 0..N /\ f[n - 1] \in W
                      /\ f[n] = IF ms[n].usable /\ NotYetFound(f[n - 1], ms[n])
                                THEN Append(f[n - 1], Rule(ms[n])) ELSE f[n - 1]
    OBVIOUS
  <2>1. n - 1 \in 0..N
    BY <1>1
  <2> HIDE DEF G
  <2> QED
    BY <1>4, <1>6, <2>1
<1>8. f = [n \in 0..N |-> IF n = 0 THEN <<>>
                    ELSE IF ms[n].usable /\ NotYetFound(f[n - 1], ms[n])
                         THEN Append(f[n - 1], Rule(ms[n])) ELSE f[n - 1]]
  <2>1. \A n \in 0..N : n # 0 => n \in 1..N
    BY <1>1
  <2> HIDE DEF G
  <2> QED
    BY <1>6, <1>7, <2>1
<1>9. PICK g : g = G
  OBVIOUS
<1>10. g = [n \in 0..N |-> IF n = 0 THEN <<>>
                    ELSE IF ms[n].usable /\ NotYetFound(g[n - 1], ms[n])
                         THEN Append(g[n - 1], Rule(ms[n])) ELSE g[n - 1]]
  BY <1>8, <1>9
<1> HIDE DEF G
<1>11. g[0] = <<>> /\ \A n \in 1..N : g[n] = IF ms[n].usable /\ NotYetFound(g[n - 1], ms[n])
                                             THEN Append(g[n - 1], Rule(ms[n])) ELSE g[n - 1]
  <2>1. 0 \in 0..N /\ \A n \in 1..N : n \in 0..N /\ n # 0
    BY <1>1
  <2> QED
    BY <1>10, <2>1
<1> DEFINE Once(n) == /\ g[n] \in Seq(R) /\ IsInjective(g[n])
                      /\ \A m \in 1..n : ms[m].usable => \E k \in DOMAIN g[n] : g[n][k] = Rule(ms[m])
           S == {n \in Nat : n <= N => Once(n)}
<1>12. 0 \in S
  <2>1. <<>> \in Seq(R) /\ DOMAIN <<>> = {} /\ 1..0 = {}
    OBVIOUS
  <2>2. g[0] \in Seq(R) /\ DOMAIN g[0] = {}
    BY <1>11, <2>1
  <2>3. IsInjective(g[0])
    BY <2>2 DEF IsInjective
  <2>4. Once(0)
    BY <2>1, <2>2, <2>3
  <2> HIDE DEF Once
  <2> QED
    BY <2>4
<1>13. ASSUME NEW n \in Nat, n \in S PROVE n + 1 \in S
  <2> SUFFICES ASSUME n + 1 <= N PROVE Once(n + 1)
    OBVIOUS
  <2> DEFINE m == ms[n + 1]
             s == g[n]
             t == g[n + 1]
  <2>1. n + 1 \in 1..N /\ (n + 1) - 1 = n /\ Once(n)
    BY <1>1, <1>13
  <2>2. m \in Match /\ Rule(m) \in R
    BY <1>1, <2>1
  <2>3. t = IF m.usable /\ NotYetFound(s, m) THEN Append(s, Rule(m)) ELSE s
    BY <1>11, <2>1
  <2>4. s \in Seq(R) /\ IsInjective(s)
    BY <2>1
  <2>5. \A j \in 1..n : ms[j].usable => \E k \in DOMAIN s : s[k] = Rule(ms[j])
    BY <2>1
  <2> HIDE DEF m, s, t
  <2>6. /\ t \in Seq(R) /\ IsInjective(t)
        /\ \A k \in DOMAIN s : k \in DOMAIN t /\ t[k] = s[k]
        /\ m.usable => \E k \in DOMAIN t : t[k] = Rule(m)
    <3>1. CASE m.usable /\ NotYetFound(s, m)
      <4>1. t = Append(s, Rule(m))
        BY <2>3, <3>1
      <4>2. /\ t \in Seq(R) /\ DOMAIN t = (DOMAIN s) \cup {Len(s) + 1}
            /\ t[Len(s) + 1] = Rule(m) /\ \A k \in DOMAIN s : t[k] = s[k]
        BY <2>2, <2>4, <4>1
      <4>3. \A k \in DOMAIN s : s[k] # Rule(m)
        BY <3>1 DEF NotYetFound
      <4>4. IsInjective(t)
        BY <2>4, <4>2, <4>3 DEF IsInjective
      <4> QED
        BY <4>2, <4>4
    <3>2. CASE ~m.usable
      BY <2>3, <2>4, <3>2
    <3>3. CASE m.usable /\ ~NotYetFound(s, m)
      BY <2>3, <2>4, <3>3 DEF NotYetFound
    <3> QED
      BY <3>1, <3>2, <3>3
  <2>7. ASSUME NEW j \in 1..(n + 1), ms[j].usable PROVE \E k \in DOMAIN t : t[k] = Rule(ms[j])
    <3>1. CASE j = n + 1
      BY <2>6, <2>7, <3>1 DEF m
    <3>2. CASE j # n + 1
      <4>1. j \in 1..n
        BY <2>7, <3>2
      <4> QED
        BY <2>5, <2>6, <2>7, <4>1
    <3> QED
      BY <3>1, <3>2
  <2> QED
    BY <2>6, <2>7 DEF t
<1>14. N \in S
  <2> HIDE DEF S
  <2> QED
    BY <1>1, <1>12, <1>13, Induct
<1>15. Once(N) /\ Collected(ms) = g[N]
  BY <1>1, <1>2, <1>9, <1>14
<1> QED
  BY <1>1, <1>15 DEF R

\* Of a message the user spoke, its name legible, the rules find each usable match of the
\* first line once.
LEMMA RulesFind ==
  ASSUME NEW msgs \in Seq(Message), NEW p \in DOMAIN msgs, Spoken(msgs[p]), Legible(msgs[p]),
         NEW m \in Usable(msgs[p].lines[1])
  PROVE  Cardinality({i \in DOMAIN ExtractViaRules(msgs) : ExtractViaRules(msgs)[i] = Rule(m)}) = 1
<1> DEFINE flat == FlattenMessages(msgs)
           lines == IterUserLines(flat)
           ss == [i \in DOMAIN lines |-> lines[i].line.matches]
           t == FlattenSeq(ss)
           c == ExtractViaRules(msgs)
           line == msgs[p].lines[1]
<1>1. flat \in Seq(TextLine) /\ \E i \in DOMAIN flat : flat[i] = FlatLine("user", line)
  BY TextHasFirstLines
<1>2. c = Collected(t)
  BY DEF ExtractViaRules
<1>3. line \in Line /\ m.usable /\ \E j \in DOMAIN line.matches : line.matches[j] = m
  <2>1. msgs[p] \in Message /\ msgs[p].lines # <<>>
    BY DEF Spoken
  <2>2. 1 \in DOMAIN msgs[p].lines /\ msgs[p].lines \in Seq(Line)
    BY <2>1, FirstLine DEF Message
  <2> QED
    BY <2>2 DEF Usable, MatchesOf
<1> HIDE DEF flat, line
<1>4. lines \in Seq(TextLine) /\ \E k \in DOMAIN lines : lines[k].line = line
  <2>1. PICK i \in DOMAIN flat : flat[i] = FlatLine("user", line)
    BY <1>1
  <2>2. flat[i].role = "user" /\ ~flat[i].empty /\ flat[i].line = line
    BY <2>1 DEF FlatLine
  <2>3. \E k \in DOMAIN lines : lines[k] = flat[i]
    BY <1>1, <2>2, IterTakesFirstLines
  <2> QED
    BY <1>1, <2>2, <2>3, IterTakesFirstLines
<1> HIDE DEF lines
<1>5. ss \in Seq(Seq(Match)) /\ Len(ss) = Len(lines) /\ DOMAIN ss = DOMAIN lines
  <2>1. \A i \in DOMAIN lines : lines[i] \in TextLine
    BY <1>4
  <2>2. \A i \in DOMAIN lines : lines[i].line.matches \in Seq(Match)
    BY <2>1 DEF TextLine, Line
  <2>3. DOMAIN lines = 1..Len(lines) /\ Len(lines) \in Nat
    BY <1>4
  <2> QED
    BY <2>2, <2>3
<1>6. \E k \in 1..Len(ss) : \E j \in DOMAIN ss[k] : ss[k][j] = m
  <2>1. PICK k \in DOMAIN lines : lines[k].line = line
    BY <1>4
  <2>2. ss[k] = line.matches /\ k \in 1..Len(ss)
    BY <1>4, <1>5, <2>1
  <2> QED
    BY <1>3, <2>2
<1> HIDE DEF ss
<1>7. t \in Seq(Match) /\ \E n \in DOMAIN t : t[n] = m
  <2>1. t \in Seq(Match) /\ \E o, w : Origins(o, w, t, ss, Len(ss))
    BY <1>5, Flattens
  <2>2. PICK o, w : Origins(o, w, t, ss, Len(ss))
    BY <2>1
  <2>3. PICK k \in 1..Len(ss) : \E j \in DOMAIN ss[k] : ss[k][j] = m
    BY <1>6
  <2>4. PICK j \in DOMAIN ss[k] : ss[k][j] = m
    BY <2>3
  <2>5. PICK n \in DOMAIN t : o[n] = k /\ w[n] = j
    BY <2>2, <2>4 DEF Origins
  <2>6. t[n] = ss[o[n]][w[n]]
    BY <2>2 DEF Origins
  <2> QED
    BY <2>1, <2>4, <2>5, <2>6
<1> HIDE DEF t
<1>8. IsInjective(c) /\ \E k \in DOMAIN c : c[k] = Rule(m)
  <2>1. /\ IsInjective(Collected(t))
        /\ \A n \in DOMAIN t : t[n].usable => \E k \in DOMAIN Collected(t) : Collected(t)[k] = Rule(t[n])
    BY <1>7, CollectsOnce
  <2>2. PICK n \in DOMAIN t : t[n] = m
    BY <1>7
  <2> HIDE DEF c
  <2> QED
    BY <1>2, <1>3, <2>1, <2>2
<1>9. PICK k \in DOMAIN c : c[k] = Rule(m)
  BY <1>8
<1>10. {i \in DOMAIN c : c[i] = Rule(m)} = {k}
  BY <1>8, <1>9 DEF IsInjective
<1> QED
  BY <1>10, FS_Singleton

\* Once the extraction is over, the candidates are the model's or those of the rules.
CandsInv ==
    /\ input \in Inputs
    /\ task["extract"] = "over" /\ pc # "error" => cands \in {Extract(input.reply), FoundByRules[input]}

\* No other call touches the candidates, and the extraction is not done twice.
LEMMA CandsInvStep == CallsOK /\ CandsInv /\ [PhaseOneNext]_phaseOneVars => CandsInv'
<1> SUFFICES ASSUME CallsOK, CandsInv, [PhaseOneNext]_phaseOneVars PROVE CandsInv'
  OBVIOUS
<1>1. CASE UNCHANGED <<input, cands>> /\ task'["extract"] = task["extract"] /\ (pc' # "error" => pc # "error")
  BY <1>1 DEF CandsInv, Extract, ExtractViaLlm, FoundByRules
<1>2. CASE ExtractAnswers
  <2>1. input' = input /\ (pc' # "error" => cands' = Extract(input.reply))
    BY <1>2 DEF ExtractAnswers
  <2>2. pc' # "error" => cands' = Extract(input.reply)'
    BY <2>1 DEF Extract
  <2> QED
    BY <2>1, <2>2 DEF CandsInv
<1>3. CASE ExtractTimesOut
  BY <1>3 DEF ExtractTimesOut, CandsInv, Extract
<1>4. CASE UNCHANGED phaseOneVars \/ Tick
  BY <1>1, <1>4 DEF phaseOneVars, Tick
<1>6. CASE Gathered
  BY <1>1, <1>6 DEF Gathered, BothOver, Start, CallsOK, NetworkCalls
<1>7. CASE BatchEnds
  BY <1>1, <1>7 DEF BatchEnds, Over, CallsOK, NetworkCalls
<1>5. CASE EmbedAnswers \/ EmbedTimesOut \/ EmbedRetries
  BY <1>1, <1>5 DEF EmbedAnswers, EmbedTimesOut, EmbedRetries, Start, Over, CallsOK, NetworkCalls
<1> QED
  BY <1>2, <1>3, <1>4, <1>5, <1>6, <1>7 DEF PhaseOneNext

\* An answer of the model that is used has the model's candidates only.
LEMMA ModelSigns ==
  ASSUME NEW reply, ExtractViaLlm(reply) # <<>>
  PROVE  \E i \in DOMAIN ExtractViaLlm(reply) : ExtractViaLlm(reply)[i].by = "model"
<1> DEFINE kept == SelectSeq(reply.items, Kept)
           f == [i \in DOMAIN kept |-> ByModel(kept[i])]
<1>1. ExtractViaLlm(reply) = f
  BY DEF ExtractViaLlm
<1>2. DOMAIN f # {}
  <2> SUFFICES ASSUME DOMAIN kept = {} PROVE f = <<>>
    BY <1>1
  <2>1. 1..0 = {}
    OBVIOUS
  <2>2. f = [i \in 1..0 |-> ByModel(kept[i])]
    BY <2>1
  <2> HIDE DEF kept
  <2>3. [i \in 1..0 |-> ByModel(kept[i])] = <<>>
    OBVIOUS
  <2> QED
    BY <2>2, <2>3
<1>3. PICK i \in DOMAIN f : TRUE
  BY <1>2
<1>4. f[i].by = "model"
  BY DEF ByModel
<1> QED
  BY <1>1, <1>4

\* Whatever the model gives or fails to give, a turn without its candidates has those of
\* the rules: one for each fact in the first line of each of the user's messages whose name
\* has no closing parenthesis, however the messages are blank, quoted or repeated.
THEOREM RulesAreTheFallback == TurnRequestSpec => []RulesCatchTheRest
<1>1. PhaseOneInit => CandsInv
  BY DEF PhaseOneInit, CandsInv, NetworkCalls
<1>2. CallsOK /\ CandsInv => RulesCatchTheRest
  <2> SUFFICES ASSUME CallsOK, CandsInv, Extracted, \A i \in DOMAIN cands : cands[i].by # "model",
                      NEW p \in DOMAIN input.messages,
                      Spoken(input.messages[p]), Legible(input.messages[p]),
                      NEW m \in Usable(input.messages[p].lines[1])
               PROVE  Times(m) = 1
    BY DEF RulesCatchTheRest
  <2>1. cands \in {Extract(input.reply), FoundByRules[input]}
    BY DEF CallsOK, CandsInv, Extracted
  <2>2. cands = FoundByRules[input]
    BY <2>1, ModelSigns DEF Extract
  <2>3. cands = ExtractViaRules(input.messages) /\ input.messages \in Seq(Message)
    BY <2>2, ExtractionAssumption DEF FoundByRules, CandsInv, Input
  <2> QED
    BY <2>3, RulesFind DEF Times
<1> QED
  BY <1>1, <1>2, TimeInvInit, TimeInvStep, CandsInvStep, TurnRequestImplementsPhaseOne,
     PTL DEF PhaseOneSpec, TimeInv

----------------------------------------------------------------------------
\* Bodies: Http, and TurnRequest, which implements it.

\* Where the requests stand: the middleware is never ahead of the client.
PlacesOK ==
    /\ call \in [Request -> Call]
    /\ at \in [Request -> {"connecting", "reading", "routing", "handling", "answered"}]
    /\ sent \in [Request -> Nat]
    /\ taken \in [Request -> Nat]
    /\ buffered \in [Request -> Nat]
    /\ handled \subseteq Request
    /\ \A r \in Request : taken[r] <= sent[r] /\ sent[r] <= Len(call[r].chunks)

\* A request that goes on is within the limit; one that was refused has at most one
\* chunk more.
Within(r) ==
    /\ buffered[r] <= MaxBytes + MaxChunk
    /\ at[r] # "answered" => buffered[r] <= MaxBytes

\* The handler has the whole document, and keeps it.
Whole(r) ==
    /\ at[r] = "handling" /\ HasBody(r) => call[r].document <= buffered[r]
    /\ r \in handled => /\ at[r] = "answered"
                        /\ HasBody(r) => call[r].document <= buffered[r] /\ buffered[r] <= MaxBytes

HttpInv == PlacesOK /\ \A r \in Request : Within(r) /\ Whole(r)

\* It holds at first.
LEMMA HttpInvInit == HttpInit => HttpInv
<1> SUFFICES ASSUME HttpInit PROVE HttpInv
  OBVIOUS
<1>1. call \in [Request -> Call]
  BY HttpAssumption DEF HttpInit
<1>2. \A r \in Request : Len(call[r].chunks) \in Nat
  BY <1>1 DEF Call
<1>3. PlacesOK
  BY <1>1, <1>2 DEF HttpInit, PlacesOK
<1> QED
  BY <1>3, HttpAssumption DEF HttpInit, HttpInv, Within, Whole

\* The chunk a client sent next is no larger than the server's chunks are.
LEMMA ChunkIsSmall ==
    ASSUME PlacesOK, NEW r \in Request, taken[r] < sent[r]
    PROVE  /\ call[r].chunks[taken[r] + 1] \in Nat
           /\ call[r].chunks[taken[r] + 1] <= MaxChunk
<1>1. call[r].chunks \in Seq(0..MaxChunk)
  BY DEF PlacesOK, Call
<1>2. taken[r] + 1 \in 1..Len(call[r].chunks)
  BY <1>1 DEF PlacesOK
<1>3. ASSUME NEW S, NEW s \in Seq(S), NEW k \in 1..Len(s) PROVE s[k] \in S
  OBVIOUS
<1>4. call[r].chunks[taken[r] + 1] \in 0..MaxChunk
  BY <1>1, <1>2, <1>3
<1> QED
  BY <1>4, HttpAssumption

\* Steps of the client and of the process touch no buffer.
LEMMA OthersKeepIt ==
    ASSUME HttpInv, NEW r \in Request, StartUp \/ Restart \/ DbChanges \/ SendChunk(r) \/ Leave(r)
    PROVE  HttpInv'
<1> USE DEF HttpInv, PlacesOK, Within, Whole, HasBody, client, process
<1>1. CASE StartUp \/ Restart \/ DbChanges
  BY <1>1 DEF StartUp, Restart, DbChanges
<1>2. CASE SendChunk(r)
  <2>1. Len(call[r].chunks) \in Nat
    BY DEF Call
  <2> QED
    BY <1>2, <2>1 DEF SendChunk
<1>3. CASE Leave(r)
  BY <1>3 DEF Leave
<1> QED
  BY <1>1, <1>2, <1>3

\* Nor do those of the middleware and the route that receive no chunk; the route
\* lets a body pass only if it parsed.
LEMMA RoutingKeepsIt ==
    ASSUME HttpInv, NEW r \in Request,
           Dispatch(r) \/ ReceiveDisconnect(r) \/ Route(r) \/ Succeed(r) \/ Fail(r)
    PROVE  HttpInv'
<1> USE DEF HttpInv, PlacesOK, Within, Whole, HasBody, client, process, Answer
<1>1. CASE Dispatch(r)
  BY <1>1 DEF Dispatch
<1>2. CASE ReceiveDisconnect(r)
  BY <1>2 DEF ReceiveDisconnect, AfterDisconnect
<1>3. CASE Route(r)
  BY <1>3 DEF Route, Parses
<1>4. CASE Succeed(r)
  BY <1>4 DEF Succeed
<1>5. CASE Fail(r)
  BY <1>5 DEF Fail
<1> QED
  BY <1>1, <1>2, <1>3, <1>4, <1>5

\* A chunk adds no more than its size, and nothing is received over the limit.
LEMMA ReceivingKeepsIt ==
    ASSUME HttpInv, NEW r \in Request, ReceiveChunk(r)
    PROVE  HttpInv'
<1> DEFINE size == buffered[r] + call[r].chunks[taken[r] + 1]
<1>1. size \in Nat /\ size <= MaxBytes + MaxChunk
  <2>1. buffered[r] \in Nat /\ buffered[r] <= MaxBytes
    BY DEF HttpInv, PlacesOK, Within, ReceiveChunk
  <2>2. PlacesOK /\ taken[r] < sent[r]
    BY DEF HttpInv, ReceiveChunk
  <2> QED
    BY <2>1, <2>2, ChunkIsSmall, HttpAssumption
<1>2. /\ buffered' = [buffered EXCEPT ![r] = size]
      /\ taken' = [taken EXCEPT ![r] = taken[r] + 1]
      /\ UNCHANGED <<call, sent, handled>>
      /\ at[r] = "reading" /\ taken[r] < sent[r]
  BY DEF ReceiveChunk, client
<1>3. /\ at' = [at EXCEPT ![r] = at'[r]]
      /\ at'[r] \in {"reading", "routing", "answered"}
      /\ at'[r] # "answered" => size <= MaxBytes
  <2> HIDE DEF size
  <2>1. at \in [Request -> {"connecting", "reading", "routing", "handling", "answered"}]
    BY DEF HttpInv, PlacesOK
  <2>2. CASE size > MaxBytes
    <3>1. at' = [at EXCEPT ![r] = "answered"]
      BY <2>2 DEF ReceiveChunk, TooLarge, Answer, size
    <3> QED
      BY <2>1, <3>1
  <2>3. CASE ~(size > MaxBytes)
    <3>1. at' = [at EXCEPT ![r] = IF NoMore(r) THEN "routing" ELSE "reading"]
      BY <2>3 DEF ReceiveChunk, TooLarge, size
    <3>2. size <= MaxBytes
      BY <1>1, <2>3, HttpAssumption
    <3> QED
      BY <2>1, <3>1, <3>2
  <2> QED
    BY <2>2, <2>3
<1> HIDE DEF size
<1>4. PlacesOK'
  <2>1. taken[r] + 1 \in Nat /\ taken[r] + 1 <= sent[r]
    BY <1>2 DEF HttpInv, PlacesOK
  <2>2. at' \in [Request -> {"connecting", "reading", "routing", "handling", "answered"}]
    BY <1>3 DEF HttpInv, PlacesOK
  <2>3. buffered' \in [Request -> Nat] /\ taken' \in [Request -> Nat]
    BY <1>1, <1>2, <2>1 DEF HttpInv, PlacesOK
  <2>4. \A q \in Request : taken'[q] <= sent'[q] /\ sent'[q] <= Len(call'[q].chunks)
    BY <1>2, <2>1 DEF HttpInv, PlacesOK
  <2> QED
    BY <1>2, <2>2, <2>3, <2>4 DEF HttpInv, PlacesOK
<1>5. ASSUME NEW q \in Request PROVE (Within(q) /\ Whole(q))'
  BY <1>1, <1>2, <1>3 DEF HttpInv, PlacesOK, Within, Whole, HasBody
<1> QED
  BY <1>4, <1>5 DEF HttpInv

\* Every step keeps the inductive invariant.
LEMMA HttpInvStep == HttpInv /\ [HttpNext]_httpVars => HttpInv'
<1> SUFFICES ASSUME HttpInv, [HttpNext]_httpVars PROVE HttpInv'
  OBVIOUS
<1>1. CASE UNCHANGED httpVars
  BY <1>1 DEF httpVars, client, HttpInv, PlacesOK, Within, Whole, HasBody
<1>2. CASE StartUp \/ Restart \/ DbChanges
  BY <1>2 DEF StartUp, Restart, DbChanges, client, process, HttpInv, PlacesOK, Within, Whole, HasBody
<1>3. ASSUME NEW r \in Request, SendChunk(r) \/ Leave(r) \/ Admit(r) \/ Succeed(r) \/ Fail(r) PROVE HttpInv'
  BY <1>3, OthersKeepIt, RoutingKeepsIt, ReceivingKeepsIt DEF Admit
<1> QED
  BY <1>1, <1>2, <1>3 DEF HttpNext, Outside

\* The whole of a turn's request implements the HTTP layer: phase 1 and the
\* transaction run inside the handler and leave everything before it alone.
THEOREM TurnRequestImplementsHttp == TurnRequestSpec => HttpSpec
<1>1. TurnRequestInit => HttpInit
  BY DEF TurnRequestInit
<1>2. [TurnRequestNext]_requestVars => [HttpNext]_httpVars
  <2> SUFFICES ASSUME TurnRequestNext PROVE HttpNext \/ UNCHANGED httpVars
    BY DEF requestVars
  <2>1. CASE OutsideStep
    BY <2>1 DEF OutsideStep, HttpNext
  <2>2. ASSUME NEW r \in Request, AdmitStep(r) \/ OtherHandler(r) PROVE HttpNext
    BY <2>2 DEF AdmitStep, OtherHandler, HttpNext
  <2>3. CASE PhaseOneStep
    BY <2>3 DEF PhaseOneStep
  <2>4. CASE StoreTurn \/ PhaseOneRaises
    BY <2>4, TurnRequestAssumption DEF StoreTurn, PhaseOneRaises, HttpNext
  <2> QED
    BY <2>1, <2>2, <2>3, <2>4 DEF TurnRequestNext
<1> QED
  BY <1>1, <1>2, PTL DEF TurnRequestSpec, HttpSpec

\* However bodies are cut into chunks and whatever lengths they state, the process
\* never holds more of one than the limit and a chunk.
THEOREM BufferStaysBounded == TurnRequestSpec => []BufferIsBounded
<1>1. HttpInv => BufferIsBounded
  BY DEF HttpInv, Within, BufferIsBounded
<1> QED
  BY <1>1, HttpInvInit, HttpInvStep, TurnRequestImplementsHttp, PTL DEF HttpSpec

\* No handler ever runs on a part of a document or on one over the limit, although
\* a disconnect looks like the end of a body.
THEOREM OnlyWholeBodiesAreHandled == TurnRequestSpec => []HandledBodiesAreWhole
<1>1. HttpInv => HandledBodiesAreWhole
  BY DEF HttpInv, PlacesOK, Whole, HandledBodiesAreWhole
<1> QED
  BY <1>1, HttpInvInit, HttpInvStep, TurnRequestImplementsHttp, PTL DEF HttpSpec

----------------------------------------------------------------------------
\* Good requests pass.

\* What was buffered is what the chunks taken add up to.
Sums(r) ==
    \A p : Running(p, call[r].chunks) /\ p[Len(call[r].chunks)] = Total(call[r].chunks)
            => buffered[r] = p[taken[r]]

\* A client that stays and sends what is asked of it.
Proper(r) ==
    /\ ~gone[r]
    /\ call[r].verdict = "valid" /\ call[r].length # "bad"
    /\ call[r].health \/ call[r].token
    /\ Total(call[r].chunks) <= MaxBytes

\* Its body is complete when it is routed, and no answer blames it.
Welcome(r) ==
    Proper(r) =>
        /\ HasBody(r) /\ at[r] = "routing" => taken[r] = Len(call[r].chunks)
        /\ at[r] = "answered" => status[r] \in {200, 500, 503}

PassInv ==
    /\ call \in [Request -> Calls]
    /\ status \in [Request -> Nat]
    /\ gone \in [Request -> BOOLEAN]
    /\ \A r \in Request : Sums(r) /\ Welcome(r)

\* The chunks of a call are numbers, and some partial sums lead to their total.
LEMMA ChunkSums ==
  ASSUME PlacesOK, NEW r \in Request
  PROVE  LET q == call[r].chunks
         IN  /\ q \in Seq(Nat)
             /\ \E p : Running(p, q) /\ p[Len(q)] = Total(q)
<1> DEFINE q == call[r].chunks
<1>1. q \in Seq(0..MaxChunk)
  BY DEF PlacesOK, Call
<1>2. 0..MaxChunk \subseteq Nat
  BY HttpAssumption
<1>3. ASSUME NEW S, NEW T, S \subseteq T, NEW s \in Seq(S) PROVE s \in Seq(T)
  BY <1>3
<1>4. q \in Seq(Nat)
  BY <1>1, <1>2, <1>3
<1> HIDE DEF q
<1>5. \E p : Running(p, q) /\ p[Len(q)] = Total(q)
  BY <1>4, PrefixSums DEF Total
<1> QED
  BY <1>4, <1>5 DEF q

LEMMA PassInvInit == HttpInit => PassInv
<1> SUFFICES ASSUME HttpInit PROVE PassInv
  OBVIOUS
<1>1. ASSUME NEW r \in Request PROVE Sums(r) /\ Welcome(r)
  BY DEF HttpInit, Sums, Running, Welcome
<1> QED
  BY <1>1 DEF HttpInit, PassInv

\* A step that moves r alone.
LEMMA LocalPass ==
  ASSUME PassInv, NEW r \in Request, call' = call,
         status' \in [Request -> Nat], gone' \in [Request -> BOOLEAN],
         Sums(r)', Welcome(r)',
         \A q \in Request \ {r} :
            /\ at'[q] = at[q] /\ gone'[q] = gone[q] /\ taken'[q] = taken[q]
            /\ buffered'[q] = buffered[q] /\ status'[q] = status[q]
  PROVE  PassInv'
<1>1. ASSUME NEW q \in Request \ {r} PROVE Sums(q)' /\ Welcome(q)'
  <2>1. Sums(q) /\ Welcome(q)
    BY DEF PassInv
  <2>2. Sums(q)'
    BY <1>1, <2>1 DEF Sums
  <2>3. Proper(q)' <=> Proper(q)
    BY <1>1 DEF Proper
  <2>4. Welcome(q)'
    BY <1>1, <2>1, <2>3 DEF Welcome, HasBody
  <2> QED
    BY <2>2, <2>4
<1> QED
  BY <1>1 DEF PassInv

\* No chunk of a body within the limit is refused.
LEMMA ReceivingPasses ==
  ASSUME HttpInv, PassInv, NEW r \in Request, ReceiveChunk(r)
  PROVE  PassInv'
<1> DEFINE q == call[r].chunks
           size == buffered[r] + call[r].chunks[taken[r] + 1]
<1>1. /\ buffered' = [buffered EXCEPT ![r] = size]
      /\ taken' = [taken EXCEPT ![r] = taken[r] + 1]
      /\ call' = call /\ gone' = gone
      /\ at[r] = "reading" /\ taken[r] < sent[r]
  BY DEF ReceiveChunk, client
<1>2. /\ q \in Seq(Nat) /\ \E p : Running(p, q) /\ p[Len(q)] = Total(q)
      /\ Len(q) \in Nat /\ taken[r] \in Nat /\ taken[r] + 1 \in 1..Len(q)
  <2>1. q \in Seq(Nat) /\ \E p : Running(p, q) /\ p[Len(q)] = Total(q)
    BY ChunkSums DEF HttpInv
  <2>2. Len(q) \in Nat
    BY <2>1
  <2>3. taken[r] \in Nat /\ sent[r] \in Nat /\ sent[r] <= Len(q)
    BY DEF HttpInv, PlacesOK
  <2> HIDE DEF q
  <2> QED
    BY <1>1, <2>1, <2>2, <2>3
<1>3. ASSUME NEW p, Running(p, q), p[Len(q)] = Total(q)
      PROVE  size = p[taken[r] + 1] /\ size <= Total(q)
  <2>1. buffered[r] = p[taken[r]]
    BY <1>3 DEF PassInv, Sums
  <2>2. p[taken[r] + 1] = p[taken[r]] + q[taken[r] + 1]
    <3> DEFINE k == taken[r] + 1
    <3>1. k \in 1..Len(q) /\ k - 1 = taken[r]
      BY <1>2
    <3> HIDE DEF k, q
    <3>2. p[k] = p[k - 1] + q[k]
      BY <1>3, <3>1 DEF Running
    <3> QED
      BY <3>1, <3>2 DEF k
  <2>3. p[taken[r] + 1] <= p[Len(q)]
    <3> DEFINE k == taken[r] + 1
    <3>1. k \in 0..Len(q)
      BY <1>2
    <3> HIDE DEF q, k
    <3>2. p[k] <= p[Len(q)]
      BY <1>2, <1>3, <3>1, PrefixesGrow
    <3> QED
      BY <3>2 DEF k
  <2> QED
    BY <1>3, <2>1, <2>2, <2>3
<1>4. Sums(r)'
  <2> SUFFICES ASSUME NEW p, Running(p, q), p[Len(q)] = Total(q)
               PROVE  buffered'[r] = p[taken'[r]]
    BY <1>1 DEF Sums
  <2>1. buffered'[r] = size /\ taken'[r] = taken[r] + 1
    BY <1>1 DEF HttpInv, PlacesOK
  <2> QED
    BY <1>3, <2>1
<1>5. Proper(r)' => Proper(r) /\ size <= MaxBytes
  <2>1. PICK p : Running(p, q) /\ p[Len(q)] = Total(q)
    BY <1>2
  <2>2. size = p[taken[r] + 1] /\ size <= Total(q)
    BY <1>3, <2>1
  <2>3. Total(q) \in Nat /\ p[taken[r] + 1] \in Nat
    <3>1. taken[r] + 1 \in 0..Len(q) /\ Len(q) \in 0..Len(q)
      BY <1>2
    <3> HIDE DEF q
    <3> QED
      BY <2>1, <3>1 DEF Running
  <2>4. Proper(r)' => Proper(r)
    BY <1>1 DEF Proper
  <2>5. Proper(r) => Total(q) <= MaxBytes
    BY DEF Proper
  <2> HIDE DEF size, q
  <2> QED
    BY <2>2, <2>3, <2>4, <2>5, HttpAssumption
<1>6. /\ at \in [Request -> {"connecting", "reading", "routing", "handling", "answered"}]
      /\ taken \in [Request -> Nat] /\ status \in [Request -> Nat]
  BY DEF HttpInv, PlacesOK, PassInv
<1>7. Welcome(r)'
  <2> SUFFICES ASSUME Proper(r)'
               PROVE  /\ at'[r] = "routing" => taken'[r] = Len(q)
                      /\ at'[r] # "answered"
    BY <1>1 DEF Welcome
  <2>1. at' = [at EXCEPT ![r] = IF NoMore(r) THEN "routing" ELSE "reading"]
    <3>1. size \in Nat
      <4>1. q[taken[r] + 1] \in Nat
        BY <1>2
      <4> QED
        BY <4>1 DEF HttpInv, PlacesOK
    <3>2. ~TooLarge(r, size)
      BY <1>5, <3>1, HttpAssumption DEF TooLarge
    <3> QED
      BY <3>2 DEF ReceiveChunk
  <2> QED
    BY <1>1, <1>6, <2>1 DEF NoMore
<1>8. /\ status' \in [Request -> Nat]
      /\ \A p \in Request \ {r} : at'[p] = at[p] /\ status'[p] = status[p]
  BY <1>6 DEF ReceiveChunk, Answer
<1>9. \A p \in Request \ {r} : taken'[p] = taken[p] /\ buffered'[p] = buffered[p]
  BY <1>1, <1>6 DEF HttpInv, PlacesOK
<1> QED
  BY <1>1, <1>4, <1>7, <1>8, <1>9, LocalPass DEF PassInv

\* A complete body parses: the route refuses no proper request.
LEMMA RoutingPasses ==
  ASSUME HttpInv, PassInv, NEW r \in Request, Route(r)
  PROVE  PassInv'
<1>1. /\ at[r] = "routing" /\ call' = call /\ gone' = gone
      /\ taken' = taken /\ buffered' = buffered
  BY DEF Route, client
<1>2. Proper(r) /\ HasBody(r) => Parses(r)
  <2> SUFFICES ASSUME Proper(r), HasBody(r) PROVE Parses(r)
    OBVIOUS
  <2>1. PICK p : Running(p, call[r].chunks) /\ p[Len(call[r].chunks)] = Total(call[r].chunks)
    BY ChunkSums DEF HttpInv
  <2>2. buffered[r] = Total(call[r].chunks)
    BY <1>1, <2>1 DEF PassInv, Sums, Welcome
  <2>3. call[r].document <= Total(call[r].chunks) /\ call[r].document \in Nat
    BY HttpAssumption DEF PassInv, Call
  <2> QED
    BY <2>2, <2>3 DEF Proper, Parses, HttpInv, PlacesOK
<1>3. /\ at \in [Request -> {"connecting", "reading", "routing", "handling", "answered"}]
      /\ status \in [Request -> Nat]
  BY DEF HttpInv, PlacesOK, PassInv
<1>4. Welcome(r)'
  <2> SUFFICES ASSUME Proper(r)
               PROVE  at'[r] # "routing" /\ (at'[r] = "answered" => status'[r] \in {200, 500, 503})
    BY <1>1 DEF Welcome, Proper
  <2> QED
    BY <1>2, <1>3 DEF Route, Answer, Proper
<1>5. /\ status' \in [Request -> Nat]
      /\ \A p \in Request \ {r} : at'[p] = at[p] /\ status'[p] = status[p]
  BY <1>3 DEF Route, Answer, ValidationStatus
<1>6. Sums(r)'
  BY <1>1 DEF PassInv, Sums
<1> QED
  BY <1>1, <1>4, <1>5, <1>6, LocalPass DEF PassInv

\* Neither does anything before or after.
LEMMA OthersPass ==
  ASSUME HttpInv, PassInv, NEW r \in Request,
         Leave(r) \/ Dispatch(r) \/ ReceiveDisconnect(r) \/ Succeed(r) \/ Fail(r)
  PROVE  PassInv'
<1>1. /\ at \in [Request -> {"connecting", "reading", "routing", "handling", "answered"}]
      /\ status \in [Request -> Nat] /\ gone \in [Request -> BOOLEAN]
  BY DEF HttpInv, PlacesOK, PassInv
<1>2. call' = call /\ taken' = taken /\ buffered' = buffered
  BY DEF Leave, Dispatch, ReceiveDisconnect, Succeed, Fail, client
<1>3. Sums(r)'
  BY <1>2 DEF PassInv, Sums
<1>4. Welcome(r) /\ (Proper(r)' => Proper(r))
  BY <1>1, <1>2 DEF PassInv, Proper, Leave, Dispatch, ReceiveDisconnect, Succeed, Fail, client
<1>5. CASE Leave(r)
  <2>1. gone' = [gone EXCEPT ![r] = TRUE] /\ at' = at /\ status' = status
    BY <1>5 DEF Leave
  <2>2. Welcome(r)'
    BY <1>1, <2>1 DEF Welcome, Proper
  <2> QED
    BY <1>1, <1>2, <1>3, <2>1, <2>2, LocalPass
<1>6. CASE Dispatch(r)
  <2>1. Welcome(r)'
    <3>1. Proper(r) => ~(Total(call[r].chunks) > MaxBytes) /\ call[r].length # "bad"
      <4>1. Total(call[r].chunks) \in Nat
        <5>1. PICK p : Running(p, call[r].chunks) /\ p[Len(call[r].chunks)] = Total(call[r].chunks)
          BY ChunkSums DEF HttpInv
        <5>2. Len(call[r].chunks) \in Nat
          BY ChunkSums DEF HttpInv
        <5> QED
          BY <5>1, <5>2 DEF Running
      <4> QED
        BY <4>1, HttpAssumption DEF Proper
    <3> QED
      BY <1>1, <1>2, <1>4, <1>6, <3>1 DEF Dispatch, Answer, Welcome, HasBody
  <2> QED
    BY <1>1, <1>2, <1>3, <1>6, <2>1, LocalPass DEF Dispatch, Answer, client
<1>7. CASE ReceiveDisconnect(r)
  <2>1. Welcome(r)'
    BY <1>4, <1>7 DEF ReceiveDisconnect, Welcome, Proper
  <2> QED
    BY <1>1, <1>2, <1>3, <1>7, <2>1, LocalPass DEF ReceiveDisconnect, AfterDisconnect, client
<1>8. CASE Succeed(r) \/ Fail(r)
  <2>1. Welcome(r)'
    BY <1>1, <1>8 DEF Succeed, Fail, Answer, Welcome
  <2> QED
    BY <1>1, <1>2, <1>3, <1>8, <2>1, LocalPass DEF Succeed, Fail, Answer, client
<1> QED
  BY <1>5, <1>6, <1>7, <1>8

LEMMA PassInvStep == HttpInv /\ PassInv /\ [HttpNext]_httpVars => PassInv'
<1> SUFFICES ASSUME HttpInv, PassInv, [HttpNext]_httpVars PROVE PassInv'
  OBVIOUS
<1>1. ASSUME UNCHANGED <<call, at, gone, taken, buffered, status>> PROVE PassInv'
  BY <1>1 DEF PassInv, Sums, Welcome, Proper, HasBody
<1>2. CASE UNCHANGED httpVars \/ StartUp \/ Restart \/ DbChanges
  BY <1>1, <1>2 DEF httpVars, StartUp, Restart, DbChanges, client
<1>3. ASSUME NEW r \in Request, SendChunk(r) PROVE PassInv'
  BY <1>1, <1>3 DEF SendChunk
<1>4. ASSUME NEW r \in Request, Leave(r) \/ Admit(r) \/ Succeed(r) \/ Fail(r) PROVE PassInv'
  BY <1>4, ReceivingPasses, RoutingPasses, OthersPass DEF Admit
<1> QED
  BY <1>2, <1>3, <1>4 DEF HttpNext, Outside

\* However a proper body is cut into chunks, and whatever happens to the database and
\* the process meanwhile, its sender is never told that the request was wrong or too
\* large.
THEOREM ProperRequestsPass == TurnRequestSpec => []GoodRequestsPass
<1>1. PassInv => GoodRequestsPass
  BY DEF PassInv, Welcome, Proper, GoodRequestsPass
<1> QED
  BY <1>1, HttpInvInit, HttpInvStep, PassInvInit, PassInvStep, TurnRequestImplementsHttp, PTL DEF HttpSpec
=============================================================================
