-------------------------- MODULE AgentLoopProofs --------------------------
(***************************************************************************)
(* Proofs about AgentLoop for every budget of turns, size of window, model *)
(* routing and truncation limit.                                           *)
(***************************************************************************)
EXTENDS AgentLoop, SequenceTheorems, FiniteSetTheorems, TLAPS

USE AgentLoopAssumption DEF AgentLoopAssumption

LEMMA PlainType ==
  ASSUME NEW k \in Kind
  PROVE  Plain(k) \in Message
BY DEF Plain, Message

LEMMA WeightType ==
  ASSUME NEW m
  PROVE  Weight(m) \in {1, Long}
BY DEF Weight

LEMMA FunctionIsSeq ==
  ASSUME NEW S, NEW n \in Nat, NEW f \in [1 .. n -> S]
  PROVE  f \in Seq(S) /\ Len(f) = n /\ \A i \in 1 .. n : f[i] \in S
<1>1. f \in Seq(S)  BY SeqDef
<1>2. DOMAIN f = 1 .. n /\ DOMAIN f = 1 .. Len(f) /\ Len(f) \in Nat  BY <1>1, LenProperties
<1>3. Len(f) = n  BY <1>2
<1>. QED  BY <1>1, <1>3

(* The estimate of a history has one weight per message.                   *)
LEMMA WeightsType ==
  ASSUME NEW ms \in Seq(Message)
  PROVE  /\ Weights(ms) \in Seq({1, Long})
         /\ Len(Weights(ms)) = Len(ms)
         /\ \A i \in 1 .. Len(ms) : Weights(ms)[i] = Weight(ms[i])
<1>1. Len(ms) \in Nat /\ DOMAIN ms = 1 .. Len(ms)  BY LenProperties
<1>2. Weights(ms) \in [1 .. Len(ms) -> {1, Long}]  BY <1>1, WeightType DEF Weights
<1>3. \A i \in 1 .. Len(ms) : Weights(ms)[i] = Weight(ms[i])  BY <1>1 DEF Weights
<1>. QED  BY <1>1, <1>2, <1>3, FunctionIsSeq

LEMMA TotalType ==
  ASSUME NEW ws \in Seq({1, Long})
  PROVE  Total(ws) \in Int
<1>1. Len(ws) \in Nat /\ DOMAIN ws = 1 .. Len(ws)  BY LenProperties
<1>2. IsFiniteSet(1 .. Len(ws))  BY <1>1, FS_Interval
<1>3. IsFiniteSet({i \in DOMAIN ws : ws[i] = Long})  BY <1>1, <1>2, FS_Subset
<1>4. Cardinality({i \in DOMAIN ws : ws[i] = Long}) \in Nat  BY <1>3, FS_CardinalityType
<1>. QED  BY <1>1, <1>4 DEF Total

LEMMA RecentType ==
  ASSUME NEW S, NEW s \in Seq(S), NEW k \in Nat, k <= Len(s)
  PROVE  /\ Recent(s, k) \in Seq(S)
         /\ Len(Recent(s, k)) = k
         /\ \A i \in 1 .. k : Recent(s, k)[i] = s[Len(s) - k + i]
<1>1. Len(s) \in Nat  BY LenProperties
<1>2. Len(s) - k + 1 \in Int /\ Len(s) \in Int  BY <1>1
<1>3. \A i \in Len(s) - k + 1 .. Len(s) : s[i] \in S  BY <1>1, ElementOfSeq
<1>4. /\ SubSeq(s, Len(s) - k + 1, Len(s)) \in Seq(S)
      /\ Len(SubSeq(s, Len(s) - k + 1, Len(s)))
           = IF Len(s) - k + 1 <= Len(s) THEN Len(s) - (Len(s) - k + 1) + 1 ELSE 0
      /\ \A i \in 1 .. Len(s) - (Len(s) - k + 1) + 1 :
           SubSeq(s, Len(s) - k + 1, Len(s))[i] = s[Len(s) - k + 1 + i - 1]
  BY <1>2, <1>3, SubSeqProperties
<1>. QED  BY <1>1, <1>4 DEF Recent

LEMMA SingleType ==
  ASSUME NEW S, NEW x \in S
  PROVE  <<x>> \in Seq(S) /\ Len(<<x>>) = 1 /\ <<x>>[1] = x
OBVIOUS
-----------------------------------------------------------------------------
(* A cache that holds the weights of a prefix of the history.              *)
Covers(c, ms) == Len(c) <= Len(ms) /\ \A i \in 1 .. Len(c) : c[i] = Weight(ms[i])

(* Brought up to date, such a cache is the estimate of the whole history.  *)
LEMMA RefreshedIsCurrent ==
  ASSUME NEW ms \in Seq(Message), NEW c \in Seq({1, Long}), Covers(c, ms)
  PROVE  Refreshed(c, ms) = Weights(ms)
<1>1. Len(ms) \in Nat /\ Len(c) \in Nat /\ Len(c) <= Len(ms)  BY LenProperties DEF Covers
<1>. DEFINE tail == SubSeq(ms, Len(c) + 1, Len(ms))
<1>2. \A i \in Len(c) + 1 .. Len(ms) : ms[i] \in Message  BY <1>1, ElementOfSeq
<1>3. /\ tail \in Seq(Message)
      /\ Len(tail) = IF Len(c) + 1 <= Len(ms) THEN Len(ms) - (Len(c) + 1) + 1 ELSE 0
      /\ \A i \in 1 .. Len(ms) - (Len(c) + 1) + 1 : tail[i] = ms[Len(c) + 1 + i - 1]
  <2>1. Len(c) + 1 \in Int /\ Len(ms) \in Int  BY <1>1
  <2>. QED  BY <2>1, <1>2, SubSeqProperties
<1>4. Len(tail) = Len(ms) - Len(c) /\ \A i \in 1 .. Len(ms) - Len(c) : tail[i] = ms[Len(c) + i]
  BY <1>1, <1>3
<1>5. tail \in Seq(Message)  BY <1>3
<1>. HIDE DEF tail
<1>6. /\ Weights(tail) \in Seq({1, Long})
      /\ Len(Weights(tail)) = Len(ms) - Len(c)
      /\ \A i \in 1 .. Len(ms) - Len(c) : Weights(tail)[i] = Weight(ms[Len(c) + i])
  BY <1>4, <1>5, WeightsType
<1>7. /\ c \o Weights(tail) \in Seq({1, Long})
      /\ Len(c \o Weights(tail)) = Len(c) + Len(Weights(tail))
      /\ \A i \in 1 .. Len(c) + Len(Weights(tail)) :
           (c \o Weights(tail))[i] = IF i <= Len(c) THEN c[i] ELSE Weights(tail)[i - Len(c)]
  BY <1>6, ConcatProperties
<1>8. \A i \in 1 .. Len(ms) : (c \o Weights(tail))[i] = Weight(ms[i])
  <2>1. TAKE i \in 1 .. Len(ms)
  <2>2. CASE i <= Len(c)
    <3>1. i \in 1 .. Len(c)  BY <1>1, <2>2
    <3>. QED  BY <1>1, <1>6, <1>7, <2>2, <3>1 DEF Covers
  <2>3. CASE ~(i <= Len(c))
    <3>1. i - Len(c) \in 1 .. Len(ms) - Len(c) /\ Len(c) + (i - Len(c)) = i  BY <1>1, <2>3
    <3>2. Weights(tail)[i - Len(c)] = Weight(ms[i])  BY <1>6, <3>1
    <3>. QED  BY <1>1, <1>6, <1>7, <2>3, <3>2
  <2>. QED  BY <2>2, <2>3
<1>9. c \o Weights(tail) = Weights(ms)
  <2>1. Len(c \o Weights(tail)) = Len(ms)  BY <1>1, <1>6, <1>7
  <2>2. Weights(ms) \in Seq({1, Long}) /\ Len(Weights(ms)) = Len(ms)
        /\ \A i \in 1 .. Len(ms) : Weights(ms)[i] = Weight(ms[i])
    BY WeightsType
  <2>. QED  BY <1>7, <1>8, <2>1, <2>2, SeqEqual
<1>. QED  BY <1>1, <1>9 DEF Refreshed, tail
-----------------------------------------------------------------------------
(* Truncation keeps the first message and the last MaxMessages - 1.        *)
LEMMA TruncateType ==
  ASSUME NEW ms \in Seq(Message)
  PROVE  /\ Truncate(ms) \in Seq(Message)
         /\ Len(Truncate(ms)) <= MaxMessages
         /\ Len(ms) > MaxMessages =>
              /\ Len(Truncate(ms)) = MaxMessages
              /\ Truncate(ms)[1] = ms[1]
              /\ \A i \in 2 .. MaxMessages : Truncate(ms)[i] = ms[Len(ms) - MaxMessages + i]
<1>1. Len(ms) \in Nat  BY LenProperties
<1>2. CASE Len(ms) <= MaxMessages
  BY <1>1, <1>2 DEF Truncate
<1>3. CASE Len(ms) > MaxMessages
  <2>. DEFINE rest == Recent(ms, MaxMessages - 1)
  <2>1. MaxMessages - 1 \in Nat /\ MaxMessages - 1 <= Len(ms)  BY <1>1, <1>3
  <2>2. /\ rest \in Seq(Message)
        /\ Len(rest) = MaxMessages - 1
        /\ \A i \in 1 .. MaxMessages - 1 : rest[i] = ms[Len(ms) - (MaxMessages - 1) + i]
    BY <2>1, RecentType
  <2>3. ms[1] \in Message  BY <1>1, <1>3, ElementOfSeq
  <2>. HIDE DEF rest
  <2>4. <<ms[1]>> \in Seq(Message) /\ Len(<<ms[1]>>) = 1 /\ <<ms[1]>>[1] = ms[1]
    BY <2>3, SingleType
  <2>5. /\ <<ms[1]>> \o rest \in Seq(Message)
        /\ Len(<<ms[1]>> \o rest) = Len(<<ms[1]>>) + Len(rest)
        /\ \A i \in 1 .. Len(<<ms[1]>>) + Len(rest) :
             (<<ms[1]>> \o rest)[i] = IF i <= Len(<<ms[1]>>) THEN <<ms[1]>>[i]
                                     ELSE rest[i - Len(<<ms[1]>>)]
    BY <2>2, <2>4, ConcatProperties
  <2>6. Truncate(ms) = <<ms[1]>> \o rest  BY <1>1, <1>3 DEF Truncate, rest
  <2>7. Len(Truncate(ms)) = MaxMessages /\ Truncate(ms)[1] = ms[1]
    BY <2>2, <2>4, <2>5, <2>6
  <2>8. ASSUME NEW i \in 2 .. MaxMessages
        PROVE  Truncate(ms)[i] = ms[Len(ms) - MaxMessages + i]
    <3>1. Truncate(ms)[i] = rest[i - 1]  BY <2>2, <2>4, <2>5, <2>6
    <3>2. i - 1 \in 1 .. MaxMessages - 1  OBVIOUS
    <3>3. rest[i - 1] = ms[Len(ms) - (MaxMessages - 1) + (i - 1)]  BY <2>2, <3>2
    <3>4. Len(ms) - (MaxMessages - 1) + (i - 1) = Len(ms) - MaxMessages + i  BY <1>1
    <3>. QED  BY <3>1, <3>3, <3>4
  <2>. QED  BY <2>5, <2>6, <2>7, <2>8
<1>. QED  BY <1>1, <1>2, <1>3

(* Truncating after every turn gives what truncating once at the end does: *)
(* the messages a truncation drops are not missed by a later one.          *)
LEMMA TruncateTwice ==
  ASSUME NEW a \in Seq(Message), NEW b \in Seq(Message)
  PROVE  Truncate(Truncate(a) \o b) = Truncate(a \o b)
<1>1. Len(a) \in Nat /\ Len(b) \in Nat  BY LenProperties
<1>2. CASE Len(a) <= MaxMessages
  BY <1>2 DEF Truncate
<1>3. CASE Len(a) > MaxMessages
  <2>. DEFINE t == Truncate(a)
              tb == t \o b
              ab == a \o b
  <2>1. /\ t \in Seq(Message) /\ Len(t) = MaxMessages /\ t[1] = a[1]
        /\ \A i \in 2 .. MaxMessages : t[i] = a[Len(a) - MaxMessages + i]
    BY <1>3, TruncateType
  <2>. HIDE DEF t
  <2>2. /\ tb \in Seq(Message) /\ Len(tb) = MaxMessages + Len(b)
        /\ \A i \in 1 .. MaxMessages + Len(b) :
             tb[i] = IF i <= MaxMessages THEN t[i] ELSE b[i - MaxMessages]
    BY <2>1, ConcatProperties
  <2>3. /\ ab \in Seq(Message) /\ Len(ab) = Len(a) + Len(b)
        /\ \A i \in 1 .. Len(a) + Len(b) :
             ab[i] = IF i <= Len(a) THEN a[i] ELSE b[i - Len(a)]
    BY ConcatProperties
  <2>. HIDE DEF tb, ab
  <2>4. tb[1] = a[1] /\ ab[1] = a[1]  BY <1>1, <1>3, <2>1, <2>2, <2>3
  <2>5. ASSUME NEW i \in 2 .. MaxMessages + Len(b)
        PROVE  tb[i] = ab[Len(a) - MaxMessages + i]
    <3>1. CASE i <= MaxMessages
      <4>1. i \in 1 .. MaxMessages + Len(b) /\ i \in 2 .. MaxMessages  BY <1>1, <3>1
      <4>2. tb[i] = a[Len(a) - MaxMessages + i]  BY <2>1, <2>2, <3>1, <4>1
      <4>3. Len(a) - MaxMessages + i \in 1 .. Len(a) + Len(b) /\ Len(a) - MaxMessages + i <= Len(a)
        BY <1>1, <1>3, <4>1
      <4>. QED  BY <2>3, <4>2, <4>3
    <3>2. CASE i > MaxMessages
      <4>1. tb[i] = b[i - MaxMessages]  BY <1>1, <2>2, <3>2
      <4>2. Len(a) - MaxMessages + i \in 1 .. Len(a) + Len(b) /\ ~(Len(a) - MaxMessages + i <= Len(a))
        BY <1>1, <1>3, <3>2
      <4>3. ab[Len(a) - MaxMessages + i] = b[Len(a) - MaxMessages + i - Len(a)]  BY <2>3, <4>2
      <4>4. Len(a) - MaxMessages + i - Len(a) = i - MaxMessages  BY <1>1
      <4>. QED  BY <4>1, <4>3, <4>4
    <3>. QED  BY <1>1, <3>1, <3>2
  <2>6. CASE Len(b) = 0
    <3>1. b = <<>>  BY <2>6, EmptySeq
    <3>2. tb = t /\ ab = a  BY <2>1, <3>1, ConcatEmptySeq DEF tb, ab
    <3>3. Truncate(t) = t  BY <2>1 DEF Truncate
    <3>. QED  BY <3>2, <3>3 DEF t, tb, ab
  <2>7. CASE Len(b) > 0
    <3>1. Len(tb) > MaxMessages /\ Len(ab) > MaxMessages  BY <1>1, <1>3, <2>2, <2>3, <2>7
    <3>2. /\ Truncate(tb) \in Seq(Message) /\ Len(Truncate(tb)) = MaxMessages
          /\ Truncate(tb)[1] = tb[1]
          /\ \A i \in 2 .. MaxMessages : Truncate(tb)[i] = tb[Len(tb) - MaxMessages + i]
      BY <2>2, <3>1, TruncateType
    <3>3. /\ Truncate(ab) \in Seq(Message) /\ Len(Truncate(ab)) = MaxMessages
          /\ Truncate(ab)[1] = ab[1]
          /\ \A i \in 2 .. MaxMessages : Truncate(ab)[i] = ab[Len(ab) - MaxMessages + i]
      BY <2>3, <3>1, TruncateType
    <3>4. ASSUME NEW i \in 1 .. MaxMessages
          PROVE  Truncate(tb)[i] = Truncate(ab)[i]
      <4>1. CASE i = 1  BY <2>4, <3>2, <3>3, <4>1
      <4>2. CASE i \in 2 .. MaxMessages
        <5>1. Truncate(tb)[i] = tb[Len(b) + i]  BY <1>1, <2>2, <3>2, <4>2
        <5>2. Truncate(ab)[i] = ab[Len(a) + Len(b) - MaxMessages + i]  BY <2>3, <3>3, <4>2
        <5>3. Len(b) + i \in 2 .. MaxMessages + Len(b)  BY <1>1, <4>2
        <5>4. tb[Len(b) + i] = ab[Len(a) - MaxMessages + (Len(b) + i)]  BY <2>5, <5>3
        <5>5. Len(a) - MaxMessages + (Len(b) + i) = Len(a) + Len(b) - MaxMessages + i  BY <1>1
        <5>. QED  BY <5>1, <5>2, <5>4, <5>5
      <4>. QED  BY <4>1, <4>2
    <3>5. Truncate(tb) = Truncate(ab)  BY <3>2, <3>3, <3>4, SeqEqual
    <3>. QED  BY <3>5 DEF t, tb, ab
  <2>. QED  BY <1>1, <2>6, <2>7
<1>. QED  BY <1>1, <1>2, <1>3
-----------------------------------------------------------------------------
LEMMA ElidedType ==
  ASSUME NEW ms \in Seq(Message)
  PROVE  Elided(ms) \in Seq(Message) /\ Len(Elided(ms)) = Len(ms)
<1>1. Len(ms) \in Nat /\ DOMAIN ms = 1 .. Len(ms)  BY LenProperties
<1>2. Plain("result") \in Message  BY PlainType DEF Kind
<1>3. \A i \in 1 .. Len(ms) : ms[i] \in Message  BY ElementOfSeq
<1>4. Elided(ms) \in [1 .. Len(ms) -> Message]  BY <1>1, <1>2, <1>3 DEF Elided
<1>. QED  BY <1>1, <1>4, FunctionIsSeq

(* A snip puts its marker first, so that dropping the first message after  *)
(* one drops the marker.                                                   *)
LEMMA SnippedType ==
  ASSUME NEW ms \in Seq(Message)
  PROVE  Snipped(ms) \in Seq(Message) /\ (Snipped(ms) = ms \/ Snipped(ms) # <<>>)
<1>1. Len(ms) \in Nat  BY LenProperties
<1>2. CASE Len(ms) <= KeepRecent
  BY <1>2 DEF Snipped
<1>3. CASE Len(ms) > KeepRecent
  <2>1. Recent(ms, KeepRecent) \in Seq(Message)  BY <1>1, <1>3, RecentType
  <2>2. <<Plain("marker")>> \in Seq(Message) /\ Len(<<Plain("marker")>>) = 1
    BY PlainType, SingleType DEF Kind
  <2>3. /\ <<Plain("marker")>> \o Recent(ms, KeepRecent) \in Seq(Message)
        /\ Len(<<Plain("marker")>> \o Recent(ms, KeepRecent)) = 1 + Len(Recent(ms, KeepRecent))
    BY <2>1, <2>2, ConcatProperties
  <2>4. Len(Recent(ms, KeepRecent)) \in Nat  BY <2>1, LenProperties
  <2>5. <<Plain("marker")>> \o Recent(ms, KeepRecent) # <<>>  BY <2>3, <2>4, EmptySeq
  <2>. QED  BY <1>1, <1>3, <2>3, <2>5 DEF Snipped
<1>. QED  BY <1>1, <1>2, <1>3

LEMMA RestoredType ==
  ASSUME NEW ms \in Seq(Message)
  PROVE  Restored(ms) \in Message
<1>1. CASE FirstUserText(ms) = {}
  BY <1>1, PlainType DEF Restored, Kind
<1>2. CASE FirstUserText(ms) # {}
  <2>. DEFINE i == CHOOSE j \in FirstUserText(ms) : TRUE
  <2>1. i \in 1 .. Len(ms)  BY <1>2, LenProperties DEF FirstUserText
  <2>2. ms[i] \in Message  BY <2>1, ElementOfSeq
  <2>3. Restored(ms) = Quoted(ms[i])  BY <1>2 DEF Restored
  <2>. HIDE DEF i
  <2>4. ASSUME NEW m \in Message
        PROVE  Quoted(m) \in Message
    <3>1. m.of \in 0 .. MaxRuns /\ m.left \in 0 .. GoalLevels  BY DEF Message
    <3>2. (CASE m.kind = "task" -> GoalLevels
             [] m.kind = "restored" /\ m.left > 0 -> m.left - 1
             [] OTHER -> 0) \in 0 .. GoalLevels
      BY <3>1
    <3>. QED  BY <3>1, <3>2 DEF Quoted, Message, Kind
  <2>. QED  BY <2>2, <2>3, <2>4
<1>. QED  BY <1>1, <1>2

(* A compaction returns a history, led by the restoration message.         *)
LEMMA CompactionShape ==
  ASSUME NEW ms \in Seq(Message), NEW threshold \in Int
  PROVE  \E rest \in Seq(Message) :
           Compaction(ms, threshold).messages = <<Restored(ms)>> \o rest
<1>. DEFINE elided  == Elided(ms)
            freed   == Total(Weights(ms)) - Total(Weights(elided))
            enough  == freed > 0 /\ Total(Weights(elided)) < threshold
            snipped == IF enough THEN elided ELSE Snipped(elided)
            more    == Total(Weights(elided)) - Total(Weights(snipped))
            rest    == IF more > 0 THEN Tail(snipped) ELSE snipped
<1>1. elided \in Seq(Message)  BY ElidedType
<1>2. Total(Weights(elided)) \in Int  BY <1>1, WeightsType, TotalType
<1>3. snipped \in Seq(Message) /\ (snipped = elided \/ snipped # <<>>)
  BY <1>1, SnippedType
<1>4. more > 0 => snipped # <<>>
  <2>1. CASE snipped = elided
    <3>1. more = Total(Weights(elided)) - Total(Weights(elided))  BY <2>1
    <3>. QED  BY <1>2, <3>1
  <2>. QED  BY <1>3, <2>1
<1>5. rest \in Seq(Message)  BY <1>3, <1>4, HeadTailProperties
<1>6. Compaction(ms, threshold).messages = <<Restored(ms)>> \o rest  BY DEF Compaction
<1>. HIDE DEF rest
<1>. QED  BY <1>5, <1>6

LEMMA CompactionType ==
  ASSUME NEW ms \in Seq(Message), NEW threshold \in Int
  PROVE  Compaction(ms, threshold).messages \in Seq(Message)
<1>1. <<Restored(ms)>> \in Seq(Message)  BY RestoredType, SingleType
<1>2. PICK rest \in Seq(Message) :
        Compaction(ms, threshold).messages = <<Restored(ms)>> \o rest
  BY CompactionShape
<1>3. <<Restored(ms)>> \o rest \in Seq(Message)  BY <1>1, ConcatProperties
<1>. QED  BY <1>2, <1>3
-----------------------------------------------------------------------------
(* Between runs there is no estimate, and at the top of a turn it covers a *)
(* prefix of the history: messages are appended after it.                  *)
CachePrefix ==
  /\ pc \in {"idle", "down"} => cache = <<>>
  /\ Covers(cache, messages)

(* When a turn is saved its messages are at the end of the history, and    *)
(* its evidence is out; a dead process owes nothing.                       *)
TurnShape ==
  /\ pc = "act" => Len(messages) >= 1 /\ RunsTools(response)
  /\ pc \in {"emit", "save"} => Len(messages) >= IF RunsTools(response) THEN 2 ELSE 1
  /\ pc = "save" => "evidence" \notin owed
  /\ pc = "down" => owed = {}

(* A terminated last line is counted with the others.                      *)
LastLine == ~unterminated => partial = <<>>

IInv ==
  /\ TypeOK
  /\ CachePrefix
  /\ CacheIsCurrent
  /\ TurnShape
  /\ LastLine
  /\ TurnsAccounted
  /\ RestartRestoresMemory

LEMMA EmptyCovers ==
  ASSUME NEW ms \in Seq(Message)
  PROVE  Covers(<<>>, ms)
BY LenProperties DEF Covers

(* The full estimate covers the history, and still does when the history   *)
(* has grown by a message.                                                 *)
LEMMA WeightsCover ==
  ASSUME NEW ms \in Seq(Message)
  PROVE  Covers(Weights(ms), ms)
<1>1. Len(ms) \in Nat  BY LenProperties
<1>. QED  BY <1>1, WeightsType DEF Covers

LEMMA AppendCovers ==
  ASSUME NEW ms \in Seq(Message), NEW c \in Seq({1, Long}), Covers(c, ms), NEW m \in Message
  PROVE  Covers(c, Append(ms, m))
<1>1. Len(ms) \in Nat /\ Len(c) \in Nat  BY LenProperties
<1>2. Len(Append(ms, m)) = Len(ms) + 1 /\ \A i \in 1 .. Len(ms) : Append(ms, m)[i] = ms[i]
  BY AppendProperties
<1>. QED  BY <1>1, <1>2 DEF Covers

LEMMA InitIInv ==
  ASSUME Init
  PROVE  IInv
<1>1. /\ <<>> \in Seq(Message) /\ <<>> \in Seq({1, Long}) /\ Len(<<>>) = 0
  BY EmptySeq
<1>2. NoResponse \in Response  BY DEF NoResponse, Response
<1>3. TypeOK
  <2>1. /\ run \in 0 .. MaxRuns /\ turn \in 0 .. MaxTurns /\ failures \in 0 .. MaxFailures
        /\ crashes \in 0 .. MaxCrashes /\ Len(mem) <= MaxMessages
    BY <1>1 DEF Init
  <2>. QED  BY <1>1, <1>2, <2>1 DEF Init, TypeOK
<1>4. CachePrefix  BY <1>1, EmptyCovers DEF Init, CachePrefix
<1>5. CacheIsCurrent /\ TurnShape /\ LastLine /\ TurnsAccounted
  BY DEF Init, CacheIsCurrent, TurnShape, LastLine, TurnsAccounted
<1>6. RestartRestoresMemory
  <2>1. <<>> \o <<>> = <<>>  BY <1>1, ConcatEmptySeq
  <2>2. Truncate(<<>>) = <<>>  BY <1>1 DEF Truncate
  <2>. QED  BY <2>1, <2>2 DEF Init, RestartRestoresMemory, Loaded
<1>. QED  BY <1>3, <1>4, <1>5, <1>6 DEF IInv

(* What a returning run leaves: no locals.                                 *)
LEMMA ReturnClears ==
  ASSUME Return, TypeOK
  PROVE  /\ pc' = "idle" /\ turn' \in 0 .. MaxTurns /\ messages' \in Seq(Message)
         /\ cache' \in Seq({1, Long}) /\ failures' \in 0 .. MaxFailures /\ response' \in Response
         /\ CachePrefix' /\ CacheIsCurrent' /\ TurnShape'
<1>1. /\ <<>> \in Seq(Message) /\ <<>> \in Seq({1, Long}) /\ Covers(<<>>, <<>>)
  BY EmptySeq, EmptyCovers
<1>2. NoResponse \in Response  BY DEF NoResponse, Response
<1>. QED  BY <1>1, <1>2 DEF Return, TypeOK, CachePrefix, CacheIsCurrent, TurnShape

(* Orient leaves a current estimate of whatever history it sends, whether  *)
(* it compacted it, failed to, or did not try.                             *)
LEMMA OrientStep ==
  ASSUME IInv, NEW threshold \in Thresholds, Orient(threshold)
  PROVE  IInv'
<1>. USE DEF IInv
<1>1. messages \in Seq(Message) /\ cache \in Seq({1, Long}) /\ Covers(cache, messages)
  BY DEF TypeOK, CachePrefix
<1>2. Compaction(messages, threshold).messages \in Seq(Message)
  BY <1>1, CompactionType
<1>3. messages' \in Seq(Message) /\ cache' = Weights(messages')
  <2>. DEFINE done == Compaction(messages, threshold)
  <2>1. CASE messages' = done.messages /\ cache' = Refreshed(ResetCache, done.messages)
    <3>1. <<>> \in Seq({1, Long}) /\ Covers(<<>>, done.messages)  BY <1>2, EmptySeq, EmptyCovers
    <3>2. Refreshed(<<>>, done.messages) = Weights(done.messages)
      BY <1>2, <3>1, RefreshedIsCurrent
    <3>. QED  BY <1>2, <2>1, <3>2 DEF ResetCache
  <2>2. CASE messages' = messages /\ cache' = Refreshed(cache, messages)
    BY <1>1, <2>2, RefreshedIsCurrent
  <2>. QED  BY <2>1, <2>2 DEF Orient
<1>4. cache' \in Seq({1, Long}) /\ Covers(cache', messages')
  BY <1>3, WeightsType, WeightsCover
<1>5. turn' \in 0 .. MaxTurns /\ failures' \in 0 .. MaxFailures
  BY DEF Orient, NextTurn, TypeOK
<1>6. TypeOK'
  BY <1>3, <1>4, <1>5 DEF Orient, TypeOK, session, disk
<1>7. pc' = "call" /\ owed' = owed /\ owed = {}
  BY DEF Orient, TurnsAccounted
<1>8. CachePrefix' /\ CacheIsCurrent' /\ TurnShape' /\ TurnsAccounted'
  BY <1>3, <1>4, <1>7 DEF CachePrefix, CacheIsCurrent, TurnShape, TurnsAccounted
<1>9. LastLine' /\ RestartRestoresMemory'
  BY <1>7 DEF Orient, session, disk, LastLine, RestartRestoresMemory, Loaded
<1>. QED  BY <1>6, <1>8, <1>9

(* A step that appends one message to the history and touches no session.  *)
LEMMA AppendStep ==
  ASSUME IInv, NEW m \in Message, messages' = Append(messages, m), UNCHANGED cache
  PROVE  /\ messages' \in Seq(Message)
         /\ Len(messages') = Len(messages) + 1
         /\ Covers(cache', messages')
<1>1. messages \in Seq(Message) /\ cache \in Seq({1, Long}) /\ Covers(cache, messages)
  BY DEF IInv, TypeOK, CachePrefix
<1>. QED  BY <1>1, AppendCovers, AppendProperties

LEMMA RespondStep ==
  ASSUME IInv, NEW r \in Response, Respond(r)
  PROVE  IInv'
<1>. USE DEF IInv
<1>1. Plain(IF r.calls THEN "use" ELSE "text") \in Message  BY PlainType DEF Kind
<1>2. /\ messages' \in Seq(Message) /\ Len(messages') = Len(messages) + 1
      /\ Covers(cache', messages')
  BY <1>1, AppendStep DEF Respond
<1>3. Len(messages) \in Nat  BY LenProperties DEF TypeOK
<1>4. TypeOK'  BY <1>2 DEF Respond, TypeOK, session, disk
<1>5. CachePrefix' /\ CacheIsCurrent' /\ TurnsAccounted'
  BY <1>2 DEF Respond, CachePrefix, CacheIsCurrent, TurnsAccounted
<1>6. TurnShape'  BY <1>2, <1>3 DEF Respond, TurnShape
<1>7. LastLine' /\ RestartRestoresMemory'
  BY DEF Respond, session, disk, LastLine, RestartRestoresMemory, Loaded
<1>. QED  BY <1>4, <1>5, <1>6, <1>7

LEMMA ActStep ==
  ASSUME IInv, NEW result \in {"result", "long"}, Act(result)
  PROVE  IInv'
<1>. USE DEF IInv
<1>1. Plain(result) \in Message  BY PlainType DEF Kind
<1>2. /\ messages' \in Seq(Message) /\ Len(messages') = Len(messages) + 1
      /\ Covers(cache', messages')
  BY <1>1, AppendStep DEF Act
<1>3. Len(messages) \in Nat  BY LenProperties DEF TypeOK
<1>4. TypeOK'  BY <1>2 DEF Act, AfterTools, TypeOK, session, disk
<1>5. CachePrefix' /\ CacheIsCurrent' /\ TurnsAccounted'
  BY <1>2 DEF Act, AfterTools, CachePrefix, CacheIsCurrent, TurnsAccounted
<1>6. TurnShape'  BY <1>2, <1>3 DEF Act, AfterTools, TurnShape
<1>7. LastLine' /\ RestartRestoresMemory'
  BY DEF Act, AfterTools, session, disk, LastLine, RestartRestoresMemory, Loaded
<1>. QED  BY <1>4, <1>5, <1>6, <1>7

LEMMA TurnMessagesType ==
  ASSUME IInv, pc = "save"
  PROVE  TurnMessages \in Seq(Message)
<1>1. messages \in Seq(Message) /\ Len(messages) >= IF RunsTools(response) THEN 2 ELSE 1
  BY DEF IInv, TypeOK, TurnShape
<1>. QED  BY <1>1, RecentType DEF TurnMessages

(* A write leaves a file whose lines, as far as they parse, are messages,  *)
(* and whose last line is either terminated or of known content.           *)
LEMMA WriteType ==
  ASSUME IInv, pc = "save", RecordWritten \/ RecordTorn \/ UNCHANGED disk
  PROVE  /\ file' \in Seq(Message) /\ partial' \in Seq(Message)
         /\ unterminated' \in BOOLEAN /\ LastLine'
<1>1. TurnMessages \in Seq(Message)  BY TurnMessagesType
<1>2. file \in Seq(Message) /\ partial \in Seq(Message) /\ unterminated \in BOOLEAN /\ LastLine
  BY DEF IInv, TypeOK
<1>3. <<>> \in Seq(Message) /\ file \o TurnMessages \in Seq(Message)
  BY <1>1, <1>2, EmptySeq, ConcatProperties
<1>4. CASE RecordWritten
  BY <1>2, <1>3, <1>4 DEF RecordWritten, LastLine
<1>5. CASE RecordTorn
  BY <1>1, <1>2, <1>3, <1>5 DEF RecordTorn, LastLine
<1>6. CASE UNCHANGED disk
  BY <1>2, <1>6 DEF disk, LastLine
<1>. QED  BY <1>4, <1>5, <1>6

(* What Save leaves in memory is what Load would read back, if the write   *)
(* succeeded and memory was the file's before.                             *)
LEMMA SaveKeepsSession ==
  ASSUME IInv, pc = "save", mem' = Truncate(mem \o TurnMessages),
         \/ RecordWritten /\ drifted' = (drifted \/ unterminated)
         \/ (RecordTorn \/ UNCHANGED disk) /\ drifted' = TRUE
  PROVE  /\ mem' \in Seq(Message) /\ Len(mem') <= MaxMessages
         /\ ~drifted' => mem' = Loaded'
<1>1. /\ TurnMessages \in Seq(Message) /\ mem \in Seq(Message) /\ file \in Seq(Message)
  BY TurnMessagesType DEF IInv, TypeOK
<1>2. mem \o TurnMessages \in Seq(Message)  BY <1>1, ConcatProperties
<1>3. mem' \in Seq(Message) /\ Len(mem') <= MaxMessages  BY <1>2, TruncateType
<1>4. ASSUME ~drifted'
      PROVE  mem' = Loaded'
  <2>1. RecordWritten /\ ~drifted /\ ~unterminated  BY <1>4
  <2>2. partial = <<>> /\ mem = Truncate(file \o partial)
    BY <2>1 DEF IInv, LastLine, RestartRestoresMemory, Loaded
  <2>3. file \o partial = file  BY <1>1, <2>2, ConcatEmptySeq
  <2>4. file' = file \o TurnMessages /\ partial' = <<>>  BY <2>1 DEF RecordWritten
  <2>5. file \o TurnMessages \in Seq(Message)  BY <1>1, ConcatProperties
  <2>6. Loaded' = Truncate(file \o TurnMessages)  BY <2>4, <2>5, ConcatEmptySeq DEF Loaded
  <2>. QED  BY <1>1, <2>2, <2>3, <2>6, TruncateTwice
<1>. QED  BY <1>3, <1>4

LEMMA SaveStep ==
  ASSUME IInv, Save
  PROVE  IInv'
<1>1. pc = "save" /\ (RecordWritten \/ RecordTorn \/ UNCHANGED disk)  BY DEF Save
<1>2. /\ file' \in Seq(Message) /\ partial' \in Seq(Message)
      /\ unterminated' \in BOOLEAN /\ LastLine'
  BY <1>1, WriteType
<1>3. /\ mem' \in Seq(Message) /\ Len(mem') <= MaxMessages
      /\ ~drifted' => mem' = Loaded'
  BY SaveKeepsSession DEF Save
<1>4. drifted' \in BOOLEAN /\ owed' = owed \ {"session"} /\ owed \subseteq {"evidence", "session"}
  BY DEF Save, IInv, TypeOK
<1>5. owed' = {}  BY <1>1, <1>4 DEF IInv, TurnShape
<1>6. CASE Return
  <2>1. /\ pc' = "idle" /\ turn' \in 0 .. MaxTurns /\ messages' \in Seq(Message)
        /\ cache' \in Seq({1, Long}) /\ failures' \in 0 .. MaxFailures /\ response' \in Response
        /\ CachePrefix' /\ CacheIsCurrent' /\ TurnShape'
    BY <1>6, ReturnClears DEF IInv
  <2>2. run' \in 0 .. MaxRuns /\ crashes' \in 0 .. MaxCrashes
    BY <1>6 DEF Return, Save, IInv, TypeOK
  <2>3. TypeOK'  BY <1>2, <1>3, <1>4, <1>5, <2>1, <2>2 DEF TypeOK
  <2>4. TurnsAccounted' /\ RestartRestoresMemory'
    BY <1>3, <1>5 DEF TurnsAccounted, RestartRestoresMemory
  <2>. QED  BY <1>2, <2>1, <2>3, <2>4 DEF IInv
<1>7. CASE pc' = "top" /\ UNCHANGED loop
  <2>1. TypeOK'  BY <1>2, <1>3, <1>4, <1>7 DEF Save, IInv, TypeOK, loop
  <2>2. CachePrefix' /\ CacheIsCurrent' /\ TurnShape'
    BY <1>7 DEF IInv, CachePrefix, CacheIsCurrent, TurnShape, loop, Covers
  <2>3. TurnsAccounted' /\ RestartRestoresMemory'
    BY <1>3, <1>5, <1>7 DEF TurnsAccounted, RestartRestoresMemory
  <2>. QED  BY <1>2, <2>1, <2>2, <2>3 DEF IInv
<1>. QED  BY <1>6, <1>7 DEF Save

LEMMA StartRunStep ==
  ASSUME IInv, StartRun
  PROVE  IInv'
<1>. USE DEF IInv
<1>1. [Plain("task") EXCEPT !.of = run + 1] \in Message
  <2>1. run + 1 \in 0 .. MaxRuns  BY DEF StartRun, TypeOK
  <2>2. Plain("task") \in Message  BY PlainType DEF Kind
  <2>. QED  BY <2>1, <2>2 DEF Message
<1>2. messages' \in Seq(Message)
  BY <1>1, AppendProperties DEF StartRun, TypeOK
<1>3. TypeOK'  BY <1>2 DEF StartRun, TypeOK, session, disk
<1>4. CachePrefix' /\ CacheIsCurrent' /\ TurnShape'
  BY <1>2, EmptyCovers DEF StartRun, CachePrefix, CacheIsCurrent, TurnShape
<1>5. LastLine' /\ TurnsAccounted' /\ RestartRestoresMemory'
  BY DEF StartRun, session, disk, LastLine, TurnsAccounted, RestartRestoresMemory, Loaded
<1>. QED  BY <1>3, <1>4, <1>5

(* The exits that leave the session alone.                                 *)
LEMMA ExitStep ==
  ASSUME IInv, GiveUp \/ StreamFails
  PROVE  IInv'
<1>. USE DEF IInv
<1>1. Return /\ UNCHANGED <<owed, session, crashes>> /\ owed = {}
  BY DEF GiveUp, StreamFails, TurnsAccounted
<1>2. /\ pc' = "idle" /\ turn' \in 0 .. MaxTurns /\ messages' \in Seq(Message)
      /\ cache' \in Seq({1, Long}) /\ failures' \in 0 .. MaxFailures /\ response' \in Response
      /\ CachePrefix' /\ CacheIsCurrent' /\ TurnShape'
  BY <1>1, ReturnClears
<1>3. TypeOK'  BY <1>1, <1>2 DEF Return, TypeOK, session, disk
<1>4. LastLine' /\ TurnsAccounted' /\ RestartRestoresMemory'
  BY <1>1, <1>2 DEF GiveUp, StreamFails, session, disk, LastLine, TurnsAccounted,
                    RestartRestoresMemory, Loaded
<1>. QED  BY <1>2, <1>3, <1>4

LEMMA EmitStep ==
  ASSUME IInv, Emit
  PROVE  IInv'
<1>. USE DEF IInv
<1>1. TypeOK'  BY DEF Emit, TypeOK, loop, session, disk
<1>2. CachePrefix' /\ CacheIsCurrent' /\ TurnShape' /\ TurnsAccounted'
  BY DEF Emit, CachePrefix, CacheIsCurrent, TurnShape, TurnsAccounted, loop, Covers
<1>3. LastLine' /\ RestartRestoresMemory'
  BY DEF Emit, session, disk, LastLine, RestartRestoresMemory, Loaded
<1>. QED  BY <1>1, <1>2, <1>3

LEMMA CompactStep ==
  ASSUME IInv, Compact
  PROVE  IInv'
<1>1. mem \in Seq(Message) /\ Len(mem) \in Nat /\ Len(mem) <= MaxMessages
  BY LenProperties DEF IInv, TypeOK
<1>2. /\ CompactKeep \in Nat /\ CompactKeep + 1 < Len(mem)
      /\ mem' = <<Plain("summary")>> \o Recent(mem, CompactKeep)
  BY AgentLoopAssumption DEF Compact, Compacted
<1>3. CompactKeep <= Len(mem)  BY <1>1, <1>2
<1>4. /\ Recent(mem, CompactKeep) \in Seq(Message)
      /\ Len(Recent(mem, CompactKeep)) = CompactKeep
  BY <1>1, <1>2, <1>3, RecentType
<1>5. <<Plain("summary")>> \in Seq(Message) /\ Len(<<Plain("summary")>>) = 1
  BY PlainType, SingleType DEF Kind
<1>6. mem' \in Seq(Message) /\ Len(mem') = 1 + CompactKeep
  BY <1>2, <1>4, <1>5, ConcatProperties
<1>. USE DEF IInv
<1>7. Len(mem') <= MaxMessages  BY <1>1, <1>2, <1>6
<1>8. TypeOK'  BY <1>6, <1>7 DEF Compact, TypeOK, loop, disk
<1>9. CachePrefix' /\ CacheIsCurrent' /\ TurnShape' /\ TurnsAccounted'
  BY DEF Compact, CachePrefix, CacheIsCurrent, TurnShape, TurnsAccounted, loop, Covers
<1>10. LastLine' /\ RestartRestoresMemory'
  BY DEF Compact, disk, LastLine, RestartRestoresMemory
<1>. QED  BY <1>8, <1>9, <1>10

LEMMA CrashStep ==
  ASSUME IInv, Crash
  PROVE  IInv'
<1>. USE DEF IInv
<1>1. /\ file' \in Seq(Message) /\ partial' \in Seq(Message)
      /\ unterminated' \in BOOLEAN /\ LastLine'
  <2>1. CASE UNCHANGED disk  BY <2>1 DEF TypeOK, disk, LastLine
  <2>2. CASE pc = "save" /\ (RecordWritten \/ RecordTorn)  BY <2>2, WriteType
  <2>. QED  BY <2>1, <2>2 DEF Crash
<1>2. /\ <<>> \in Seq(Message) /\ <<>> \in Seq({1, Long}) /\ Len(<<>>) = 0 /\ Covers(<<>>, <<>>)
  BY EmptySeq, EmptyCovers
<1>3. NoResponse \in Response  BY DEF NoResponse, Response
<1>4. Len(mem') <= MaxMessages /\ mem' \in Seq(Message)  BY <1>2 DEF Crash
<1>5. turn' \in 0 .. MaxTurns /\ failures' \in 0 .. MaxFailures /\ crashes' \in 0 .. MaxCrashes
  BY DEF Crash, TypeOK
<1>6. TypeOK'  BY <1>1, <1>2, <1>3, <1>4, <1>5 DEF Crash, TypeOK
<1>7. CachePrefix' /\ CacheIsCurrent' /\ TurnShape'
  BY <1>2 DEF Crash, CachePrefix, CacheIsCurrent, TurnShape
<1>8. TurnsAccounted' /\ RestartRestoresMemory'
  BY DEF Crash, TurnsAccounted, RestartRestoresMemory
<1>. QED  BY <1>1, <1>6, <1>7, <1>8

LEMMA RestartStep ==
  ASSUME IInv, Restart
  PROVE  IInv'
<1>. USE DEF IInv
<1>1. file \o partial \in Seq(Message)  BY ConcatProperties DEF TypeOK
<1>2. mem' \in Seq(Message) /\ Len(mem') <= MaxMessages
  BY <1>1, TruncateType DEF Restart, Loaded
<1>3. TypeOK'  BY <1>2 DEF Restart, TypeOK, loop, disk
<1>4. CachePrefix' /\ CacheIsCurrent' /\ TurnShape'
  BY DEF Restart, CachePrefix, CacheIsCurrent, TurnShape, loop, Covers
<1>5. LastLine' /\ TurnsAccounted' /\ RestartRestoresMemory'
  BY DEF Restart, disk, LastLine, TurnShape, TurnsAccounted, RestartRestoresMemory, Loaded
<1>. QED  BY <1>3, <1>4, <1>5
-----------------------------------------------------------------------------
LEMMA NextIInv ==
  ASSUME IInv, [Next]_vars
  PROVE  IInv'
<1>1. CASE StartRun  BY <1>1, StartRunStep
<1>2. ASSUME NEW threshold \in Thresholds, Orient(threshold)
      PROVE  IInv'
  BY <1>2, OrientStep
<1>3. CASE GiveUp  BY <1>3, ExitStep
<1>4. CASE StreamFails  BY <1>4, ExitStep
<1>5. ASSUME NEW r \in Response, Respond(r)
      PROVE  IInv'
  BY <1>5, RespondStep
<1>6. ASSUME NEW result \in {"result", "long"}, Act(result)
      PROVE  IInv'
  BY <1>6, ActStep
<1>7. CASE Emit  BY <1>7, EmitStep
<1>8. CASE Save  BY <1>8, SaveStep
<1>9. CASE Compact  BY <1>9, CompactStep
<1>10. CASE Crash  BY <1>10, CrashStep
<1>11. CASE Restart  BY <1>11, RestartStep
<1>12. CASE UNCHANGED vars
  BY <1>12 DEF IInv, TypeOK, CachePrefix, CacheIsCurrent, TurnShape, LastLine, TurnsAccounted,
               RestartRestoresMemory, Loaded, Covers, vars, loop, session, disk
<1>. QED
  BY <1>1, <1>2, <1>3, <1>4, <1>5, <1>6, <1>7, <1>8, <1>9, <1>10, <1>11, <1>12 DEF Next, LoopStep

THEOREM Inductive == Spec => []IInv
<1>1. Init => IInv  BY InitIInv
<1>2. IInv /\ [Next]_vars => IInv'  BY NextIInv
<1>. QED  BY <1>1, <1>2, PTL DEF Spec

(* Types, and the session's bound: memory never holds more messages than   *)
(* JSONLSession.truncate allows, after Load and /compact as well.          *)
THEOREM TypeCorrect == Spec => []TypeOK
<1>1. IInv => TypeOK  BY DEF IInv
<1>. QED  BY <1>1, Inductive, PTL

(* The incremental estimate is the estimate of the messages sent, whatever *)
(* mix of appends and compactions produced them.                           *)
THEOREM CacheIsCurrentHolds == Spec => []CacheIsCurrent
<1>1. IInv => CacheIsCurrent  BY DEF IInv
<1>. QED  BY <1>1, Inductive, PTL

(* A turn charged to the budget has its evidence and its session record    *)
(* before the run continues or returns.                                    *)
THEOREM TurnsAccountedHolds == Spec => []TurnsAccounted
<1>1. IInv => TurnsAccounted  BY DEF IInv
<1>. QED  BY <1>1, Inductive, PTL

(* A restart restores the history that was in memory, for any truncation   *)
(* limit, unless memory was edited or a write failed.                      *)
THEOREM RestartRestoresMemoryHolds == Spec => []RestartRestoresMemory
<1>1. IInv => RestartRestoresMemory  BY DEF IInv
<1>. QED  BY <1>1, Inductive, PTL

-----------------------------------------------------------------------------
(* What the session holds: turns, behind a /compact summary at most; the   *)
(* prompt of a run is never saved, and neither is a restoration message.   *)
TurnKind == {"text", "use", "result", "long"}

OfTurns(ms) == \A i \in 1 .. Len(ms) : ms[i].kind \in TurnKind

Summarised == Len(mem) >= 1 /\ mem[1].kind = "summary"

TailOfTurns(ms) == \A i \in 2 .. Len(ms) : ms[i].kind \in TurnKind

SessionOfTurns ==
  /\ OfTurns(file) /\ OfTurns(partial)
  /\ TailOfTurns(mem)
  /\ Summarised \/ OfTurns(mem)

(* The turn under way is at the end of the history.                        *)
TurnAtEnd ==
  /\ pc = "act" => messages[Len(messages)].kind = "use"
  /\ pc \in {"emit", "save"} => OfTurns(TurnMessages)

(* The first user text of the history, which the next compaction quotes,   *)
(* descends from the task of run r.                                        *)
Descends(ms, r) ==
  \E i \in 1 .. Len(ms) :
    IsUserText(ms[i]) /\ ms[i].of = r /\ \A j \in 1 .. i - 1 : ~IsUserText(ms[j])

HistoryDescends ==
  pc \notin {"idle", "down"} /\ ~Summarised => Descends(messages, run)

DInv == SessionOfTurns /\ TurnAtEnd /\ HistoryDescends

LEMMA RestoredDescends ==
  ASSUME NEW ms \in Seq(Message), NEW r, Descends(ms, r)
  PROVE  IsUserText(Restored(ms)) /\ Restored(ms).of = r
<1>1. PICK i \in 1 .. Len(ms) :
        IsUserText(ms[i]) /\ ms[i].of = r /\ \A j \in 1 .. i - 1 : ~IsUserText(ms[j])
  BY DEF Descends
<1>2. DOMAIN ms = 1 .. Len(ms) /\ Len(ms) \in Nat  BY LenProperties
<1>3. i \in FirstUserText(ms)  BY <1>1, <1>2 DEF FirstUserText
<1>4. ASSUME NEW k \in FirstUserText(ms)
      PROVE  k = i
  <2>1. k \in 1 .. Len(ms) /\ IsUserText(ms[k]) /\ \A j \in 1 .. k - 1 : ~IsUserText(ms[j])
    BY <1>2 DEF FirstUserText
  <2>2. ~(i < k)  BY <1>1, <1>2, <2>1
  <2>3. ~(k < i)  BY <1>1, <1>2, <2>1
  <2>. QED  BY <1>2, <2>1, <2>2, <2>3
<1>5. (CHOOSE k \in FirstUserText(ms) : TRUE) = i  BY <1>3, <1>4
<1>6. Restored(ms) = Quoted(ms[i])  BY <1>3, <1>5 DEF Restored
<1>. QED  BY <1>1, <1>6 DEF Quoted, IsUserText

LEMMA LedBy ==
  ASSUME NEW x \in Message, NEW rest \in Seq(Message), IsUserText(x)
  PROVE  Descends(<<x>> \o rest, x.of)
<1>1. <<x>> \in Seq(Message) /\ Len(<<x>>) = 1 /\ <<x>>[1] = x  BY SingleType
<1>2. Len(rest) \in Nat  BY LenProperties
<1>3. Len(<<x>> \o rest) = 1 + Len(rest) /\ (<<x>> \o rest)[1] = x
  BY <1>1, <1>2, ConcatProperties
<1>4. 1 \in 1 .. Len(<<x>> \o rest)  BY <1>2, <1>3
<1>. QED  BY <1>3, <1>4 DEF Descends

LEMMA AppendDescends ==
  ASSUME NEW ms \in Seq(Message), NEW m \in Message, NEW r, Descends(ms, r)
  PROVE  Descends(Append(ms, m), r)
<1>1. Len(ms) \in Nat  BY LenProperties
<1>2. Len(Append(ms, m)) = Len(ms) + 1 /\ \A i \in 1 .. Len(ms) : Append(ms, m)[i] = ms[i]
  BY AppendProperties
<1>3. PICK i \in 1 .. Len(ms) :
        IsUserText(ms[i]) /\ ms[i].of = r /\ \A j \in 1 .. i - 1 : ~IsUserText(ms[j])
  BY DEF Descends
<1>4. i \in 1 .. Len(Append(ms, m)) /\ \A j \in 1 .. i - 1 : j \in 1 .. Len(ms)
  BY <1>1, <1>2, <1>3
<1>. QED  BY <1>2, <1>3, <1>4 DEF Descends

(* The first message of a compaction is the restoration.                   *)
LEMMA CompactionDescends ==
  ASSUME NEW ms \in Seq(Message), NEW threshold \in Int, NEW r, Descends(ms, r)
  PROVE  Descends(Compaction(ms, threshold).messages, r)
<1>1. PICK rest \in Seq(Message) :
        Compaction(ms, threshold).messages = <<Restored(ms)>> \o rest
  BY CompactionShape
<1>2. Restored(ms) \in Message /\ IsUserText(Restored(ms)) /\ Restored(ms).of = r
  BY RestoredType, RestoredDescends
<1>. QED  BY <1>1, <1>2, LedBy

LEMMA OfTurnsConcat ==
  ASSUME NEW a \in Seq(Message), NEW b \in Seq(Message), OfTurns(b)
  PROVE  /\ OfTurns(a) => OfTurns(a \o b)
         /\ TailOfTurns(a) => TailOfTurns(a \o b)
         /\ Len(a) >= 1 => Len(a \o b) >= 1 /\ (a \o b)[1] = a[1]
<1>1. Len(a) \in Nat /\ Len(b) \in Nat  BY LenProperties
<1>2. /\ Len(a \o b) = Len(a) + Len(b)
      /\ \A i \in 1 .. Len(a) + Len(b) : (a \o b)[i] = IF i <= Len(a) THEN a[i] ELSE b[i - Len(a)]
  BY ConcatProperties
<1>3. ASSUME NEW i \in 1 .. Len(a) + Len(b)
      PROVE  \/ i \in 1 .. Len(a) /\ (a \o b)[i] = a[i]
             \/ (a \o b)[i].kind \in TurnKind
  <2>1. CASE i <= Len(a)  BY <1>1, <1>2, <2>1
  <2>2. CASE ~(i <= Len(a))
    <3>1. i - Len(a) \in 1 .. Len(b) /\ (a \o b)[i] = b[i - Len(a)]  BY <1>1, <1>2, <2>2
    <3>. QED  BY <3>1 DEF OfTurns
  <2>. QED  BY <2>1, <2>2
<1>4. OfTurns(a) => OfTurns(a \o b)  BY <1>2, <1>3 DEF OfTurns
<1>5. TailOfTurns(a) => TailOfTurns(a \o b)
  <2>. SUFFICES ASSUME TailOfTurns(a), NEW i \in 2 .. Len(a) + Len(b)
                PROVE  (a \o b)[i].kind \in TurnKind
    BY <1>2 DEF TailOfTurns
  <2>1. i \in 1 .. Len(a) + Len(b) /\ (i \in 1 .. Len(a) => i \in 2 .. Len(a))  BY <1>1
  <2>. QED  BY <1>3, <2>1 DEF TailOfTurns
<1>6. Len(a) >= 1 => Len(a \o b) >= 1 /\ (a \o b)[1] = a[1]  BY <1>1, <1>2
<1>. QED  BY <1>4, <1>5, <1>6

LEMMA TruncateOfTurns ==
  ASSUME NEW ms \in Seq(Message)
  PROVE  /\ OfTurns(ms) => OfTurns(Truncate(ms))
         /\ TailOfTurns(ms) => TailOfTurns(Truncate(ms))
         /\ Len(ms) >= 1 => Len(Truncate(ms)) >= 1 /\ Truncate(ms)[1] = ms[1]
<1>1. Len(ms) \in Nat  BY LenProperties
<1>2. CASE Len(ms) <= MaxMessages
  <2>1. Truncate(ms) = ms  BY <1>2 DEF Truncate
  <2>. QED  BY <2>1
<1>3. CASE Len(ms) > MaxMessages
  <2>1. /\ Len(Truncate(ms)) = MaxMessages
        /\ Truncate(ms)[1] = ms[1]
        /\ \A i \in 2 .. MaxMessages : Truncate(ms)[i] = ms[Len(ms) - MaxMessages + i]
    BY <1>3, TruncateType
  <2>2. \A i \in 2 .. MaxMessages : Len(ms) - MaxMessages + i \in 2 .. Len(ms)  BY <1>1, <1>3
  <2>3. TailOfTurns(ms) => TailOfTurns(Truncate(ms))  BY <2>1, <2>2 DEF TailOfTurns
  <2>4. OfTurns(ms) => ms[1].kind \in TurnKind /\ TailOfTurns(ms)
    BY <1>1, <1>3 DEF OfTurns, TailOfTurns
  <2>5. Truncate(ms)[1].kind \in TurnKind /\ TailOfTurns(Truncate(ms)) => OfTurns(Truncate(ms))
    BY <2>1 DEF OfTurns, TailOfTurns
  <2>. QED  BY <2>1, <2>3, <2>4, <2>5
<1>. QED  BY <1>1, <1>2, <1>3

(* The messages saved are the last ones of the history.                    *)
LEMMA LastOfAppend ==
  ASSUME NEW ms \in Seq(Message), NEW m \in Message, m.kind \in TurnKind
  PROVE  /\ Append(ms, m)[Len(Append(ms, m))] = m
         /\ OfTurns(Recent(Append(ms, m), 1))
         /\ Len(ms) >= 1 /\ ms[Len(ms)].kind \in TurnKind => OfTurns(Recent(Append(ms, m), 2))
<1>1. Len(ms) \in Nat  BY LenProperties
<1>2. /\ Append(ms, m) \in Seq(Message) /\ Len(Append(ms, m)) = Len(ms) + 1
      /\ \A i \in 1 .. Len(ms) : Append(ms, m)[i] = ms[i]
      /\ Append(ms, m)[Len(ms) + 1] = m
  BY AppendProperties
<1>. DEFINE am == Append(ms, m)
<1>. HIDE DEF am
<1>3. ASSUME NEW k \in Nat, k <= Len(am)
      PROVE  /\ Len(Recent(am, k)) = k
             /\ \A i \in 1 .. k : Recent(am, k)[i] = am[Len(am) - k + i]
  <2>1. am \in Seq(Message)  BY <1>2 DEF am
  <2>. QED  BY <1>3, <2>1, RecentType
<1>4. Len(am) = Len(ms) + 1 /\ am[Len(ms) + 1] = m  BY <1>2 DEF am
<1>5. ASSUME NEW k \in Nat, k = 1
      PROVE  OfTurns(Recent(am, k))
  <2>1. k <= Len(am) /\ 1 \in 1 .. k /\ Len(am) - k + 1 = Len(ms) + 1  BY <1>1, <1>4, <1>5
  <2>2. Len(Recent(am, k)) = k /\ Recent(am, k)[1] = m  BY <1>3, <1>4, <2>1
  <2>. QED  BY <1>5, <2>2 DEF OfTurns
<1>6. ASSUME NEW k \in Nat, k = 2, Len(ms) >= 1, ms[Len(ms)].kind \in TurnKind
      PROVE  OfTurns(Recent(am, k))
  <2>1. /\ k <= Len(am) /\ 1 \in 1 .. k /\ 2 \in 1 .. k
        /\ Len(am) - k + 1 = Len(ms) /\ Len(am) - k + 2 = Len(ms) + 1
    BY <1>1, <1>4, <1>6
  <2>2. /\ Len(Recent(am, k)) = k
        /\ Recent(am, k)[1] = am[Len(ms)] /\ Recent(am, k)[2] = am[Len(ms) + 1]
    BY <1>3, <2>1
  <2>3. am[Len(ms)] = ms[Len(ms)]  BY <1>1, <1>2, <1>6 DEF am
  <2>. QED  BY <1>4, <1>6, <2>2, <2>3 DEF OfTurns
<1>7. OfTurns(Recent(am, 1))  BY <1>5
<1>8. Len(ms) >= 1 /\ ms[Len(ms)].kind \in TurnKind => OfTurns(Recent(am, 2))  BY <1>6
<1>. QED  BY <1>4, <1>7, <1>8 DEF am

LEMMA InitDInv ==
  ASSUME Init
  PROVE  DInv
<1>1. <<>> \in Seq(Message) /\ Len(<<>>) = 0  BY EmptySeq
<1>2. OfTurns(<<>>) /\ TailOfTurns(<<>>)  BY <1>1 DEF OfTurns, TailOfTurns
<1>. QED  BY <1>1, <1>2 DEF Init, DInv, SessionOfTurns, TurnAtEnd, HistoryDescends

(* The session unchanged, the first two parts are about it and its turn.   *)
LEMMA SessionKept ==
  ASSUME DInv, UNCHANGED session
  PROVE  SessionOfTurns' /\ Summarised' = Summarised
BY DEF DInv, SessionOfTurns, Summarised, session, disk

LEMMA StartRunDescends ==
  ASSUME IInv, DInv, StartRun
  PROVE  DInv'
<1>1. mem \in Seq(Message) /\ run + 1 \in 0 .. MaxRuns /\ Len(mem) \in Nat
  BY LenProperties DEF IInv, TypeOK, StartRun
<1>. DEFINE t == [Plain("task") EXCEPT !.of = run + 1]
<1>2. t \in Message /\ t.of = run + 1 /\ IsUserText(t)
  BY <1>1, PlainType DEF Message, Plain, Kind, IsUserText
<1>. HIDE DEF t
<1>3. /\ Len(Append(mem, t)) = Len(mem) + 1
      /\ \A i \in 1 .. Len(mem) : Append(mem, t)[i] = mem[i]
      /\ Append(mem, t)[Len(mem) + 1] = t
  BY <1>1, <1>2, AppendProperties
<1>4. ASSUME OfTurns(mem)
      PROVE  Descends(Append(mem, t), run + 1)
  <2>1. \A j \in 1 .. Len(mem) : ~IsUserText(Append(mem, t)[j])
    BY <1>3, <1>4 DEF OfTurns, TurnKind, IsUserText
  <2>2. Len(mem) + 1 \in 1 .. Len(Append(mem, t)) /\ Len(mem) + 1 - 1 = Len(mem)
    BY <1>1, <1>3
  <2>. QED  BY <1>2, <1>3, <2>1, <2>2 DEF Descends
<1>5. messages' = Append(mem, t) /\ run' = run + 1 /\ pc' = "top" /\ UNCHANGED session
  BY DEF StartRun, t
<1>6. Summarised \/ OfTurns(mem)  BY DEF DInv, SessionOfTurns
<1>. QED  BY <1>4, <1>5, <1>6, SessionKept DEF DInv, TurnAtEnd, HistoryDescends

LEMMA OrientDescends ==
  ASSUME IInv, DInv, NEW threshold \in Thresholds, Orient(threshold)
  PROVE  DInv'
<1>1. messages \in Seq(Message) /\ threshold \in Int  BY DEF IInv, TypeOK
<1>2. ASSUME ~Summarised
      PROVE  Descends(messages', run)
  <2>1. Descends(messages, run)  BY <1>2 DEF DInv, HistoryDescends, Orient
  <2>2. messages' = messages \/ messages' = Compaction(messages, threshold).messages
    BY DEF Orient
  <2>. QED  BY <1>1, <2>1, <2>2, CompactionDescends
<1>3. pc' = "call" /\ run' = run /\ UNCHANGED session  BY DEF Orient
<1>. QED  BY <1>2, <1>3, SessionKept DEF DInv, TurnAtEnd, HistoryDescends

(* A message of the turn appended leaves the history's head as it was.     *)
LEMMA AppendStepDescends ==
  ASSUME IInv, DInv, NEW m \in Message, messages' = Append(messages, m),
         pc \notin {"idle", "down"}, UNCHANGED <<run, session>>
  PROVE  SessionOfTurns' /\ HistoryDescends'
<1>1. messages \in Seq(Message)  BY DEF IInv, TypeOK
<1>2. ~Summarised => Descends(messages', run)
  BY <1>1, AppendDescends DEF DInv, HistoryDescends
<1>. QED  BY <1>2, SessionKept DEF HistoryDescends

LEMMA RespondDescends ==
  ASSUME IInv, DInv, NEW r \in Response, Respond(r)
  PROVE  DInv'
<1>. DEFINE m == Plain(IF r.calls THEN "use" ELSE "text")
<1>1. /\ m \in Message /\ m.kind \in TurnKind /\ (RunsTools(r) => m.kind = "use")
  BY PlainType DEF Kind, Plain, TurnKind, RunsTools
<1>. HIDE DEF m
<1>2. messages' = Append(messages, m) /\ pc = "call" /\ UNCHANGED <<run, session>>
  BY DEF Respond, m
<1>3. SessionOfTurns' /\ HistoryDescends'  BY <1>1, <1>2, AppendStepDescends
<1>4. messages \in Seq(Message)  BY DEF IInv, TypeOK
<1>5. messages'[Len(messages')] = m /\ OfTurns(Recent(messages', 1))
  BY <1>1, <1>2, <1>4, LastOfAppend
<1>6. pc' = IF RunsTools(r) THEN "act" ELSE "emit"  BY DEF Respond
<1>7. response' = r  BY DEF Respond
<1>8. TurnMessages' = Recent(messages', IF RunsTools(r) THEN 2 ELSE 1)
  BY <1>7 DEF TurnMessages, RunsTools, Recent
<1>9. TurnAtEnd'  BY <1>1, <1>5, <1>6, <1>8 DEF TurnAtEnd
<1>. QED  BY <1>3, <1>9 DEF DInv

LEMMA ActDescends ==
  ASSUME IInv, DInv, NEW result \in {"result", "long"}, Act(result)
  PROVE  DInv'
<1>. DEFINE m == Plain(result)
<1>1. m \in Message /\ m.kind \in TurnKind  BY PlainType DEF Kind, Plain, TurnKind
<1>. HIDE DEF m
<1>2. messages' = Append(messages, m) /\ pc = "act" /\ pc' = "emit" /\ UNCHANGED <<run, session>>
  BY DEF Act, AfterTools, m
<1>3. SessionOfTurns' /\ HistoryDescends'  BY <1>1, <1>2, AppendStepDescends
<1>4. /\ messages \in Seq(Message) /\ Len(messages) >= 1 /\ RunsTools(response)
      /\ messages[Len(messages)].kind \in TurnKind
  BY <1>2 DEF IInv, TypeOK, TurnShape, DInv, TurnAtEnd, TurnKind
<1>5. OfTurns(Recent(messages', 2))  BY <1>1, <1>2, <1>4, LastOfAppend
<1>6. response' = response  BY DEF Act
<1>7. TurnMessages' = Recent(messages', 2)
  BY <1>4, <1>6 DEF TurnMessages, RunsTools, Recent
<1>8. TurnAtEnd'  BY <1>2, <1>5, <1>7 DEF TurnAtEnd
<1>. QED  BY <1>3, <1>8 DEF DInv

LEMMA WriteOfTurns ==
  ASSUME IInv, DInv, pc = "save", RecordWritten \/ RecordTorn \/ UNCHANGED disk
  PROVE  OfTurns(file') /\ OfTurns(partial')
<1>1. TurnMessages \in Seq(Message) /\ file \in Seq(Message)
  BY TurnMessagesType DEF IInv, TypeOK
<1>2. OfTurns(file) /\ OfTurns(partial) /\ OfTurns(TurnMessages)
  BY DEF DInv, SessionOfTurns, TurnAtEnd
<1>3. OfTurns(<<>>) /\ OfTurns(file \o TurnMessages)
  <2>1. Len(<<>>) = 0  BY EmptySeq
  <2>. QED  BY <1>1, <1>2, <2>1, OfTurnsConcat DEF OfTurns
<1>4. CASE RecordWritten  BY <1>2, <1>3, <1>4 DEF RecordWritten
<1>5. CASE RecordTorn  BY <1>2, <1>3, <1>5 DEF RecordTorn
<1>6. CASE UNCHANGED disk  BY <1>2, <1>6 DEF disk
<1>. QED  BY <1>4, <1>5, <1>6

LEMMA SaveDescends ==
  ASSUME IInv, DInv, Save
  PROVE  DInv'
<1>1. pc = "save" /\ (RecordWritten \/ RecordTorn \/ UNCHANGED disk)  BY DEF Save
<1>2. OfTurns(file') /\ OfTurns(partial')  BY <1>1, WriteOfTurns
<1>3. /\ TurnMessages \in Seq(Message) /\ mem \in Seq(Message) /\ Len(mem) \in Nat
      /\ OfTurns(TurnMessages)
  BY <1>1, TurnMessagesType, LenProperties DEF IInv, TypeOK, DInv, TurnAtEnd
<1>. DEFINE all == mem \o TurnMessages
<1>4. all \in Seq(Message)  BY <1>3, ConcatProperties
<1>5. /\ OfTurns(mem) => OfTurns(all)
      /\ TailOfTurns(mem) => TailOfTurns(all)
      /\ Len(mem) >= 1 => Len(all) >= 1 /\ all[1] = mem[1]
  BY <1>3, OfTurnsConcat
<1>. HIDE DEF all
<1>6. mem' = Truncate(all)  BY DEF Save, all
<1>7. /\ OfTurns(all) => OfTurns(mem')
      /\ TailOfTurns(all) => TailOfTurns(mem')
      /\ Len(all) >= 1 => Len(mem') >= 1 /\ mem'[1] = all[1]
  BY <1>4, <1>6, TruncateOfTurns
<1>8. Summarised => Summarised'  BY <1>5, <1>7 DEF Summarised
<1>9. SessionOfTurns'
  <2>1. TailOfTurns(mem) /\ (Summarised \/ OfTurns(mem))  BY DEF DInv, SessionOfTurns
  <2>2. TailOfTurns(mem') /\ (Summarised' \/ OfTurns(mem'))  BY <1>5, <1>7, <1>8, <2>1
  <2>. QED  BY <1>2, <2>2 DEF SessionOfTurns
<1>10. CASE Return
  <2>1. pc' = "idle"  BY <1>10 DEF Return
  <2>. QED  BY <1>9, <2>1 DEF DInv, TurnAtEnd, HistoryDescends
<1>11. CASE pc' = "top" /\ UNCHANGED loop
  <2>1. HistoryDescends'
    BY <1>1, <1>8, <1>11 DEF DInv, HistoryDescends, loop
  <2>. QED  BY <1>9, <1>11, <2>1 DEF DInv, TurnAtEnd
<1>. QED  BY <1>10, <1>11 DEF Save

LEMMA ExitDescends ==
  ASSUME IInv, DInv, GiveUp \/ StreamFails
  PROVE  DInv'
<1>1. pc' = "idle" /\ UNCHANGED session  BY DEF GiveUp, StreamFails, Return
<1>. QED  BY <1>1, SessionKept DEF DInv, TurnAtEnd, HistoryDescends

LEMMA EmitDescends ==
  ASSUME IInv, DInv, Emit
  PROVE  DInv'
<1>1. pc = "emit" /\ pc' = "save" /\ UNCHANGED <<loop, session>>  BY DEF Emit
<1>2. TurnAtEnd'
  BY <1>1 DEF DInv, TurnAtEnd, TurnMessages, RunsTools, Recent, OfTurns, loop
<1>3. HistoryDescends'
  BY <1>1, SessionKept DEF DInv, HistoryDescends, loop
<1>. QED  BY <1>1, <1>2, <1>3, SessionKept DEF DInv

(* A summary goes first, and /compact drops the one before it.             *)
LEMMA CompactDescends ==
  ASSUME IInv, DInv, Compact
  PROVE  DInv'
<1>1. mem \in Seq(Message) /\ Len(mem) \in Nat  BY LenProperties DEF IInv, TypeOK
<1>2. /\ CompactKeep \in Nat /\ CompactKeep + 1 < Len(mem)
      /\ mem' = <<Plain("summary")>> \o Recent(mem, CompactKeep)
      /\ UNCHANGED <<pc, loop, disk>>
  BY DEF Compact, Compacted
<1>. DEFINE kept == Recent(mem, CompactKeep)
<1>3. /\ kept \in Seq(Message) /\ Len(kept) = CompactKeep
      /\ \A i \in 1 .. CompactKeep : kept[i] = mem[Len(mem) - CompactKeep + i]
  BY <1>1, <1>2, RecentType
<1>. HIDE DEF kept
<1>4. \A i \in 1 .. CompactKeep : Len(mem) - CompactKeep + i \in 2 .. Len(mem)  BY <1>1, <1>2
<1>5. OfTurns(kept)  BY <1>3, <1>4 DEF DInv, SessionOfTurns, TailOfTurns, OfTurns
<1>. DEFINE head == <<Plain("summary")>>
<1>6. head \in Seq(Message) /\ Len(head) = 1 /\ head[1] = Plain("summary")
  BY PlainType, SingleType DEF Kind
<1>8. mem' = head \o kept  BY <1>2 DEF kept
<1>. HIDE DEF head
<1>7. TailOfTurns(head)  BY <1>6 DEF TailOfTurns
<1>9. TailOfTurns(mem') /\ Len(mem') >= 1 /\ mem'[1] = Plain("summary")
  <2>1. /\ TailOfTurns(head) => TailOfTurns(head \o kept)
        /\ Len(head) >= 1 => Len(head \o kept) >= 1 /\ (head \o kept)[1] = head[1]
    BY <1>3, <1>5, <1>6, OfTurnsConcat
  <2>. QED  BY <1>6, <1>7, <1>8, <2>1
<1>10. Summarised'  BY <1>9 DEF Summarised, Plain
<1>11. SessionOfTurns'
  BY <1>2, <1>9, <1>10 DEF DInv, SessionOfTurns, disk
<1>12. TurnAtEnd'
  BY <1>2 DEF DInv, TurnAtEnd, TurnMessages, RunsTools, Recent, OfTurns, loop
<1>. QED  BY <1>10, <1>11, <1>12 DEF DInv, HistoryDescends

LEMMA CrashDescends ==
  ASSUME IInv, DInv, Crash
  PROVE  DInv'
<1>1. OfTurns(file') /\ OfTurns(partial')
  <2>1. CASE UNCHANGED disk  BY <2>1 DEF DInv, SessionOfTurns, disk
  <2>2. CASE pc = "save" /\ (RecordWritten \/ RecordTorn)  BY <2>2, WriteOfTurns
  <2>. QED  BY <2>1, <2>2 DEF Crash
<1>2. mem' = <<>> /\ pc' = "down" /\ Len(<<>>) = 0  BY EmptySeq DEF Crash
<1>3. SessionOfTurns'  BY <1>1, <1>2 DEF SessionOfTurns, OfTurns, TailOfTurns
<1>. QED  BY <1>2, <1>3 DEF DInv, TurnAtEnd, HistoryDescends

LEMMA RestartDescends ==
  ASSUME IInv, DInv, Restart
  PROVE  DInv'
<1>1. /\ file \in Seq(Message) /\ partial \in Seq(Message)
      /\ OfTurns(file) /\ OfTurns(partial)
  BY DEF IInv, TypeOK, DInv, SessionOfTurns
<1>2. file \o partial \in Seq(Message) /\ OfTurns(file \o partial)
  BY <1>1, OfTurnsConcat, ConcatProperties
<1>3. OfTurns(mem')  BY <1>2, TruncateOfTurns DEF Restart, Loaded
<1>4. TailOfTurns(mem')  BY <1>3 DEF OfTurns, TailOfTurns
<1>5. pc' = "idle" /\ UNCHANGED disk  BY DEF Restart
<1>6. SessionOfTurns'  BY <1>1, <1>3, <1>4, <1>5 DEF SessionOfTurns, disk
<1>. QED  BY <1>5, <1>6 DEF DInv, TurnAtEnd, HistoryDescends

LEMMA NextDInv ==
  ASSUME IInv, DInv, [Next]_vars
  PROVE  DInv'
<1>1. CASE StartRun  BY <1>1, StartRunDescends
<1>2. ASSUME NEW threshold \in Thresholds, Orient(threshold)
      PROVE  DInv'
  BY <1>2, OrientDescends
<1>3. CASE GiveUp \/ StreamFails  BY <1>3, ExitDescends
<1>4. ASSUME NEW r \in Response, Respond(r)
      PROVE  DInv'
  BY <1>4, RespondDescends
<1>5. ASSUME NEW result \in {"result", "long"}, Act(result)
      PROVE  DInv'
  BY <1>5, ActDescends
<1>6. CASE Emit  BY <1>6, EmitDescends
<1>7. CASE Save  BY <1>7, SaveDescends
<1>8. CASE Compact  BY <1>8, CompactDescends
<1>9. CASE Crash  BY <1>9, CrashDescends
<1>10. CASE Restart  BY <1>10, RestartDescends
<1>11. CASE UNCHANGED vars
  <2>1. UNCHANGED <<pc, loop, session>>  BY <1>11 DEF vars
  <2>2. TurnAtEnd'
    BY <2>1 DEF DInv, TurnAtEnd, TurnMessages, RunsTools, Recent, OfTurns, loop
  <2>3. HistoryDescends'  BY <2>1, SessionKept DEF DInv, HistoryDescends, loop
  <2>. QED  BY <2>1, <2>2, <2>3, SessionKept DEF DInv
<1>. QED
  BY <1>1, <1>2, <1>3, <1>4, <1>5, <1>6, <1>7, <1>8, <1>9, <1>10, <1>11 DEF Next, LoopStep

(* Every request of a run carries the run's task or a restoration message  *)
(* that descends from it, for any number of compactions, truncations,      *)
(* crashes and restarts; only behind a /compact summary it may not.        *)
THEOREM TaskDescendsHolds == Spec => []TaskDescends
<1>1. Init => DInv  BY InitDInv
<1>2. IInv /\ DInv /\ [Next]_vars => DInv'  BY NextDInv
<1>3. ASSUME IInv, DInv
      PROVE  TaskDescends
  <2>. SUFFICES ASSUME pc = "call", mem = <<>> \/ mem[1].kind # "summary"
                PROVE  \E i \in DOMAIN messages : messages[i].of = run
    BY DEF TaskDescends
  <2>1. ~Summarised
    <3>1. Len(<<>>) = 0  BY EmptySeq
    <3>. QED  BY <3>1 DEF Summarised
  <2>2. Descends(messages, run)  BY <1>3, <2>1 DEF DInv, HistoryDescends
  <2>3. DOMAIN messages = 1 .. Len(messages)  BY <1>3, LenProperties DEF IInv, TypeOK
  <2>. QED  BY <2>2, <2>3 DEF Descends
<1>4. IInv /\ DInv => TaskDescends  BY <1>3
<1>. QED  BY <1>1, <1>2, <1>4, Inductive, PTL DEF Spec

-----------------------------------------------------------------------------
(* Two histories end with the same KeepRecent messages.                    *)
SameEnd(a, b) ==
  /\ Len(a) >= KeepRecent /\ Len(b) >= KeepRecent
  /\ \A i \in 1 .. KeepRecent : a[Len(a) - KeepRecent + i] = b[Len(b) - KeepRecent + i]

LEMMA SameEndRecent ==
  ASSUME NEW a \in Seq(Message), NEW b \in Seq(Message), SameEnd(a, b)
  PROVE  Recent(a, KeepRecent) = Recent(b, KeepRecent)
<1>1. /\ Recent(a, KeepRecent) \in Seq(Message) /\ Len(Recent(a, KeepRecent)) = KeepRecent
      /\ \A i \in 1 .. KeepRecent : Recent(a, KeepRecent)[i] = a[Len(a) - KeepRecent + i]
  BY RecentType DEF SameEnd
<1>2. /\ Recent(b, KeepRecent) \in Seq(Message) /\ Len(Recent(b, KeepRecent)) = KeepRecent
      /\ \A i \in 1 .. KeepRecent : Recent(b, KeepRecent)[i] = b[Len(b) - KeepRecent + i]
  BY RecentType DEF SameEnd
<1>3. \A i \in 1 .. KeepRecent : Recent(a, KeepRecent)[i] = Recent(b, KeepRecent)[i]
  BY <1>1, <1>2 DEF SameEnd
<1>. QED  BY <1>1, <1>2, <1>3, SeqEqual

LEMMA ConcatSameEnd ==
  ASSUME NEW a \in Seq(Message), NEW b \in Seq(Message), Len(b) >= KeepRecent
  PROVE  SameEnd(a \o b, b)
<1>1. Len(a) \in Nat /\ Len(b) \in Nat  BY LenProperties
<1>. DEFINE ab == a \o b
<1>2. /\ Len(ab) = Len(a) + Len(b)
      /\ \A i \in 1 .. Len(a) + Len(b) : ab[i] = IF i <= Len(a) THEN a[i] ELSE b[i - Len(a)]
  BY ConcatProperties
<1>. HIDE DEF ab
<1>3. ASSUME NEW i \in 1 .. KeepRecent
      PROVE  ab[Len(ab) - KeepRecent + i] = b[Len(b) - KeepRecent + i]
  <2>. DEFINE k == Len(ab) - KeepRecent + i
  <2>1. k \in 1 .. Len(a) + Len(b) /\ ~(k <= Len(a))  BY <1>1, <1>2
  <2>2. k - Len(a) = Len(b) - KeepRecent + i  BY <1>1, <1>2
  <2>. HIDE DEF k
  <2>3. ab[k] = b[k - Len(a)]  BY <1>2, <2>1
  <2>. QED  BY <2>2, <2>3 DEF k
<1>4. Len(ab) >= KeepRecent  BY <1>1, <1>2
<1>. QED  BY <1>3, <1>4 DEF SameEnd, ab

(* microCompact stops where the recent messages begin.                     *)
LEMMA ElidedSameEnd ==
  ASSUME NEW ms \in Seq(Message)
  PROVE  /\ Len(ms) <= KeepRecent => Elided(ms) = ms
         /\ Len(ms) > KeepRecent => SameEnd(Elided(ms), ms)
<1>1. Len(ms) \in Nat /\ DOMAIN ms = 1 .. Len(ms)  BY LenProperties
<1>2. Elided(ms) \in Seq(Message) /\ Len(Elided(ms)) = Len(ms)  BY ElidedType
<1>3. ASSUME NEW i \in 1 .. Len(ms), i > Len(ms) - KeepRecent
      PROVE  Elided(ms)[i] = ms[i]
  BY <1>1, <1>3 DEF Elided
<1>4. ASSUME Len(ms) <= KeepRecent
      PROVE  Elided(ms) = ms
  <2>1. \A i \in 1 .. Len(ms) : i > Len(ms) - KeepRecent  BY <1>1, <1>4
  <2>2. \A i \in 1 .. Len(Elided(ms)) : Elided(ms)[i] = ms[i]  BY <1>2, <1>3, <2>1
  <2>. QED  BY <1>2, <2>2, SeqEqual
<1>5. ASSUME Len(ms) > KeepRecent
      PROVE  SameEnd(Elided(ms), ms)
  <2>1. ASSUME NEW i \in 1 .. KeepRecent
        PROVE  Elided(ms)[Len(ms) - KeepRecent + i] = ms[Len(ms) - KeepRecent + i]
    <3>1. /\ Len(ms) - KeepRecent + i \in 1 .. Len(ms)
          /\ Len(ms) - KeepRecent + i > Len(ms) - KeepRecent
      BY <1>1, <1>5
    <3>. QED  BY <1>3, <3>1
  <2>. QED  BY <1>1, <1>2, <1>5, <2>1 DEF SameEnd
<1>. QED  BY <1>4, <1>5

(* Dropping the first message after a snip drops the marker only.          *)
LEMMA SnippedSameEnd ==
  ASSUME NEW ms \in Seq(Message), Len(ms) > KeepRecent
  PROVE  SameEnd(Snipped(ms), ms) /\ SameEnd(Tail(Snipped(ms)), ms)
<1>. DEFINE marker == <<Plain("marker")>>
            kept   == Recent(ms, KeepRecent)
            all    == marker \o kept
<1>1. marker \in Seq(Message) /\ Len(marker) = 1  BY PlainType, SingleType DEF Kind
<1>2. Len(ms) \in Nat  BY LenProperties
<1>3. /\ kept \in Seq(Message) /\ Len(kept) = KeepRecent
      /\ \A i \in 1 .. KeepRecent : kept[i] = ms[Len(ms) - KeepRecent + i]
  BY RecentType, <1>2
<1>4. Snipped(ms) = all  BY <1>2 DEF Snipped
<1>. HIDE DEF marker, kept
<1>5. /\ all \in Seq(Message) /\ Len(all) = 1 + KeepRecent
      /\ \A i \in 1 .. 1 + KeepRecent : all[i] = IF i <= 1 THEN marker[i] ELSE kept[i - 1]
  <2>1. /\ all \in Seq(Message) /\ Len(all) = Len(marker) + Len(kept)
        /\ \A i \in 1 .. Len(marker) + Len(kept) :
             all[i] = IF i <= Len(marker) THEN marker[i] ELSE kept[i - Len(marker)]
    BY <1>1, <1>3, ConcatProperties
  <2>. HIDE DEF all
  <2>. QED  BY <1>1, <1>3, <2>1
<1>. HIDE DEF all
<1>6. all # <<>>
  <2>1. Len(<<>>) = 0  BY EmptySeq
  <2>. QED  BY <1>5, <2>1
<1>7. Len(Tail(all)) = KeepRecent /\ \A i \in 1 .. KeepRecent : Tail(all)[i] = all[i + 1]
  BY <1>5, <1>6, HeadTailProperties
<1>8. ASSUME NEW i \in 1 .. KeepRecent
      PROVE  all[i + 1] = ms[Len(ms) - KeepRecent + i]
  <2>1. i + 1 \in 1 .. 1 + KeepRecent /\ ~(i + 1 <= 1) /\ i + 1 - 1 = i  OBVIOUS
  <2>2. all[i + 1] = kept[i]  BY <1>5, <2>1
  <2>. QED  BY <1>3, <2>2
<1>9. SameEnd(all, ms)
  <2>1. \A i \in 1 .. KeepRecent : Len(all) - KeepRecent + i = i + 1  BY <1>5
  <2>2. Len(all) >= KeepRecent /\ Len(ms) >= KeepRecent  BY <1>2, <1>5
  <2>. QED  BY <1>8, <2>1, <2>2 DEF SameEnd
<1>10. SameEnd(Tail(all), ms)
  <2>1. \A i \in 1 .. KeepRecent : Len(Tail(all)) - KeepRecent + i = i  BY <1>7
  <2>2. Len(Tail(all)) >= KeepRecent /\ Len(ms) >= KeepRecent  BY <1>2, <1>7
  <2>. QED  BY <1>7, <1>8, <2>1, <2>2 DEF SameEnd
<1>. QED  BY <1>4, <1>9, <1>10

(* A compaction that freed anything leaves the recent messages.            *)
LEMMA CompactionSameEnd ==
  ASSUME NEW ms \in Seq(Message), NEW threshold \in Int, Compaction(ms, threshold).applied
  PROVE  SameEnd(Compaction(ms, threshold).messages, ms)
<1>. DEFINE elided  == Elided(ms)
            freed   == Total(Weights(ms)) - Total(Weights(elided))
            enough  == freed > 0 /\ Total(Weights(elided)) < threshold
            snipped == IF enough THEN elided ELSE Snipped(elided)
            more    == Total(Weights(elided)) - Total(Weights(snipped))
            rest    == IF more > 0 THEN Tail(snipped) ELSE snipped
<1>1. freed > 0 \/ more > 0  BY DEF Compaction
<1>2. elided \in Seq(Message) /\ Len(elided) = Len(ms) /\ Len(ms) \in Nat
  BY ElidedType, LenProperties
<1>3. Total(Weights(ms)) \in Int /\ Total(Weights(elided)) \in Int
  BY <1>2, WeightsType, TotalType
<1>4. Len(ms) > KeepRecent
  <2>1. SUFFICES ASSUME Len(ms) <= KeepRecent
                 PROVE  FALSE
    BY <1>2
  <2>2. elided = ms  BY <2>1, ElidedSameEnd
  <2>3. ~(freed > 0)
    <3>1. freed = Total(Weights(ms)) - Total(Weights(ms))  BY <2>2
    <3>. QED  BY <1>3, <3>1
  <2>4. snipped = ms  BY <2>1, <2>2, <2>3 DEF Snipped
  <2>5. ~(more > 0)
    <3>1. more = Total(Weights(ms)) - Total(Weights(ms))  BY <2>2, <2>4
    <3>. QED  BY <1>3, <3>1
  <2>. QED  BY <1>1, <2>3, <2>5
<1>5. SameEnd(elided, ms)  BY <1>4, ElidedSameEnd
<1>6. SameEnd(rest, ms) /\ rest \in Seq(Message)
  <2>1. CASE enough
    <3>1. snipped = elided  BY <2>1
    <3>2. ~(more > 0)
      <4>1. more = Total(Weights(elided)) - Total(Weights(elided))  BY <3>1
      <4>. QED  BY <1>3, <4>1
    <3>3. rest = elided  BY <3>1, <3>2
    <3>. QED  BY <1>2, <1>5, <3>3
  <2>2. CASE ~enough
    <3>1. SameEnd(Snipped(elided), elided) /\ SameEnd(Tail(Snipped(elided)), elided)
      BY <1>2, <1>4, SnippedSameEnd
    <3>2. Snipped(elided) \in Seq(Message) /\ Snipped(elided) # <<>>
      <4>1. Snipped(elided) \in Seq(Message)  BY <1>2, SnippedType
      <4>2. Len(Snipped(elided)) >= KeepRecent  BY <3>1 DEF SameEnd
      <4>3. Len(<<>>) = 0  BY EmptySeq
      <4>. QED  BY <4>1, <4>2, <4>3
    <3>3. Tail(Snipped(elided)) \in Seq(Message)  BY <3>2, HeadTailProperties
    <3>4. rest = Tail(Snipped(elided)) \/ rest = Snipped(elided)  BY <2>2
    <3>5. SameEnd(rest, elided) /\ rest \in Seq(Message)  BY <3>1, <3>2, <3>3, <3>4
    <3>. HIDE DEF rest, elided
    <3>. QED  BY <1>5, <3>5 DEF SameEnd
  <2>. QED  BY <2>1, <2>2
<1>7. Compaction(ms, threshold).messages = <<Restored(ms)>> \o rest  BY DEF Compaction
<1>. HIDE DEF rest
<1>8. <<Restored(ms)>> \in Seq(Message)  BY RestoredType, SingleType
<1>9. SameEnd(<<Restored(ms)>> \o rest, rest)  BY <1>6, <1>8, ConcatSameEnd DEF SameEnd
<1>. QED  BY <1>6, <1>7, <1>9 DEF SameEnd

(* A compaction never modifies the messages within the keepRecent tail,    *)
(* whatever it elides, snips or gives up on.                               *)
THEOREM RecentUntouchedHolds == Spec => RecentUntouched
<1>1. ASSUME TypeOK, [Next]_vars, pc = "top", pc' = "call"
      PROVE  messages' = messages \/ Recent(messages', KeepRecent) = Recent(messages, KeepRecent)
  <2>1. PICK threshold \in Thresholds : Orient(threshold)
    BY <1>1 DEF Next, LoopStep, StartRun, GiveUp, StreamFails, Return, Respond, Act, Emit, Save,
                Compact, Crash, Restart, vars
  <2>2. messages \in Seq(Message) /\ threshold \in Int  BY <1>1 DEF TypeOK
  <2>3. \/ messages' = messages
        \/ /\ messages' = Compaction(messages, threshold).messages
           /\ Compaction(messages, threshold).applied
    BY <2>1 DEF Orient
  <2>4. ASSUME messages' = Compaction(messages, threshold).messages,
               Compaction(messages, threshold).applied
        PROVE  Recent(messages', KeepRecent) = Recent(messages, KeepRecent)
    <3>1. SameEnd(messages', messages) /\ messages' \in Seq(Message)
      BY <2>2, <2>4, CompactionSameEnd, CompactionType
    <3>. QED  BY <2>2, <3>1, SameEndRecent
  <2>. QED  BY <2>3, <2>4
<1>2. TypeOK /\ [Next]_vars =>
        [pc = "top" /\ pc' = "call" =>
           \/ messages' = messages
           \/ Recent(messages', KeepRecent) = Recent(messages, KeepRecent)]_vars
  BY <1>1
<1>. QED  BY <1>2, TypeCorrect, PTL DEF Spec, RecentUntouched

-----------------------------------------------------------------------------
(* A run is at most MaxTurns turns long, each a bounded number of steps.   *)
THEOREM RunAdvancesHolds == Spec => RunAdvances
<1>1. ASSUME TypeOK, [Next]_vars
      PROVE  [pc \notin {"idle", "down"} /\ pc' \notin {"idle", "down"} =>
                Remaining' >= 0 /\ Remaining' < Remaining]_<<pc, loop>>
  <2>. SUFFICES ASSUME Next, ~UNCHANGED <<pc, loop>>, pc \notin {"idle", "down"}, pc' \notin {"idle", "down"}
                PROVE  Remaining' >= 0 /\ Remaining' < Remaining
    BY <1>1 DEF vars
  <2>1. turn \in 0 .. MaxTurns  BY <1>1 DEF TypeOK
  <2>2. ASSUME NEW threshold \in Thresholds, Orient(threshold)
        PROVE  turn < MaxTurns /\ turn' = turn + 1 /\ pc' = "call"
    BY <2>2 DEF Orient, NextTurn
  <2>3. ASSUME NEW r \in Response, Respond(r)
        PROVE  pc = "call" /\ pc' \in {"act", "emit"} /\ turn' = turn
    BY <2>3 DEF Respond
  <2>4. ASSUME NEW result \in {"result", "long"}, Act(result)
        PROVE  pc = "act" /\ pc' = "emit" /\ turn' = turn
    BY <2>4 DEF Act, AfterTools
  <2>5. Emit => pc = "emit" /\ pc' = "save" /\ turn' = turn
    BY DEF Emit, loop
  <2>6. Save => pc = "save" /\ pc' = "top" /\ turn' = turn
    <3>1. ~Return  BY DEF Return
    <3>. QED  BY <3>1 DEF Save, loop
  <2>7. ~StartRun /\ ~GiveUp /\ ~StreamFails /\ ~Compact /\ ~Crash /\ ~Restart
    BY DEF StartRun, GiveUp, StreamFails, Return, Compact, Crash, Restart
  <2>8. \/ turn < MaxTurns /\ turn' = turn + 1 /\ pc' = "call"
        \/ pc = "call" /\ pc' \in {"act", "emit"} /\ turn' = turn
        \/ pc = "act" /\ pc' = "emit" /\ turn' = turn
        \/ pc = "emit" /\ pc' = "save" /\ turn' = turn
        \/ pc = "save" /\ pc' = "top" /\ turn' = turn
    BY <2>2, <2>3, <2>4, <2>5, <2>6, <2>7 DEF Next, LoopStep
  <2>9. MaxTurns \in Nat  OBVIOUS
  <2>. HIDE DEF AgentLoopAssumption
  <2>. QED  BY <2>1, <2>8, <2>9 DEF Remaining
<1>2. TypeOK /\ [Next]_vars =>
        [pc \notin {"idle", "down"} /\ pc' \notin {"idle", "down"} =>
           Remaining' >= 0 /\ Remaining' < Remaining]_<<pc, loop>>
  BY <1>1
<1>. QED  BY <1>2, TypeCorrect, PTL DEF Spec, RunAdvances
=============================================================================
