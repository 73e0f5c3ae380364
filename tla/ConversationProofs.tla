-------------------------- MODULE ConversationProofs --------------------------
(***************************************************************************)
(* Proof that the transcript of a conversation survives failing appends,    *)
(* panics, cancels, compaction and reloading (ConversationSound), for every *)
(* number of turns and tools and every number of messages preserved.        *)
(*                                                                         *)
(* The argument: while a batch of tools runs, both the transcript and the   *)
(* file end in the tool use or in the result before the one that is due;    *)
(* compaction cuts where no result follows.                                 *)
(***************************************************************************)
EXTENDS MCRuntimeServices, SequenceTheorems, WellFoundedInduction, TLAPS

\* The stages of a batch of tools.
Batching == {"hook", "permission", "execute", "post_hook", "push"}

\* The message behind which the next result of the batch belongs.
Due == IF tool = 1 THEN Assistant(batch) ELSE ToolResult(tool - 1, batch)
EndsInDue(ms) == ms # <<>> /\ ms[Len(ms)] = Due

InBatch ==
  stage \in Batching => tool \in 1 .. batch /\ EndsInDue(messages) /\ EndsInDue(log)

\* A message that waits for a result.
Pending(m) == HasToolUse(m) \/ (IsResult(m) /\ m.n < m.of)

\* Only the batch that runs waits for results.
WaitsInBatchOnly(ms) ==
  \A i \in DOMAIN ms : Unanswered(ms, i) => stage \in Batching /\ i = Len(ms)

AnsweredSoFar == ~torn => WaitsInBatchOnly(messages) /\ WaitsInBatchOnly(log)

\* Once an answer was pushed while a cancel was in force, the cancel is still in
\* force and no LLM call is under way.
NoCallAfterCancel ==
  /\ late \in {0, 1}
  /\ late = 1 => Cancelled /\ stage # "llm"

\* The iteration limit is passed only by the turn it ends.
WithinLimit == stage # "idle" => iteration <= MaxIterations

ConvIInv ==
  /\ TypeOK /\ WithinLimit /\ InBatch /\ NoOrphanResult /\ AnsweredSoFar /\ MemoryIsTailOfLog
  /\ NoCallAfterCancel

-----------------------------------------------------------------------------
(* Messages at the end of a transcript *)

LEMMA MessageTypes ==
  /\ User \in Messages /\ Summary \in Messages
  /\ \A b \in 0 .. MaxBatch : Assistant(b) \in Messages
  /\ \A n, b \in 0 .. MaxBatch : ToolResult(n, b) \in Messages
<1>1. MaxBatch \in Nat
  BY RuntimeAssumption
<1> QED
  BY <1>1 DEF User, Summary, Assistant, ToolResult, Message, Messages

\* A pushed message keeps the pairing if a result has what it answers before it.
LEMMA PairedAppend ==
  ASSUME NEW ms \in Seq(Messages), NEW m \in Messages, Paired(ms),
         IsResult(m) => ms # <<>> /\ Answers(ms[Len(ms)], m)
  PROVE  Paired(Append(ms, m))
<1>1. /\ DOMAIN Append(ms, m) = 1 .. Len(ms) + 1 /\ Len(ms) \in Nat
      /\ \A i \in 1 .. Len(ms) : Append(ms, m)[i] = ms[i]
      /\ Append(ms, m)[Len(ms) + 1] = m
      /\ DOMAIN ms = 1 .. Len(ms)
  OBVIOUS
<1>2. ASSUME NEW i \in 1 .. Len(ms) + 1, IsResult(Append(ms, m)[i])
      PROVE  i > 1 /\ Answers(Append(ms, m)[i - 1], Append(ms, m)[i])
  <2>1. CASE i = Len(ms) + 1
    <3>1. ms # <<>> /\ Answers(ms[Len(ms)], m)
      BY <1>1, <1>2, <2>1
    <3>2. Len(ms) >= 1
      BY <3>1
    <3> QED
      BY <1>1, <2>1, <3>1, <3>2
  <2>2. CASE i \in 1 .. Len(ms)
    <3>1. IsResult(ms[i])
      BY <1>1, <1>2, <2>2
    <3>2. i > 1 /\ Answers(ms[i - 1], ms[i])
      BY <1>1, <2>2, <3>1 DEF Paired
    <3>3. i - 1 \in 1 .. Len(ms)
      BY <2>2, <3>2
    <3> QED
      BY <1>1, <2>2, <3>2, <3>3
  <2> QED
    BY <1>1, <1>2, <2>1, <2>2
<1> QED
  BY <1>1, <1>2 DEF Paired

LEMMA UnansweredMeans ==
  ASSUME NEW ms, NEW i
  PROVE  Unanswered(ms, i) <=> Pending(ms[i]) /\ (i < Len(ms) => ~IsResult(ms[i + 1]))
BY DEF Unanswered, Pending

\* Behind a pushed message only that message waits for an answer.
LEMMA WaitsAppend ==
  ASSUME NEW ms \in Seq(Messages), NEW m \in Messages,
         \A i \in DOMAIN ms : Unanswered(ms, i) => IsResult(m) /\ i = Len(ms)
  PROVE  \A i \in DOMAIN Append(ms, m) :
           Unanswered(Append(ms, m), i) => i = Len(ms) + 1 /\ Pending(m)
<1> DEFINE as == Append(ms, m)
<1>1. /\ DOMAIN as = 1 .. Len(ms) + 1 /\ Len(ms) \in Nat /\ Len(as) = Len(ms) + 1
      /\ \A i \in 1 .. Len(ms) : as[i] = ms[i]
      /\ as[Len(ms) + 1] = m
      /\ DOMAIN ms = 1 .. Len(ms)
  OBVIOUS
<1> HIDE DEF as
<1>2. ASSUME NEW i \in 1 .. Len(ms) + 1, Unanswered(as, i)
      PROVE  i = Len(ms) + 1 /\ Pending(m)
  <2>1. Pending(as[i]) /\ (i < Len(as) => ~IsResult(as[i + 1]))
    BY <1>2, UnansweredMeans
  <2>2. CASE i = Len(ms) + 1
    BY <1>1, <2>1, <2>2
  <2>3. CASE i \in 1 .. Len(ms)
    <3>1. i < Len(as) /\ i + 1 \in 1 .. Len(as)
      BY <1>1, <2>3
    <3>2. ~IsResult(as[i + 1])
      BY <2>1, <3>1
    <3>3. i < Len(ms) => as[i + 1] = ms[i + 1]
      <4>1. i < Len(ms) => i + 1 \in 1 .. Len(ms)
        BY <1>1, <2>3
      <4> QED
        BY <1>1, <4>1
    <3>4. as[i] = ms[i] /\ i \in DOMAIN ms
      BY <1>1, <2>3
    <3>5. Unanswered(ms, i)
      BY <2>1, <3>2, <3>3, <3>4, UnansweredMeans
    <3>6. IsResult(m) /\ i = Len(ms)
      BY <3>4, <3>5
    <3>7. as[i + 1] = m
      BY <1>1, <3>6
    <3> QED
      BY <3>2, <3>6, <3>7
  <2> QED
    BY <1>2, <2>2, <2>3
<1> QED
  BY <1>1, <1>2 DEF as

\* The end of the file stays the end of it when both grow.
LEMMA TailAppend ==
  ASSUME NEW ms \in Seq(Messages), NEW lg \in Seq(Messages), NEW m \in Messages, ms # <<>>,
         NEW n \in 0 .. Len(lg), Tail(ms) = SubSeq(lg, n + 1, Len(lg))
  PROVE  Tail(Append(ms, m)) = SubSeq(Append(lg, m), n + 1, Len(Append(lg, m)))
<1>1. Tail(Append(ms, m)) = Append(Tail(ms), m)
  BY HeadTailAppend
<1> DEFINE as == Append(lg, m)
<1>2. SubSeq(as, n + 1, Len(as)) = Append(SubSeq(as, n + 1, Len(lg)), m)
  <2>1. as \in Seq(Messages) /\ Len(as) = Len(lg) + 1 /\ as[Len(lg) + 1] = m /\ Len(lg) \in Nat
    OBVIOUS
  <2> HIDE DEF as
  <2>2. n + 1 \in 1 .. Len(as) /\ Len(as) \in n + 1 .. Len(as) /\ Len(as) - 1 = Len(lg)
    BY <2>1
  <2>3. SubSeq(as, n + 1, Len(as)) = SubSeq(as, n + 1, Len(as) - 1) \o <<as[Len(as)]>>
    BY <2>1, <2>2, SubSeqRecursiveSecond, Zenon
  <2>4. SubSeq(as, n + 1, Len(lg)) \in Seq(Messages)
    <3>1. \A i \in n + 1 .. Len(lg) : i \in 1 .. Len(as)
      BY <2>1
    <3>2. \A i \in n + 1 .. Len(lg) : as[i] \in Messages
      BY <2>1, <3>1, ElementOfSeq
    <3>3. n + 1 \in Int /\ Len(lg) \in Int
      BY <2>1
    <3> QED
      BY <3>2, <3>3, SubSeqProperties
  <2>5. Append(SubSeq(as, n + 1, Len(lg)), m) = SubSeq(as, n + 1, Len(lg)) \o <<m>>
    BY <2>4, AppendIsConcat
  <2>6. Len(as) - 1 = Len(lg) /\ as[Len(as)] = m
    BY <2>1, <2>2
  <2> QED
    BY <2>3, <2>5, <2>6
<1>3. SubSeq(Append(lg, m), n + 1, Len(lg)) = SubSeq(lg, n + 1, Len(lg))
  OBVIOUS
<1> QED
  BY <1>1, <1>2, <1>3

-----------------------------------------------------------------------------
(* Where compaction cuts *)

LEMMA LeastNatural ==
  ASSUME NEW T \in SUBSET Nat, T # {}
  PROVE  \E n \in T : \A m \in T : n <= m
<1> DEFINE R == OpToRel(<, Nat)
<1>1. IsWellFoundedOn(R, Nat)
  BY NatLessThanWellFounded, Zenon
<1>2. \A m, n \in Nat : m < n => <<m, n>> \in R
  BY DEF OpToRel
<1> HIDE DEF R
<1>3. PICK n \in T : \A m \in T : ~ (<<m, n>> \in R)
  BY <1>1, WFMin
<1>4. \A m \in T : ~(m < n)
  BY <1>2, <1>3
<1>5. n \in Nat /\ \A m \in T : m \in Nat
  OBVIOUS
<1>6. \A m \in T : n <= m
  BY <1>4, <1>5
<1> QED
  BY <1>6

\* A nonempty set of integers of an interval has a greatest one.
LEMMA GreatestOf ==
  ASSUME NEW a \in Int, NEW b \in Int, NEW T \in SUBSET (a .. b), T # {}
  PROVE  \E k \in T : \A j \in T : j <= k
<1> DEFINE D == {b - k : k \in T}
<1>1. D \in SUBSET Nat /\ D # {}
  OBVIOUS
<1>2. PICK d \in D : \A e \in D : d <= e
  BY <1>1, LeastNatural
<1>3. PICK k \in T : d = b - k
  OBVIOUS
<1>4. \A j \in T : b - k <= b - j
  BY <1>2, <1>3
<1>5. \A j \in T : j <= k
  BY <1>4
<1> QED
  BY <1>5

\* The boundary lies among the messages that may go, and what it removes something
\* before is no result: its tool use is kept with it.
LEMMA KeepFrom ==
  ASSUME NEW ms \in Seq(Messages), should_compact(ms)
  PROVE  /\ removed_message_count(ms) > 0 =>
              /\ keep_from(ms) \in compacted_summary_prefix_len(ms) + 1 .. Len(ms) - Preserve
              /\ ~IsResult(ms[keep_from(ms) + 1])
<1> DEFINE prefix == compacted_summary_prefix_len(ms)
           raw == Len(ms) - Preserve
           Safe(k) == k <= prefix \/ ~IsResult(ms[k + 1])
           AtPair(k) == HasToolUse(ms[k])
           Good(k) == /\ Safe(k) \/ AtPair(k)
                      /\ \A j \in prefix .. raw : j > k => ~Safe(j) /\ ~AtPair(j)
           last == CHOOSE k \in prefix .. raw : Good(k)
           T == {k \in prefix .. raw : Safe(k) \/ AtPair(k)}
<1>1. prefix \in {0, 1} /\ raw \in Int /\ prefix < raw
  BY RuntimeAssumption DEF compacted_summary_prefix_len, should_compact
<1>2. Safe(prefix)
  BY <1>1
<1>3. T \in SUBSET (prefix .. raw) /\ T # {}
  BY <1>1, <1>2
<1> HIDE DEF prefix, raw, T
<1>4. PICK k \in T : \A j \in T : j <= k
  <2>1. prefix \in Int /\ raw \in Int
    BY <1>1
  <2> QED
    BY <2>1, <1>3, GreatestOf
<1> USE DEF prefix, raw, T
<1>5. k \in prefix .. raw /\ Good(k)
  <2>1. k \in prefix .. raw /\ (Safe(k) \/ AtPair(k))
    OBVIOUS
  <2>2. ASSUME NEW j \in prefix .. raw, j > k, Safe(j) \/ AtPair(j)
        PROVE  FALSE
    <3>1. j \in T
      BY <2>2
    <3>2. j <= k
      BY <1>4, <3>1
    <3> QED
      BY <1>1, <2>1, <2>2, <3>2
  <2> QED
    BY <2>1, <2>2
<1> HIDE DEF T, Good
<1>6. last \in prefix .. raw /\ Good(last)
  BY <1>5
<1>7. keep_from(ms) = IF Safe(last) THEN last ELSE last - 1
  BY DEF keep_from, Good
<1> HIDE DEF last
<1>8. Safe(last) \/ AtPair(last)
  BY <1>6 DEF Good
<1> SUFFICES ASSUME keep_from(ms) > prefix
             PROVE  keep_from(ms) \in prefix + 1 .. raw /\ ~IsResult(ms[keep_from(ms) + 1])
  <2>1. removed_message_count(ms) = keep_from(ms) - prefix
    BY DEF removed_message_count
  <2>2. keep_from(ms) \in Int
    BY <1>1, <1>6, <1>7
  <2> HIDE DEF prefix, Safe
  <2> QED
    BY <1>1, <2>1, <2>2 DEF prefix
<1>9. CASE Safe(last)
  BY <1>1, <1>6, <1>7, <1>9
<1>10. CASE ~Safe(last)
  <2>1. HasToolUse(ms[last]) /\ keep_from(ms) = last - 1
    BY <1>7, <1>8, <1>10
  <2>2. ~IsResult(ms[last])
    BY <2>1 DEF HasToolUse, IsResult
  <2>3. last \in Int /\ last <= raw /\ keep_from(ms) + 1 = last
    BY <1>1, <1>6, <2>1
  <2> QED
    BY <1>1, <2>1, <2>2, <2>3
<1> QED
  BY <1>9, <1>10

-----------------------------------------------------------------------------
(* What a step does to the transcript *)

TranscriptSound == NoOrphanResult /\ AnsweredSoFar /\ MemoryIsTailOfLog

\* Steps that move no message.
LEMMA Unmoved ==
  ASSUME ConvIInv, UNCHANGED <<messages, log, compacted>>,
         torn' \/ (torn' = torn /\ (stage \in Batching => stage' \in Batching))
  PROVE  messages' \in Seq(Messages) /\ log' \in Seq(Messages) /\ TranscriptSound'
<1>1. messages' \in Seq(Messages) /\ log' \in Seq(Messages)
  BY DEF ConvIInv, TypeOK
<1>2. NoOrphanResult' /\ MemoryIsTailOfLog'
  BY DEF ConvIInv, NoOrphanResult, MemoryIsTailOfLog
<1>3. ASSUME ~torn' PROVE WaitsInBatchOnly(messages)' /\ WaitsInBatchOnly(log)'
  <2>1. /\ \A i \in DOMAIN messages :
             Unanswered(messages, i) => stage' \in Batching /\ i = Len(messages)
        /\ \A i \in DOMAIN log :
             Unanswered(log, i) => stage' \in Batching /\ i = Len(log)
    BY <1>3 DEF ConvIInv, AnsweredSoFar, WaitsInBatchOnly
  <2>2. messages' = messages /\ log' = log
    OBVIOUS
  <2>3. WaitsInBatchOnly(messages)'
    BY <2>1, <2>2 DEF WaitsInBatchOnly, Unanswered
  <2>4. WaitsInBatchOnly(log)'
    BY <2>1, <2>2 DEF WaitsInBatchOnly, Unanswered
  <2> QED
    BY <2>3, <2>4
<1> QED
  BY <1>1, <1>2, <1>3 DEF TranscriptSound, AnsweredSoFar

\* A message is pushed in memory and on disk.
LEMMA Pushed ==
  ASSUME ConvIInv, NEW m \in Messages, Push(m), UNCHANGED <<torn, compacted>>,
         IsResult(m) => EndsInDue(messages) /\ EndsInDue(log) /\ Answers(Due, m),
         stage \in Batching => IsResult(m),
         Pending(m) => stage' \in Batching
  PROVE  /\ messages' \in Seq(Messages) /\ log' \in Seq(Messages)
         /\ messages' # <<>> /\ messages'[Len(messages')] = m
         /\ log' # <<>> /\ log'[Len(log')] = m
         /\ TranscriptSound'
<1>1. /\ messages \in Seq(Messages) /\ log \in Seq(Messages)
      /\ messages' = Append(messages, m) /\ log' = Append(log, m)
  BY DEF ConvIInv, TypeOK, Push
<1>2. /\ messages' \in Seq(Messages) /\ log' \in Seq(Messages)
      /\ Len(messages') = Len(messages) + 1 /\ Len(log') = Len(log) + 1
      /\ messages' # <<>> /\ messages'[Len(messages')] = m
      /\ log' # <<>> /\ log'[Len(log')] = m
  BY <1>1
<1>3. NoOrphanResult'
  <2>1. Paired(messages) /\ Paired(log)
    BY DEF ConvIInv, NoOrphanResult
  <2>2. IsResult(m) => /\ messages # <<>> /\ Answers(messages[Len(messages)], m)
                       /\ log # <<>> /\ Answers(log[Len(log)], m)
    BY DEF EndsInDue
  <2>3. Paired(Append(messages, m))
    BY <1>1, <2>1, <2>2, PairedAppend
  <2>4. Paired(Append(log, m))
    BY <1>1, <2>1, <2>2, PairedAppend
  <2>5. Paired(messages') /\ Paired(log')
    BY <1>1, <2>3, <2>4
  <2> QED
    BY <2>5 DEF NoOrphanResult
<1>4. AnsweredSoFar'
  <2> SUFFICES ASSUME ~torn
               PROVE  WaitsInBatchOnly(messages)' /\ WaitsInBatchOnly(log)'
    BY DEF AnsweredSoFar
  <2>1. /\ \A i \in DOMAIN messages : Unanswered(messages, i) => IsResult(m) /\ i = Len(messages)
        /\ \A i \in DOMAIN log : Unanswered(log, i) => IsResult(m) /\ i = Len(log)
    BY DEF ConvIInv, AnsweredSoFar, WaitsInBatchOnly
  <2>2. \A i \in DOMAIN Append(messages, m) :
          Unanswered(Append(messages, m), i) => i = Len(messages) + 1 /\ Pending(m)
    BY <1>1, <2>1, WaitsAppend
  <2>3. \A i \in DOMAIN Append(log, m) :
          Unanswered(Append(log, m), i) => i = Len(log) + 1 /\ Pending(m)
    BY <1>1, <2>1, WaitsAppend
  <2>4. \A i \in DOMAIN messages' :
          Unanswered(messages', i) => stage' \in Batching /\ i = Len(messages')
    BY <1>1, <1>2, <2>2
  <2>5. \A i \in DOMAIN log' : Unanswered(log', i) => stage' \in Batching /\ i = Len(log')
    BY <1>1, <1>2, <2>3
  <2> QED
    BY <2>4, <2>5 DEF WaitsInBatchOnly, Unanswered
<1>5. MemoryIsTailOfLog'
  <2>1. CASE ~compacted
    BY <1>1, <2>1 DEF ConvIInv, MemoryIsTailOfLog
  <2>2. CASE compacted
    <3>1. /\ messages # <<>> /\ messages[1] = Summary
      BY <2>2 DEF ConvIInv, MemoryIsTailOfLog
    <3>2. PICK n \in 0 .. Len(log) : Tail(messages) = SubSeq(log, n + 1, Len(log))
      BY <2>2 DEF ConvIInv, MemoryIsTailOfLog
    <3>3. Tail(Append(messages, m)) = SubSeq(Append(log, m), n + 1, Len(Append(log, m)))
      BY <1>1, <3>1, <3>2, TailAppend
    <3>4. Tail(messages') = SubSeq(log', n + 1, Len(log'))
      BY <1>1, <3>3
    <3>5. messages'[1] = Summary
      BY <1>1, <3>1
    <3>6. n \in 0 .. Len(log')
      BY <1>1, <1>2
    <3> QED
      BY <1>2, <2>2, <3>4, <3>5, <3>6 DEF MemoryIsTailOfLog
  <2> QED
    BY <2>1, <2>2 DEF ConvIInv, TypeOK
<1> QED
  BY <1>2, <1>3, <1>4, <1>5 DEF TranscriptSound

\* What compaction makes of a transcript: a summary and what comes after the k-th message.
SummaryAndRest(ms, new) ==
  \E k \in compacted_summary_prefix_len(ms) + 1 .. Len(ms) - Preserve :
     /\ ~IsResult(ms[k + 1])
     /\ new \in Seq(Messages) /\ Len(new) = Len(ms) - k + 1
     /\ new[1] = Summary /\ Tail(new) = SubSeq(ms, k + 1, Len(ms))
     /\ \A i \in 2 .. Len(new) : new[i] = ms[k + i - 1]

\* Compaction puts a summary in the place of what it removes.
LEMMA CompactedShape ==
  ASSUME NEW ms \in Seq(Messages), should_compact(ms), removed_message_count(ms) > 0,
         NEW new, new = compact_session(ms)
  PROVE  SummaryAndRest(ms, new)
<1> DEFINE k == keep_from(ms)
           rest == SubSeq(ms, k + 1, Len(ms))
<1>1. /\ k \in compacted_summary_prefix_len(ms) + 1 .. Len(ms) - Preserve
      /\ ~IsResult(ms[k + 1])
  BY KeepFrom
<1>2. compacted_summary_prefix_len(ms) \in {0, 1} /\ Len(ms) \in Nat /\ Preserve \in Nat
  BY RuntimeAssumption DEF compacted_summary_prefix_len
<1>3. k \in Nat /\ k <= Len(ms) /\ k >= 1
  BY <1>1, <1>2
<1> HIDE DEF k
<1>4. /\ rest \in Seq(Messages) /\ Len(rest) = Len(ms) - k
      /\ \A i \in 1 .. Len(rest) : rest[i] = ms[k + i]
  <2>1. \A i \in k + 1 .. Len(ms) : ms[i] \in Messages
    <3>1. \A i \in k + 1 .. Len(ms) : i \in 1 .. Len(ms)
      BY <1>2, <1>3
    <3> QED
      BY <3>1, ElementOfSeq
  <2>2. /\ rest \in Seq(Messages)
        /\ Len(rest) = IF k + 1 <= Len(ms) THEN Len(ms) - (k + 1) + 1 ELSE 0
        /\ \A i \in 1 .. Len(ms) - (k + 1) + 1 : rest[i] = ms[k + 1 + i - 1]
    <3>1. k + 1 \in Int /\ Len(ms) \in Int
      BY <1>2, <1>3
    <3> QED
      BY <2>1, <3>1, SubSeqProperties
  <2> HIDE DEF rest
  <2>3. Len(rest) = Len(ms) - k
    BY <1>2, <1>3, <2>2
  <2>4. ASSUME NEW i \in 1 .. Len(rest) PROVE rest[i] = ms[k + i]
    <3>1. i \in 1 .. Len(ms) - (k + 1) + 1 /\ k + 1 + i - 1 = k + i
      BY <1>2, <1>3, <2>3
    <3> QED
      BY <2>2, <3>1
  <2> QED
    BY <2>2, <2>3, <2>4
<1>5. new = <<Summary>> \o rest
  BY DEF compact_session, k
<1> HIDE DEF rest
<1>6. Summary \in Messages
  BY MessageTypes
<1>7. /\ new \in Seq(Messages) /\ Len(new) = 1 + Len(rest) /\ new[1] = Summary
      /\ \A i \in 2 .. Len(new) : new[i] = rest[i - 1]
  BY <1>4, <1>5, <1>6
<1>8. Tail(new) = rest
  <2>1. new # <<>>
    BY <1>7
  <2>2. /\ Tail(new) \in Seq(Messages) /\ Len(Tail(new)) = Len(new) - 1
        /\ \A i \in 1 .. Len(Tail(new)) : Tail(new)[i] = new[i + 1]
    BY <1>7, <2>1, HeadTailProperties
  <2>3. Len(Tail(new)) = Len(rest)
    BY <1>4, <1>7, <2>2
  <2>4. ASSUME NEW i \in 1 .. Len(rest) PROVE Tail(new)[i] = rest[i]
    <3>1. i + 1 \in 2 .. Len(new) /\ i + 1 - 1 = i
      BY <1>4, <1>7
    <3> QED
      BY <1>7, <2>2, <2>3, <3>1
  <2> QED
    BY <1>4, <2>2, <2>3, <2>4, SeqEqual
<1>9. ASSUME NEW i \in 2 .. Len(new) PROVE new[i] = ms[k + i - 1]
  <2>1. i - 1 \in 1 .. Len(rest) /\ k + (i - 1) = k + i - 1
    BY <1>3, <1>4, <1>7
  <2> QED
    BY <1>4, <1>7, <2>1
<1>10. Len(new) = Len(ms) - k + 1
  BY <1>2, <1>3, <1>4, <1>7
<1> QED
  <2>1. Tail(new) = SubSeq(ms, k + 1, Len(ms))
    BY <1>8 DEF rest
  <2> QED
    BY <1>1, <1>7, <1>9, <1>10, <2>1 DEF SummaryAndRest

LEMMA Compacted ==
  ASSUME ConvIInv, should_compact(messages), removed_message_count(messages) > 0,
         messages' = compact_session(messages), log' = log, compacted' = TRUE, torn' = torn,
         stage \notin Batching
  PROVE  /\ messages' \in Seq(Messages) /\ log' \in Seq(Messages) /\ TranscriptSound'
         /\ \A i \in 0 .. Preserve - 1 :
              i < Len(messages) => messages'[Len(messages') - i] = messages[Len(messages) - i]
<1>1. messages \in Seq(Messages) /\ log \in Seq(Messages) /\ Len(messages) \in Nat /\ Len(log) \in Nat
  BY DEF ConvIInv, TypeOK
<1>2. Preserve \in Nat \ {0} /\ compacted_summary_prefix_len(messages) \in {0, 1}
  BY RuntimeAssumption DEF compacted_summary_prefix_len
<1>3. PICK k \in compacted_summary_prefix_len(messages) + 1 .. Len(messages) - Preserve :
             /\ ~IsResult(messages[k + 1])
             /\ messages' \in Seq(Messages) /\ Len(messages') = Len(messages) - k + 1
             /\ messages'[1] = Summary
             /\ Tail(messages') = SubSeq(messages, k + 1, Len(messages))
             /\ \A i \in 2 .. Len(messages') : messages'[i] = messages[k + i - 1]
  <2>1. SummaryAndRest(messages, messages')
    BY <1>1, CompactedShape, Zenon
  <2> QED
    BY <2>1, Zenon DEF SummaryAndRest
<1> DEFINE lm == Len(messages)
           ln == Len(messages')
<1>4. /\ k \in Nat /\ k >= 1 /\ k + Preserve <= Len(messages)
      /\ Len(messages') \in Nat /\ Len(messages') > 1
      /\ DOMAIN messages' = 1 .. Len(messages') /\ DOMAIN messages = 1 .. Len(messages)
      /\ \A i \in 2 .. Len(messages') : k + i - 1 \in 1 .. Len(messages)
  <2>1. DOMAIN messages' = 1 .. Len(messages') /\ DOMAIN messages = 1 .. Len(messages)
    BY <1>1, <1>3
  <2>2. lm \in Nat /\ ln = lm - k + 1
    BY <1>1, <1>3
  <2> HIDE DEF lm, ln
  <2>3. k \in Nat /\ k >= 1 /\ k + Preserve <= lm
    BY <1>2, <2>2 DEF lm
  <2>4. ln \in Nat /\ ln > 1 /\ \A i \in 2 .. ln : k + i - 1 \in 1 .. lm
    BY <1>2, <2>2, <2>3
  <2> QED
    BY <2>1, <2>3, <2>4 DEF lm, ln
<1> HIDE DEF lm, ln
<1>5. ~IsResult(messages'[1]) /\ ~Pending(messages'[1])
  BY <1>3 DEF IsResult, Pending, HasToolUse, Summary, Message
<1>6. Paired(messages) /\ Paired(log)
  BY DEF ConvIInv, NoOrphanResult
<1>7. ASSUME NEW i \in DOMAIN messages', IsResult(messages'[i])
      PROVE  i > 1 /\ Answers(messages'[i - 1], messages'[i])
  <2>1. i \in 2 .. Len(messages')
    BY <1>4, <1>5, <1>7
  <2>2. i # 2
    <3>1. i = 2 => messages'[i] = messages[k + 1]
      BY <1>3, <1>4, <2>1
    <3> QED
      BY <1>3, <1>7, <3>1
  <2>3. /\ i - 1 \in 2 .. Len(messages') /\ k + i - 1 \in DOMAIN messages
        /\ k + i - 1 - 1 = k + (i - 1) - 1
    BY <1>4, <2>1, <2>2
  <2>4. messages'[i] = messages[k + i - 1] /\ messages'[i - 1] = messages[k + i - 1 - 1]
    BY <1>3, <2>1, <2>3
  <2>5. Answers(messages[k + i - 1 - 1], messages[k + i - 1])
    BY <1>6, <1>7, <2>3, <2>4 DEF Paired
  <2> QED
    BY <2>1, <2>4, <2>5
<1>8. NoOrphanResult'
  BY <1>6, <1>7 DEF NoOrphanResult, Paired
<1>9. ASSUME ~torn, NEW i \in DOMAIN messages', Unanswered(messages', i)
      PROVE  FALSE
  <2>1. Pending(messages'[i]) /\ (i < Len(messages') => ~IsResult(messages'[i + 1]))
    BY <1>9, UnansweredMeans
  <2>2. i \in 2 .. Len(messages')
    BY <1>4, <1>5, <2>1
  <2>3. k + i - 1 \in DOMAIN messages /\ (i < Len(messages') <=> k + i - 1 < Len(messages))
    BY <1>3, <1>4, <2>2
  <2>4. messages'[i] = messages[k + i - 1]
    BY <1>3, <2>2
  <2>5. k + i - 1 < Len(messages) => messages'[i + 1] = messages[k + i - 1 + 1]
    <3>1. k + i - 1 < Len(messages) => i + 1 \in 2 .. Len(messages') /\ k + (i + 1) - 1 = k + i - 1 + 1
      BY <1>4, <2>2, <2>3
    <3> QED
      BY <1>3, <3>1
  <2>6. Unanswered(messages, k + i - 1)
    BY <2>1, <2>3, <2>4, <2>5, UnansweredMeans
  <2>7. WaitsInBatchOnly(messages)
    BY <1>9 DEF ConvIInv, AnsweredSoFar
  <2> QED
    BY <2>3, <2>6, <2>7 DEF WaitsInBatchOnly
<1>10. AnsweredSoFar'
  <2>1. ~torn => WaitsInBatchOnly(messages)'
    BY <1>9 DEF WaitsInBatchOnly
  <2>2. ~torn => \A i \in DOMAIN log : ~Unanswered(log, i)
    BY DEF ConvIInv, AnsweredSoFar, WaitsInBatchOnly
  <2>3. ~torn => WaitsInBatchOnly(log)'
    BY <2>2 DEF WaitsInBatchOnly, Unanswered
  <2> QED
    BY <2>1, <2>3 DEF AnsweredSoFar
<1>11. \E n \in 0 .. Len(log) : SubSeq(messages, k + 1, Len(messages)) = SubSeq(log, n + 1, Len(log))
  <2>1. CASE ~compacted
    <3>1. messages = log
      BY <2>1 DEF ConvIInv, MemoryIsTailOfLog
    <3> QED
      BY <1>1, <1>4, <3>1
  <2>2. CASE compacted
    <3>1. messages # <<>> /\ messages[1] = Summary
      BY <2>2 DEF ConvIInv, MemoryIsTailOfLog
    <3>2. PICK n \in 0 .. Len(log) : Tail(messages) = SubSeq(log, n + 1, Len(log))
      BY <2>2 DEF ConvIInv, MemoryIsTailOfLog
    <3>3. k >= 2
      BY <1>3, <3>1 DEF compacted_summary_prefix_len, Summary, Message
    <3>4. Len(Tail(messages)) = Len(messages) - 1
      BY <1>1, <3>1, HeadTailProperties
    <3>5. \A i \in n + 1 .. Len(log) : log[i] \in Messages
      <4>1. \A i \in n + 1 .. Len(log) : i \in 1 .. Len(log)
        BY <1>1, <3>2
      <4> QED
        BY <1>1, <4>1, ElementOfSeq
    <3>6. Len(SubSeq(log, n + 1, Len(log))) = Len(log) - n
      <4>1. n + 1 \in Int /\ Len(log) \in Int
        BY <1>1
      <4>2. Len(SubSeq(log, n + 1, Len(log))) = IF n + 1 <= Len(log) THEN Len(log) - (n + 1) + 1 ELSE 0
        BY <3>5, <4>1, SubSeqProperties
      <4> HIDE DEF ConvIInv
      <4> QED
        BY <1>1, <4>2
    <3>7. Len(log) - n = Len(messages) - 1
      BY <3>2, <3>4, <3>6
    <3>8. Tail(messages) = SubSeq(messages, 2, Len(messages))
      BY <1>1, <3>1, TailIsSubSeq
    <3>9. /\ \A i \in 1 .. Len(messages) - 1 : messages[i + 1] = Tail(messages)[i]
          /\ \A i \in 1 .. Len(log) - n : SubSeq(log, n + 1, Len(log))[i] = log[n + i]
      <4>1. \A i \in 1 .. Len(messages) - 1 : messages[i + 1] = Tail(messages)[i]
        BY <1>1, <3>1, <3>4, HeadTailProperties
      <4>2. \A i \in 1 .. Len(log) - (n + 1) + 1 :
              SubSeq(log, n + 1, Len(log))[i] = log[n + 1 + i - 1]
        <5>1. n + 1 \in Int /\ Len(log) \in Int
          BY <1>1
        <5> QED
          BY <3>5, <5>1, SubSeqProperties
      <4>3. ASSUME NEW i \in 1 .. Len(log) - n
            PROVE  SubSeq(log, n + 1, Len(log))[i] = log[n + i]
        <5>1. i \in 1 .. Len(log) - (n + 1) + 1 /\ n + 1 + i - 1 = n + i
          BY <1>1
        <5> QED
          BY <4>2, <5>1
      <4> QED
        BY <4>1, <4>3
    <3>10. \A i \in 1 .. Len(messages) - 1 : messages[i + 1] = log[n + i]
      BY <3>2, <3>7, <3>9
    <3> DEFINE q == n + k - 1
    <3>11. q \in 0 .. Len(log) /\ Len(log) - q = Len(messages) - k
      BY <1>1, <1>2, <1>4, <3>3, <3>7
    <3>12. ASSUME NEW i \in 1 .. Len(messages) - k PROVE messages[k + i] = log[q + i]
      <4>1. /\ k + i - 1 \in 1 .. Len(messages) - 1 /\ (k + i - 1) + 1 = k + i
            /\ n + (k + i - 1) = q + i
        BY <1>1, <1>4
      <4> HIDE DEF q
      <4> QED
        BY <3>10, <4>1
    <3> HIDE DEF q
    <3>13. SubSeq(messages, k + 1, Len(messages)) = SubSeq(log, q + 1, Len(log))
      <4>1. /\ \A i \in k + 1 .. Len(messages) : messages[i] \in Messages
            /\ \A i \in q + 1 .. Len(log) : log[i] \in Messages
        <5>1. /\ \A i \in k + 1 .. Len(messages) : i \in 1 .. Len(messages)
              /\ \A i \in q + 1 .. Len(log) : i \in 1 .. Len(log)
          BY <1>1, <1>4, <3>11
        <5> QED
          BY <1>1, <5>1, ElementOfSeq
      <4>2. k + 1 \in Int /\ q + 1 \in Int /\ Len(messages) \in Int /\ Len(log) \in Int
        BY <1>1, <1>4, <3>11
      <4> DEFINE a == SubSeq(messages, k + 1, Len(messages))
                 b == SubSeq(log, q + 1, Len(log))
      <4>3. /\ a \in Seq(Messages)
            /\ Len(a) = IF k + 1 <= Len(messages) THEN Len(messages) - (k + 1) + 1 ELSE 0
            /\ \A i \in 1 .. Len(messages) - (k + 1) + 1 : a[i] = messages[k + 1 + i - 1]
        BY <4>1, <4>2, SubSeqProperties
      <4>4. /\ b \in Seq(Messages)
            /\ Len(b) = IF q + 1 <= Len(log) THEN Len(log) - (q + 1) + 1 ELSE 0
            /\ \A i \in 1 .. Len(log) - (q + 1) + 1 : b[i] = log[q + 1 + i - 1]
        BY <4>1, <4>2, SubSeqProperties
      <4> HIDE DEF a, b
      <4>5. Len(a) = Len(messages) - k /\ Len(b) = Len(messages) - k
        <5>1. k <= Len(messages) /\ k \in Nat /\ q \in Nat /\ q <= Len(log)
          BY <1>1, <1>2, <1>4, <3>11
        <5>2. /\ Len(a) = IF k + 1 <= Len(messages) THEN Len(messages) - (k + 1) + 1 ELSE 0
              /\ Len(b) = IF q + 1 <= Len(log) THEN Len(log) - (q + 1) + 1 ELSE 0
              /\ Len(log) - q = Len(messages) - k
          BY <3>11, <4>3, <4>4
        <5>3. Len(messages) \in Nat /\ Len(log) \in Nat
          BY <1>1
        <5>4. Len(a) = Len(messages) - k
          BY <5>1, <5>2, <5>3
        <5>5. Len(b) = Len(log) - q
          BY <5>1, <5>2, <5>3
        <5> QED
          BY <5>2, <5>4, <5>5
      <4>6. ASSUME NEW i \in 1 .. Len(a) PROVE a[i] = b[i]
        <5>1. /\ i \in 1 .. Len(messages) - k
              /\ i \in 1 .. Len(messages) - (k + 1) + 1 /\ k + 1 + i - 1 = k + i
              /\ i \in 1 .. Len(log) - (q + 1) + 1 /\ q + 1 + i - 1 = q + i
          BY <1>1, <1>4, <3>11, <4>5
        <5> QED
          BY <3>12, <4>3, <4>4, <5>1
      <4>7. a = b
        BY <4>3, <4>4, <4>5, <4>6, SeqEqual
      <4> QED
        BY <4>7 DEF a, b
    <3> QED
      BY <3>11, <3>13
  <2> QED
    BY <2>1, <2>2
<1>12. MemoryIsTailOfLog'
  <2>1. PICK n \in 0 .. Len(log) : Tail(messages') = SubSeq(log, n + 1, Len(log))
    BY <1>3, <1>11
  <2>2. messages' # <<>>
    BY <1>4
  <2>3. /\ messages' # <<>> /\ messages'[1] = Summary
        /\ \E r \in 0 .. Len(log') : Tail(messages') = SubSeq(log', r + 1, Len(log'))
    BY <1>3, <2>1, <2>2
  <2> QED
    BY <2>3 DEF MemoryIsTailOfLog
<1>13. ASSUME NEW i \in 0 .. Preserve - 1, i < Len(messages)
       PROVE  messages'[Len(messages') - i] = messages[Len(messages) - i]
  <2>1. /\ Len(messages') - i \in 2 .. Len(messages')
        /\ k + (Len(messages') - i) - 1 = Len(messages) - i
    BY <1>1, <1>2, <1>3, <1>4
  <2> QED
    BY <1>3, <2>1
<1> QED
  BY <1>1, <1>3, <1>8, <1>10, <1>12, <1>13 DEF TranscriptSound

-----------------------------------------------------------------------------
(* Every step keeps the invariant *)

\* What a step leaves of the recent messages.
Kept ==
  compacted' /\ Len(messages') <= Len(messages) /\ messages' # messages
    => \A i \in 0 .. Preserve - 1 :
         i < Len(messages) => messages'[Len(messages') - i] = messages[Len(messages) - i]

\* The part of TypeOK that is not about the transcript.
Scalars ==
  /\ stage \in Stages
  /\ compacted \in BOOLEAN /\ over \in BOOLEAN /\ torn \in BOOLEAN
  /\ cancel \in BOOLEAN /\ cancel_token \in BOOLEAN /\ swapped \in BOOLEAN
  /\ turns \in 0 .. MaxTurns /\ queued \in 0 .. MaxTurns - turns
  /\ iteration \in 0 .. MaxIterations + 1 /\ WithinLimit
  /\ batch \in 0 .. MaxBatch
  /\ tool \in 0 .. MaxBatch + 1
  /\ outcome \in Outcomes
  /\ late \in Nat

LEMMA ScalarsHold ==
  ASSUME ConvIInv PROVE Scalars
BY DEF ConvIInv, TypeOK, Scalars

LEMMA Assembled ==
  ASSUME messages \in Seq(Messages), log \in Seq(Messages), TranscriptSound,
         Scalars, InBatch, NoCallAfterCancel
  PROVE  ConvIInv
BY DEF ConvIInv, TypeOK, Scalars, TranscriptSound

LEMMA UnmovedStep ==
  ASSUME ConvIInv, UNCHANGED <<messages, log, compacted>>,
         torn' \/ (torn' = torn /\ (stage \in Batching => stage' \in Batching)),
         Scalars', InBatch', NoCallAfterCancel'
  PROVE  ConvIInv' /\ Kept
<1>1. messages' \in Seq(Messages) /\ log' \in Seq(Messages) /\ TranscriptSound'
  BY Unmoved
<1>2. ConvIInv'
  BY <1>1 DEF ConvIInv, TypeOK, Scalars, TranscriptSound
<1> QED
  BY <1>2 DEF Kept

\* No message moves and the batch in hand is untouched.
LEMMA SameBatch ==
  ASSUME ConvIInv, UNCHANGED <<messages, log, batch, tool>>,
         stage' \in Batching => stage \in Batching
  PROVE  InBatch'
<1>1. CASE stage' \in Batching
  <2>1. tool \in 1 .. batch /\ EndsInDue(messages) /\ EndsInDue(log)
    BY <1>1 DEF ConvIInv, InBatch
  <2> QED
    BY <2>1 DEF InBatch, EndsInDue, Due
<1>2. CASE stage' \notin Batching
  BY <1>2 DEF InBatch
<1> QED
  BY <1>1, <1>2

LEMMA QueueTurnStep ==
  ASSUME ConvIInv, QueueTurn PROVE ConvIInv' /\ Kept
<1> USE RuntimeAssumption
<1>1. /\ UNCHANGED <<stage, messages, log, compacted, over, turns, iteration, batch, tool,
                     cancel_token, outcome, torn>>
      /\ turns + queued < MaxTurns /\ queued' = queued + 1
      /\ cancel' = FALSE /\ swapped' = TRUE /\ late' = 0
  BY DEF QueueTurn, turnVars
<1>2. Scalars'
  <2>1. turns' \in 0 .. MaxTurns /\ queued' \in 0 .. MaxTurns - turns'
    BY <1>1, ScalarsHold DEF Scalars
  <2> QED
    BY <1>1, <2>1, ScalarsHold DEF Scalars, WithinLimit
<1>3. InBatch'
  BY <1>1, SameBatch
<1>4. NoCallAfterCancel'
  BY <1>1 DEF NoCallAfterCancel
<1> QED
  BY <1>1, <1>2, <1>3, <1>4, UnmovedStep

LEMMA TurnBeginStep ==
  ASSUME ConvIInv, TurnBegin PROVE ConvIInv' /\ Kept
<1> USE RuntimeAssumption
<1>1. stage = "idle" /\ stage' \in {"probe", "user"}
  BY DEF TurnBegin, Goto
<1>2. UNCHANGED <<messages, log, compacted, torn, cancel, cancel_token, late>>
  BY DEF TurnBegin
<1>3. Scalars'
  <2>1. stage' \in Stages /\ (stage' # "idle" => iteration' <= MaxIterations)
    BY <1>1 DEF TurnBegin, Stages
  <2>2. /\ turns' \in 0 .. MaxTurns /\ queued' \in 0 .. MaxTurns - turns'
        /\ iteration' \in 0 .. MaxIterations + 1
        /\ batch' \in 0 .. MaxBatch /\ tool' \in 0 .. MaxBatch + 1 /\ late' \in Nat
    BY ScalarsHold DEF Scalars, TurnBegin
  <2>3. /\ compacted' \in BOOLEAN /\ over' \in BOOLEAN /\ cancel' \in BOOLEAN
        /\ cancel_token' \in BOOLEAN /\ swapped' \in BOOLEAN
        /\ torn' \in BOOLEAN /\ outcome' \in Outcomes
    BY ScalarsHold DEF Scalars, TurnBegin, Outcomes
  <2> QED
    BY <2>1, <2>2, <2>3 DEF Scalars, WithinLimit
<1>4. InBatch'
  BY <1>1 DEF InBatch, Batching
<1>5. NoCallAfterCancel'
  BY <1>1, <1>2 DEF ConvIInv, NoCallAfterCancel, Cancelled
<1> QED
  BY <1>1, <1>2, <1>3, <1>4, <1>5, UnmovedStep DEF Batching

\* Failing before a tool use is in the transcript leaves no batch open.
LEMMA CutShort ==
  ASSUME ConvIInv, stage' = "idle", outcome' \in Outcomes,
         iteration' \in 0 .. MaxIterations + 1, over' \in BOOLEAN,
         late' \in {0, 1}, late' = 1 => Cancelled,
         UNCHANGED <<messages, log, compacted, turns, batch, tool, cancel, cancel_token, swapped,
                     queued>>,
         torn' = TRUE \/ (torn' = torn /\ stage \notin Batching)
  PROVE  ConvIInv' /\ Kept
<1>1. Scalars'
  <2>1. stage' \in Stages /\ (stage' # "idle" => iteration' <= MaxIterations)
    BY DEF Stages
  <2>2. /\ compacted' \in BOOLEAN /\ torn' \in BOOLEAN /\ cancel' \in BOOLEAN
        /\ cancel_token' \in BOOLEAN /\ swapped' \in BOOLEAN
    BY ScalarsHold DEF Scalars
  <2>3. /\ turns' \in 0 .. MaxTurns /\ queued' \in 0 .. MaxTurns - turns'
        /\ batch' \in 0 .. MaxBatch /\ tool' \in 0 .. MaxBatch + 1
    BY ScalarsHold DEF Scalars
  <2>4. late' \in Nat
    OBVIOUS
  <2> QED
    BY <2>1, <2>2, <2>3, <2>4 DEF Scalars, WithinLimit
<1>2. InBatch' /\ NoCallAfterCancel'
  BY DEF InBatch, Batching, NoCallAfterCancel, Cancelled
<1> QED
  BY <1>1, <1>2, UnmovedStep

\* Going on without touching the transcript.
LEMMA GoesOn ==
  ASSUME ConvIInv, stage' \in Stages \ {"idle"},
         UNCHANGED <<messages, log, compacted, over, turns, batch, tool, cancel, cancel_token,
                     swapped, queued, outcome, torn, late>>,
         iteration' \in 0 .. MaxIterations,
         stage' \in Batching <=> stage \in Batching,
         stage' = "llm" => ~Cancelled,
         stage # "idle"
  PROVE  ConvIInv' /\ Kept
<1>1. Scalars'
  BY RuntimeAssumption DEF ConvIInv, TypeOK, Scalars, WithinLimit
<1>2. InBatch'
  BY SameBatch
<1>3. NoCallAfterCancel'
  BY DEF ConvIInv, NoCallAfterCancel, Cancelled
<1> QED
  BY <1>1, <1>2, <1>3, UnmovedStep

LEMMA OldOutcome ==
  ASSUME ConvIInv
  PROVE  /\ iteration \in 0 .. MaxIterations + 1 /\ over \in BOOLEAN /\ late \in {0, 1}
         /\ (late = 1 => Cancelled) /\ outcome \in Outcomes /\ MaxIterations \in Nat
         /\ (stage # "idle" => iteration \in 0 .. MaxIterations)
BY RuntimeAssumption DEF ConvIInv, TypeOK, WithinLimit, NoCallAfterCancel

LEMMA HealthProbeStep ==
  ASSUME ConvIInv, HealthProbe PROVE ConvIInv' /\ Kept
<1>1. CASE stage' = "user"
  <2>1. /\ stage = "probe"
        /\ UNCHANGED <<messages, log, compacted, over, turns, batch, tool, cancel, cancel_token,
                     swapped, queued, torn, late>>
        /\ iteration' = iteration
    BY DEF HealthProbe, turnVars, cancelVars
  <2>2. outcome' = outcome
    BY <1>1 DEF HealthProbe, Goto, Fail
  <2> QED
    BY <1>1, <2>1, <2>2, OldOutcome, GoesOn DEF Stages, Batching
<1>2. CASE stage' = "idle"
  <2>1. /\ stage = "probe" /\ outcome' = "session_state"
        /\ UNCHANGED <<messages, log, compacted, over, turns, batch, tool, cancel, cancel_token,
                     swapped, queued, torn, late>>
        /\ iteration' = iteration
    BY <1>2 DEF HealthProbe, turnVars, cancelVars, Goto, Fail
  <2> QED
    BY <1>2, <2>1, OldOutcome, CutShort DEF Outcomes, Batching
<1> QED
  BY <1>1, <1>2 DEF HealthProbe, Goto, Fail

LEMMA LoopHeadStep ==
  ASSUME ConvIInv, LoopHead PROVE ConvIInv' /\ Kept
<1>1. /\ stage = "check" /\ iteration' = iteration + 1
      /\ UNCHANGED <<messages, log, compacted, over, turns, batch, tool, cancel, cancel_token,
                     swapped, queued, torn, late>>
  BY DEF LoopHead, cancelVars
<1>2. CASE stage' = "idle" /\ outcome' \in Outcomes
  <2>1. iteration' \in 0 .. MaxIterations + 1
    BY <1>1, OldOutcome DEF ConvIInv, WithinLimit
  <2> QED
    BY <1>1, <1>2, <2>1, OldOutcome, CutShort DEF Batching
<1>3. CASE iteration' <= MaxIterations /\ ~Cancelled /\ stage' = "llm" /\ outcome' = outcome
  <2>1. iteration' \in 0 .. MaxIterations
    BY <1>1, <1>3, OldOutcome
  <2> QED
    BY <1>1, <1>3, <2>1, GoesOn DEF Stages, Batching
<1> QED
  BY <1>2, <1>3 DEF LoopHead, Goto, Fail, Outcomes

\* A pushed message makes the transcript longer.
LEMMA PushedStep ==
  ASSUME ConvIInv, NEW m \in Messages, Push(m), UNCHANGED <<torn, compacted>>,
         IsResult(m) => EndsInDue(messages) /\ EndsInDue(log) /\ Answers(Due, m),
         stage \in Batching => IsResult(m),
         Pending(m) => stage' \in Batching,
         stage' \in Batching => tool' \in 1 .. batch' /\ m = Due',
         Scalars', NoCallAfterCancel'
  PROVE  ConvIInv' /\ Kept
<1>1. /\ messages' \in Seq(Messages) /\ log' \in Seq(Messages)
      /\ messages' # <<>> /\ messages'[Len(messages')] = m
      /\ log' # <<>> /\ log'[Len(log')] = m
      /\ TranscriptSound'
  BY Pushed
<1>2. InBatch'
  BY <1>1 DEF InBatch, EndsInDue
<1>3. ConvIInv'
  BY <1>1, <1>2 DEF ConvIInv, TypeOK, Scalars, TranscriptSound
<1>4. ~(Len(messages') <= Len(messages))
  <2>1. messages \in Seq(Messages) /\ messages' = Append(messages, m)
    BY DEF ConvIInv, TypeOK, Push
  <2> QED
    BY <2>1
<1> QED
  BY <1>3, <1>4 DEF Kept

LEMMA PushUserStep ==
  ASSUME ConvIInv, PushUser PROVE ConvIInv' /\ Kept
<1>1. /\ stage = "user"
      /\ UNCHANGED <<compacted, over, turns, iteration, batch, tool, cancel, cancel_token,
                     swapped, queued, torn, late>>
  BY DEF PushUser, turnVars, cancelVars
<1>2. CASE Push(User) /\ stage' = "check" /\ outcome' = outcome
  <2>1. User \in Messages /\ ~IsResult(User) /\ ~Pending(User)
    BY MessageTypes DEF User, Message, IsResult, Pending, HasToolUse
  <2>2. Scalars'
    BY <1>1, <1>2, ScalarsHold DEF Scalars, WithinLimit, Stages
  <2>3. NoCallAfterCancel'
    BY <1>1, <1>2 DEF ConvIInv, NoCallAfterCancel, Cancelled
  <2> QED
    BY <1>1, <1>2, <2>1, <2>2, <2>3, PushedStep DEF Batching
<1>3. CASE PushFails /\ stage' = "idle" /\ outcome' = "session_state"
  BY <1>1, <1>3, OldOutcome, CutShort DEF PushFails, Outcomes, Batching
<1> QED
  BY <1>2, <1>3 DEF PushUser, Goto, Fail

LEMMA StreamFailsStep ==
  ASSUME ConvIInv, StreamFails PROVE ConvIInv' /\ Kept
<1>1. /\ stage = "llm" /\ stage' = "idle" /\ outcome' = "error"
      /\ UNCHANGED <<messages, log, compacted, over, turns, iteration, batch, tool, cancel,
                     cancel_token,
                     swapped, queued, torn, late>>
  BY DEF StreamFails, Goto, Fail, turnVars, cancelVars
<1> QED
  BY <1>1, OldOutcome, CutShort DEF Outcomes, Batching

LEMMA AssistantAnswersStep ==
  ASSUME ConvIInv, NEW b \in 0 .. MaxBatch, AssistantAnswers(b) PROVE ConvIInv' /\ Kept
<1>1. /\ stage = "llm" /\ over' \in BOOLEAN
      /\ UNCHANGED <<compacted, turns, iteration, cancel, cancel_token, swapped, queued, torn>>
      /\ late' = IF Cancelled THEN late + 1 ELSE late
  BY OldOutcome DEF AssistantAnswers, cancelVars
<1>2. late = 0 /\ late' \in {0, 1} /\ (late' = 1 => Cancelled)
  BY <1>1 DEF ConvIInv, NoCallAfterCancel
<1>3. CASE /\ Push(Assistant(b)) /\ stage' = (IF b = 0 THEN "finish" ELSE "hook")
           /\ batch' = b /\ tool' = 1 /\ outcome' = outcome
  <2>1. /\ Assistant(b) \in Messages /\ ~IsResult(Assistant(b))
        /\ (Pending(Assistant(b)) => b # 0)
    BY MessageTypes DEF Assistant, Message, IsResult, Pending, HasToolUse
  <2>2. MaxBatch \in Nat
    BY RuntimeAssumption
  <2>3. Scalars'
    BY <1>1, <1>2, <1>3, <2>2, ScalarsHold DEF Scalars, WithinLimit, Stages
  <2>4. NoCallAfterCancel'
    BY <1>1, <1>2, <1>3 DEF NoCallAfterCancel, Cancelled
  <2>5. /\ Pending(Assistant(b)) => stage' \in Batching
        /\ stage' \in Batching => tool' \in 1 .. batch' /\ Assistant(b) = Due'
    BY <1>3, <2>1, <2>2 DEF Batching, Due
  <2> QED
    BY <1>1, <1>3, <2>1, <2>3, <2>4, <2>5, PushedStep DEF Batching
<1>4. CASE PushFails /\ stage' = "idle" /\ outcome' = "session_state" /\ UNCHANGED <<batch, tool>>
  BY <1>1, <1>2, <1>4, OldOutcome, CutShort DEF PushFails, Outcomes, Batching
<1> QED
  BY <1>3, <1>4 DEF AssistantAnswers, Goto, Fail

LEMMA ToolStep ==
  ASSUME ConvIInv, PreHook \/ Authorize \/ ExecuteTool \/ PostHook PROVE ConvIInv' /\ Kept
<1>1. /\ UNCHANGED <<messages, log, compacted, over, turns, iteration, batch, tool, cancel,
                     cancel_token, swapped, queued,
                     outcome, torn, late>>
      /\ stage \in Batching /\ stage' \in Batching
  BY DEF PreHook, Authorize, ExecuteTool, PostHook, Goto, turnVars, cancelVars, Batching
<1>2. stage # "idle" /\ stage' \in Stages \ {"idle"} /\ stage' # "llm"
  BY <1>1 DEF Stages, Batching
<1> QED
  BY <1>1, <1>2, OldOutcome, GoesOn

LEMMA PushResultStep ==
  ASSUME ConvIInv, PushResult PROVE ConvIInv' /\ Kept
<1>1. /\ stage = "push"
      /\ UNCHANGED <<compacted, over, turns, iteration, batch, cancel, cancel_token, swapped,
                     queued, late>>
  BY DEF PushResult, cancelVars
<1>2. tool \in 1 .. batch /\ EndsInDue(messages) /\ EndsInDue(log)
  BY <1>1 DEF ConvIInv, InBatch, Batching
<1>3. batch \in 0 .. MaxBatch /\ MaxBatch \in Nat
  BY RuntimeAssumption, ScalarsHold DEF Scalars
<1>4. CASE /\ Push(ToolResult(tool, batch)) /\ tool' = tool + 1
           /\ stage' = (IF tool = batch THEN "check" ELSE "hook") /\ UNCHANGED <<outcome, torn>>
  <2> DEFINE m == ToolResult(tool, batch)
  <2>1. m \in Messages /\ IsResult(m) /\ (Pending(m) => tool # batch)
    <3>1. tool \in 0 .. MaxBatch
      BY <1>2, <1>3
    <3>2. m \in Messages
      BY <1>3, <3>1, MessageTypes
    <3> QED
      BY <1>2, <1>3, <3>2 DEF ToolResult, Message, IsResult, Pending, HasToolUse
  <2>2. Answers(Due, m)
    <3>1. m.n = tool /\ m.of = batch
      BY DEF ToolResult, Message
    <3>2. CASE tool = 1
      BY <1>2, <3>1, <3>2 DEF Answers, Due, Assistant, Message
    <3>3. CASE tool # 1
      <4>1. Due.kind = "result" /\ Due.n = tool - 1 /\ Due.of = batch
        BY <3>3 DEF Due, ToolResult, Message
      <4> QED
        BY <1>2, <3>1, <4>1 DEF Answers
    <3> QED
      BY <3>2, <3>3
  <2>3. Scalars'
    <3>1. stage' \in Stages \ {"idle"} /\ stage # "idle"
      BY <1>1, <1>4 DEF Stages
    <3>2. tool' \in 0 .. MaxBatch + 1
      BY <1>2, <1>3, <1>4
    <3> QED
      BY <1>1, <1>4, <3>1, <3>2, ScalarsHold DEF Scalars, WithinLimit
  <2>4. NoCallAfterCancel'
    BY <1>1, <1>4 DEF ConvIInv, NoCallAfterCancel, Cancelled
  <2>5. stage' \in Batching => tool' \in 1 .. batch' /\ m = Due'
    <3>1. stage' \in Batching => tool # batch
      BY <1>4 DEF Batching
    <3>2. tool # batch => tool' \in 1 .. batch' /\ tool' # 1 /\ tool' - 1 = tool
      BY <1>1, <1>2, <1>3, <1>4
    <3>3. tool' # 1 => Due' = ToolResult(tool' - 1, batch')
      BY DEF Due, Assistant, ToolResult, Message
    <3> QED
      BY <1>1, <3>1, <3>2, <3>3
  <2>6. Pending(m) => stage' \in Batching
    BY <1>4, <2>1 DEF Batching
  <2> HIDE DEF m
  <2>7. Push(m)
    BY <1>4 DEF m
  <2> QED
    BY <1>1, <1>2, <1>4, <2>1, <2>2, <2>3, <2>4, <2>5, <2>6, <2>7, PushedStep
<1>5. CASE PushFails /\ stage' = "idle" /\ outcome' = "session_state" /\ torn' = TRUE /\ tool' = tool
  BY <1>1, <1>5, OldOutcome, CutShort DEF PushFails, Outcomes
<1> QED
  BY <1>4, <1>5 DEF PushResult, Goto, Fail

LEMMA FinishStep ==
  ASSUME ConvIInv, Finish PROVE ConvIInv' /\ Kept
<1>1. /\ stage = "finish" /\ stage' = "idle" /\ outcome' = "ok"
      /\ UNCHANGED <<log, over, turns, iteration, batch, tool, cancel, cancel_token,
                     swapped, queued, torn, late>>
  BY DEF Finish, Goto, turnVars, cancelVars
<1>2. CASE /\ should_compact(messages) /\ removed_message_count(messages) > 0
           /\ messages' = compact_session(messages) /\ compacted' = TRUE
  <2>1. /\ messages' \in Seq(Messages) /\ log' \in Seq(Messages) /\ TranscriptSound'
        /\ \A i \in 0 .. Preserve - 1 :
             i < Len(messages) => messages'[Len(messages') - i] = messages[Len(messages) - i]
    BY <1>1, <1>2, Compacted DEF Batching
  <2>2. Scalars'
    BY <1>1, <1>2, ScalarsHold DEF Scalars, WithinLimit, Stages, Outcomes
  <2>3. InBatch' /\ NoCallAfterCancel'
    BY <1>1, OldOutcome DEF InBatch, Batching, NoCallAfterCancel, Cancelled
  <2>4. ConvIInv'
    BY <2>1, <2>2, <2>3 DEF ConvIInv, TypeOK, Scalars, TranscriptSound
  <2> QED
    BY <2>1, <2>4 DEF Kept
<1>3. CASE UNCHANGED <<messages, compacted>>
  BY <1>1, <1>3, OldOutcome, CutShort DEF Outcomes, Batching
<1> QED
  BY <1>2, <1>3 DEF Finish

LEMMA PanicStep ==
  ASSUME ConvIInv, Panic PROVE ConvIInv' /\ Kept
<1>1. /\ stage' = "idle" /\ outcome' = "panic"
      /\ UNCHANGED <<messages, log, compacted, over, turns, iteration, batch, tool, cancel,
                     cancel_token, swapped, queued, late>>
  BY DEF Panic, Goto, Fail, turnVars, cancelVars
<1>2. torn' = TRUE \/ (torn' = torn /\ stage \notin Batching)
  BY ScalarsHold DEF Panic, Batching, Scalars
<1> QED
  BY <1>1, <1>2, OldOutcome, CutShort DEF Outcomes

LEMMA CancelStep ==
  ASSUME ConvIInv, Cancel PROVE ConvIInv' /\ Kept
<1>1. /\ cancel' = TRUE /\ cancel_token' = (cancel_token \/ ~swapped)
      /\ UNCHANGED <<stage, messages, log, compacted, over, turns, iteration, batch, tool,
                     queued, swapped, outcome, torn, late>>
  BY DEF Cancel, turnVars
<1>2. Scalars'
  <2>1. cancel_token' \in BOOLEAN
    BY <1>1, ScalarsHold DEF Scalars
  <2> QED
    BY <1>1, <2>1, ScalarsHold DEF Scalars, WithinLimit
<1>3. InBatch'
  BY <1>1, SameBatch
<1>4. NoCallAfterCancel'
  BY <1>1 DEF ConvIInv, NoCallAfterCancel, Cancelled
<1> QED
  BY <1>1, <1>2, <1>3, <1>4, UnmovedStep

LEMMA ResumeStep ==
  ASSUME ConvIInv, Resume PROVE ConvIInv' /\ Kept
<1>1. /\ stage = "idle" /\ messages' = log /\ compacted' = FALSE /\ cancel' = FALSE
      /\ cancel_token' = FALSE /\ swapped' = FALSE /\ late' = 0 /\ over' \in BOOLEAN
      /\ UNCHANGED <<stage, log, turns, queued, iteration, batch, tool, outcome, torn>>
  BY OldOutcome DEF Resume, turnVars, cancelVars
<1>2. messages' \in Seq(Messages) /\ log' \in Seq(Messages)
  BY <1>1 DEF ConvIInv, TypeOK
<1>3. NoOrphanResult' /\ MemoryIsTailOfLog'
  BY <1>1 DEF ConvIInv, NoOrphanResult, MemoryIsTailOfLog
<1>4. AnsweredSoFar'
  BY <1>1 DEF ConvIInv, AnsweredSoFar, WaitsInBatchOnly, Unanswered
<1>5. Scalars'
  BY <1>1, ScalarsHold DEF Scalars, WithinLimit
<1>6. InBatch' /\ NoCallAfterCancel'
  BY <1>1 DEF InBatch, Batching, NoCallAfterCancel
<1>7. ConvIInv'
  BY <1>2, <1>3, <1>4, <1>5, <1>6 DEF ConvIInv, TypeOK, Scalars
<1> QED
  BY <1>1, <1>7 DEF Kept

-----------------------------------------------------------------------------
(* The theorem *)

LEMMA ConvStart ==
  ASSUME PartInit PROVE ConvIInv
<1>1. Init
  BY DEF PartInit
<1>2. TypeOK
  <2>1. stage \in Stages /\ outcome \in Outcomes
    BY <1>1 DEF Init, Stages, Outcomes
  <2>2. messages \in Seq(Messages) /\ log \in Seq(Messages)
    BY <1>1 DEF Init
  <2>3. /\ turns \in 0 .. MaxTurns /\ queued \in 0 .. MaxTurns - turns
        /\ iteration \in 0 .. MaxIterations + 1
        /\ batch \in 0 .. MaxBatch /\ tool \in 0 .. MaxBatch + 1 /\ late \in Nat
    BY <1>1, RuntimeAssumption DEF Init
  <2> QED
    BY <1>1, <2>1, <2>2, <2>3 DEF Init, TypeOK
<1>3. InBatch /\ WithinLimit /\ NoCallAfterCancel
  BY <1>1, RuntimeAssumption DEF Init, InBatch, Batching, WithinLimit, NoCallAfterCancel
<1>4. messages = <<>> /\ log = <<>> /\ ~compacted
  BY <1>1 DEF Init
<1>5. NoOrphanResult /\ AnsweredSoFar /\ MemoryIsTailOfLog
  BY <1>4 DEF NoOrphanResult, Paired, AnsweredSoFar, WaitsInBatchOnly, MemoryIsTailOfLog
<1> QED
  BY <1>2, <1>3, <1>5 DEF ConvIInv

LEMMA ConvStays ==
  ASSUME ConvIInv, UNCHANGED vars PROVE ConvIInv'
<1>1. UNCHANGED <<stage, messages, log, compacted, over, turns, iteration, batch, tool, cancel,
                  cancel_token, swapped, queued,
                  outcome, torn, late>>
  BY DEF vars, turnVars, cancelVars
<1>2. Scalars'
  BY <1>1, ScalarsHold DEF Scalars, WithinLimit
<1>3. InBatch' /\ NoCallAfterCancel'
  BY <1>1, SameBatch DEF ConvIInv, NoCallAfterCancel, Cancelled
<1> QED
  BY <1>1, <1>2, <1>3, UnmovedStep

LEMMA ConvNext ==
  ASSUME ConvIInv, Next PROVE ConvIInv' /\ Kept
<1>1. CASE TurnBegin
  BY <1>1, TurnBeginStep
<1>2. CASE HealthProbe
  BY <1>2, HealthProbeStep
<1>3. CASE PushUser
  BY <1>3, PushUserStep
<1>4. CASE LoopHead
  BY <1>4, LoopHeadStep
<1>5. CASE StreamFails
  BY <1>5, StreamFailsStep
<1>6. CASE \E b \in 0 .. MaxBatch : AssistantAnswers(b)
  BY <1>6, AssistantAnswersStep
<1>7. CASE PreHook \/ Authorize \/ ExecuteTool \/ PostHook
  BY <1>7, ToolStep
<1>8. CASE PushResult
  BY <1>8, PushResultStep
<1>9. CASE Finish
  BY <1>9, FinishStep
<1>10. CASE Panic
  BY <1>10, PanicStep
<1>11. CASE Cancel
  BY <1>11, CancelStep
<1>12. CASE Resume
  BY <1>12, ResumeStep
<1>13. CASE QueueTurn
  BY <1>13, QueueTurnStep
<1> QED
  BY <1>1, <1>2, <1>3, <1>4, <1>5, <1>6, <1>7, <1>8, <1>9, <1>10, <1>11, <1>12, <1>13, Zenon
     DEF Next, Turn

LEMMA ConvAnyStep ==
  ASSUME ConvIInv, [PartNext]_partVars PROVE ConvIInv' /\ [Kept]_vars
<1>1. Next \/ UNCHANGED vars
  BY Zenon DEF PartNext, partVars
<1>2. CASE Next
  BY <1>2, ConvNext
<1>3. CASE UNCHANGED vars
  BY <1>3, ConvStays
<1> QED
  BY <1>1, <1>2, <1>3

LEMMA ConvMeans ==
  ASSUME ConvIInv PROVE TypeOK /\ NoOrphanResult /\ BatchesAnswered /\ MemoryIsTailOfLog
                        /\ CancelStopsTheLoop
<1>1. TypeOK /\ NoOrphanResult /\ MemoryIsTailOfLog
  BY DEF ConvIInv
<1>2. BatchesAnswered
  <2>1. ASSUME stage = "idle", ~torn, NEW i \in DOMAIN messages PROVE ~Unanswered(messages, i)
    <3>1. WaitsInBatchOnly(messages) /\ stage \notin Batching
      BY <2>1 DEF ConvIInv, AnsweredSoFar, Batching
    <3> QED
      BY <3>1 DEF WaitsInBatchOnly
  <2> QED
    BY <2>1 DEF BatchesAnswered
<1>3. CancelStopsTheLoop
  BY DEF ConvIInv, NoCallAfterCancel, CancelStopsTheLoop
<1> QED
  BY <1>1, <1>2, <1>3

\* run_turn, its failures and auto-compaction (runtime/conversation.rs, compact.rs): no
\* tool result ever stands without its tool use, in memory or in the session file;
\* a turn that is over has answered every tool use unless an append failed or a
\* panic cut it; memory is the file, or a summary and the end of the file;
\* compaction keeps the recent messages as they are; while a cancel is in force
\* at most the call in flight adds an answer.
THEOREM TranscriptSurvives == PartSpec => ConversationSound
<1>1. PartInit => ConvIInv
  BY ConvStart
<1>2. ConvIInv /\ [PartNext]_partVars => ConvIInv' /\ [Kept]_vars
  BY ConvAnyStep
<1>3. ConvIInv => /\ TypeOK /\ NoOrphanResult /\ BatchesAnswered /\ MemoryIsTailOfLog
                  /\ CancelStopsTheLoop
  BY ConvMeans
<1>4. PartSpec => [][Kept]_vars
  BY <1>1, <1>2, PTL DEF PartSpec
<1>5. PartSpec => RecentMessagesKept
  BY <1>4 DEF RecentMessagesKept, Kept
<1> QED
  BY <1>1, <1>2, <1>3, <1>5, PTL DEF PartSpec, ConversationSound
=============================================================================
