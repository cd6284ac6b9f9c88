----------------------- MODULE UpstreamServiceProofs -----------------------
(* Proofs that the work cache keeps its accounts for every cache size, every *)
(* width of the counter and any number of calls in flight.                   *)
EXTENDS UpstreamService, SequenceTheorems, DataTheorems

(* Before the first block nothing is cached, asked for or counted. *)
QuietBeforeFirstBlock ==
  ~ allocated =>
    work_queue = <<>> /\ work_requests = 0 /\ calls = [a \in Age |-> 0]

UpstreamInv ==
  /\ UpstreamTypeOK
  /\ QuietBeforeFirstBlock
  /\ CounterBalanced
  /\ CacheConserved

(* The counter is a guint: wrapping, facts of DataTheorems restated for Wrap. *)
LEMMA WrapFacts ==
  /\ \A x \in Int : Wrap(x) \in 0 .. UintMod - 1
  /\ \A x \in 0 .. UintMod - 1 : Wrap(x) = x
  /\ \A x, y \in Int : Wrap(Wrap(x) + y) = Wrap(x + y)
  <1>1. UintMod \in Nat \ {0}
    BY UpstreamAssumption
  <1>2. \A x, y \in Int : ((x % UintMod) + y) % UintMod = (x + y) % UintMod
    BY <1>1, ModAdd, Zenon
  <1> QED
    BY <1>1, <1>2, DivMod, ModSmall DEF Wrap

(* What one run of fill_work_queue does to a cache that is not above its     *)
(* size: it asks for exactly the difference and brings the sum to the size.  *)
LEMMA FillLemma ==
  ASSUME NEW q \in Seq(Age), NEW r \in 0 .. UintMod - 1,
         NEW c \in [Age -> Nat],
         Wrap(r + Len(q)) <= WorkQueueMin,
         FillWorkQueue(q, r, c)
  PROVE  /\ work_queue' = q
         /\ work_requests' \in 0 .. UintMod - 1
         /\ calls' \in [Age -> Nat]
         /\ calls'["fresh"] = c["fresh"] + WorkQueueMin - Wrap(r + Len(q))
         /\ calls'["late"] = c["late"]
         /\ Wrap(work_requests' + Len(work_queue')) = WorkQueueMin
  <1> DEFINE len == Len(q)
             have == Wrap(r + len)
             asked == WorkQueueMin - have
  <1>0. UintMod \in Nat \ {0} /\ WorkQueueMin \in 0 .. UintMod - 1
    BY UpstreamAssumption
  <1>1. len \in Nat /\ r \in Int /\ r + len \in Int
    BY <1>0, LenProperties
  <1> HIDE DEF len
  <1>2. have \in 0 .. UintMod - 1
    BY <1>1, WrapFacts DEF have
  <1>3. have <= WorkQueueMin
    BY DEF len
  <1> HIDE DEF have
  <1>4. asked \in Nat /\ have + asked = WorkQueueMin
    BY <1>0, <1>2, <1>3
  <1>5. Shortfall(r, len) = asked
    BY <1>0, <1>2, <1>3 DEF Shortfall, have
  <1>6. /\ work_queue' = q
        /\ work_requests' = Wrap(r + asked)
        /\ calls' = [c EXCEPT !["fresh"] = @ + asked]
    BY <1>5 DEF FillWorkQueue, len
  <1> HIDE DEF asked
  <1>7. work_requests' \in 0 .. UintMod - 1
    BY <1>1, <1>4, <1>6, WrapFacts
  <1>8. Wrap(work_requests' + len) = WorkQueueMin
    <2>1. Wrap(Wrap(r + asked) + len) = Wrap((r + asked) + len)
      BY <1>1, <1>4, WrapFacts
    <2>2. Wrap(have + asked) = Wrap((r + len) + asked)
      BY <1>1, <1>4, WrapFacts DEF have
    <2>3. (r + asked) + len = (r + len) + asked
      BY <1>1, <1>4
    <2>4. Wrap(WorkQueueMin) = WorkQueueMin
      BY <1>0, WrapFacts
    <2> QED
      BY <1>4, <1>6, <2>1, <2>2, <2>3, <2>4
  <1>9. /\ calls' \in [Age -> Nat]
        /\ calls'["fresh"] = c["fresh"] + asked
        /\ calls'["late"] = c["late"]
    BY <1>4, <1>6 DEF Age
  <1> QED
    BY <1>6, <1>7, <1>8, <1>9, <1>4 DEF len, have, asked

(* Before the first block the cache asks for nothing, so no call can be      *)
(* answered or fail.                                                         *)
LEMMA UpstreamInitInv == UpstreamInit => UpstreamInv
  <1> SUFFICES ASSUME UpstreamInit PROVE UpstreamInv
    OBVIOUS
  <1> USE DEF UpstreamInit
  <1>1. UpstreamTypeOK
    <2>1. 0 \in 0 .. UintMod - 1
      BY UpstreamAssumption
    <2>2. <<>> \in Seq(Age) /\ [a \in Age |-> 0] \in [Age -> Nat]
      BY EmptySeq
    <2> QED
      BY <2>1, <2>2 DEF UpstreamTypeOK
  <1>2. QuietBeforeFirstBlock /\ CounterBalanced /\ CacheConserved
    BY DEF QuietBeforeFirstBlock, CounterBalanced, CacheConserved
  <1> QED
    BY <1>1, <1>2 DEF UpstreamInv

LEMMA UpstreamStepInv == UpstreamInv /\ [UpstreamNext]_upstreamVars => UpstreamInv'
  <1> SUFFICES ASSUME UpstreamInv, [UpstreamNext]_upstreamVars
               PROVE  UpstreamInv'
    OBVIOUS
  <1> USE DEF UpstreamInv
  <1>a. /\ UintMod \in Nat \ {0} /\ WorkQueueMin \in 0 .. UintMod - 1
        /\ work_queue \in Seq(Age) /\ Len(work_queue) \in Nat
        /\ work_requests \in 0 .. UintMod - 1
        /\ calls \in [Age -> Nat] /\ failed \in Nat /\ late_answered \in Nat
        /\ calls["fresh"] \in Nat /\ calls["late"] \in Nat
    BY UpstreamAssumption, LenProperties DEF UpstreamTypeOK, Age
  <1>1. CASE UpstreamNewBlock
    <2> DEFINE c == [fresh |-> 0, late |-> calls["late"] + calls["fresh"]]
    <2>1. <<>> \in Seq(Age) /\ Len(<<>>) = 0 /\ c \in [Age -> Nat]
      BY <1>a DEF Age
    <2>2. Wrap(0 + Len(<<>>)) = 0
      BY <1>a, <2>1, WrapFacts
    <2>3. FillWorkQueue(<<>>, 0, c)
      BY <1>1 DEF UpstreamNewBlock
    <2>4. /\ work_queue' = <<>>
          /\ work_requests' \in 0 .. UintMod - 1
          /\ calls' \in [Age -> Nat]
          /\ calls'["fresh"] = c["fresh"] + WorkQueueMin - 0
          /\ Wrap(work_requests' + Len(work_queue')) = WorkQueueMin
      <3> HIDE DEF c
      <3>1. Wrap(0 + Len(<<>>)) <= WorkQueueMin /\ 0 \in 0 .. UintMod - 1
        BY <1>a, <2>2
      <3> QED
        BY <2>1, <2>2, <2>3, <3>1, FillLemma
    <2> QED
      BY <1>a, <1>1, <2>1, <2>4
      DEF UpstreamNewBlock, UpstreamTypeOK, QuietBeforeFirstBlock,
          CounterBalanced, CacheConserved
  <1>2. ASSUME NEW age \in Age, GetworkAnswered(age)
        PROVE  UpstreamInv'
    <2> DEFINE q == <<age>> \o work_queue
               r == Wrap(work_requests - 1)
               c == [calls EXCEPT ![age] = @ - 1]
    <2>1. allocated
      BY <1>2, <1>a DEF GetworkAnswered, QuietBeforeFirstBlock, Age
    <2>2. q \in Seq(Age) /\ Len(q) = Len(work_queue) + 1
      BY <1>a
    <2>3. r \in 0 .. UintMod - 1
      <3>1. work_requests - 1 \in Int
        BY <1>a
      <3> QED
        BY <3>1, WrapFacts
    <2>4. c \in [Age -> Nat]
          /\ c["fresh"] = IF age = "fresh" THEN calls["fresh"] - 1
                                           ELSE calls["fresh"]
      BY <1>2, <1>a DEF GetworkAnswered, Age
    <2>5. Wrap(r + Len(q)) = WorkQueueMin
      <3>1. Wrap(r + Len(q)) = Wrap((work_requests - 1) + Len(q))
        BY <1>a, <2>2, WrapFacts
      <3>2. (work_requests - 1) + Len(q) = work_requests + Len(work_queue)
        BY <1>a, <2>2
      <3> QED
        BY <2>1, <3>1, <3>2 DEF CounterBalanced
    <2>6. FillWorkQueue(q, r, c)
      BY <1>2 DEF GetworkAnswered
    <2> HIDE DEF q, r, c
    <2>7. /\ work_queue' = q
          /\ work_requests' \in 0 .. UintMod - 1
          /\ calls' \in [Age -> Nat]
          /\ calls'["fresh"] = c["fresh"] + WorkQueueMin - WorkQueueMin
          /\ Wrap(work_requests' + Len(work_queue')) = WorkQueueMin
      <3>1. Wrap(r + Len(q)) <= WorkQueueMin
        BY <1>a, <2>5
      <3> QED
        BY ONLY <2>2, <2>3, <2>4, <2>5, <2>6, <3>1, FillLemma
    <2>8. /\ late_answered' = IF age = "late" THEN late_answered + 1
                                              ELSE late_answered
          /\ allocated' = allocated /\ failed' = failed
      BY <1>2 DEF GetworkAnswered
    <2>9. UpstreamTypeOK' /\ QuietBeforeFirstBlock' /\ CounterBalanced'
      BY <1>a, <2>1, <2>2, <2>7, <2>8
      DEF UpstreamTypeOK, QuietBeforeFirstBlock, CounterBalanced
    <2>10. CacheConserved'
      <3>1. calls'["fresh"] = c["fresh"]
        <4>1. c["fresh"] \in Nat
          BY <2>4 DEF Age
        <4> QED
          BY <1>a, <2>7, <4>1
      <3>2. Len(work_queue') = Len(work_queue) + 1
        BY <2>2, <2>7
      <3>3. age = "fresh" \/ age = "late"
        BY <1>2 DEF Age
      <3>4. Len(work_queue) + calls["fresh"] + failed
              = WorkQueueMin + late_answered
        BY <2>1 DEF CacheConserved
      <3>5. Len(work_queue') + calls'["fresh"] + failed
              = WorkQueueMin + late_answered'
        <4>a. /\ Len(work_queue) \in Nat /\ calls["fresh"] \in Nat
              /\ failed \in Nat /\ late_answered \in Nat
              /\ WorkQueueMin \in Nat
          BY <1>a, UpstreamAssumption DEF UpstreamTypeOK, Age
        <4>1. CASE age = "fresh"
          <5>1. /\ calls'["fresh"] = calls["fresh"] - 1
                /\ late_answered' = late_answered
            BY <2>4, <2>8, <3>1, <4>1
          <5> QED
            BY ONLY <3>2, <3>4, <4>a, <5>1
        <4>2. CASE age = "late"
          <5>1. /\ calls'["fresh"] = calls["fresh"]
                /\ late_answered' = late_answered + 1
            BY <2>4, <2>8, <3>1, <4>2
          <5> QED
            BY ONLY <3>2, <3>4, <4>a, <5>1
        <4> QED
          BY <3>3, <4>1, <4>2
      <3> QED
        BY <2>8, <3>5 DEF CacheConserved
    <2> QED
      BY <2>9, <2>10
  <1>3. ASSUME NEW age \in Age, GetworkFailed(age)
        PROVE  UpstreamInv'
    <2>1. allocated
      BY <1>3, <1>a DEF GetworkFailed, QuietBeforeFirstBlock, Age
    <2>2. UpstreamTypeOK'
      BY <1>3, <1>a DEF GetworkFailed, UpstreamTypeOK, Age
    <2>3. QuietBeforeFirstBlock' /\ CounterBalanced'
      BY <1>3, <2>1
      DEF GetworkFailed, QuietBeforeFirstBlock, CounterBalanced
    <2>4. CacheConserved'
      BY <1>3, <1>a, <2>1 DEF GetworkFailed, CacheConserved, Age
    <2> QED
      BY <2>2, <2>3, <2>4
  <1>4. CASE GetWork
    <2> DEFINE q == Tail(work_queue)
    <2>1. allocated /\ work_queue # <<>>
      BY <1>4 DEF GetWork, HasWork, QuietBeforeFirstBlock
    <2>2. q \in Seq(Age) /\ Len(q) = Len(work_queue) - 1
          /\ Len(q) \in Nat
      BY <1>a, <2>1, LenProperties, HeadTailProperties
    <2>3. Wrap(work_requests + Len(q)) = WorkQueueMin - 1
      <3>1. Wrap(Wrap(work_requests + Len(work_queue)) + (-1))
              = Wrap(work_requests + Len(work_queue) + (-1))
        BY <1>a, WrapFacts
      <3>2. Wrap(WorkQueueMin - 1) = WorkQueueMin - 1
        BY <1>a, UpstreamAssumption, WrapFacts
      <3>3. work_requests + Len(work_queue) + (-1)
              = work_requests + Len(q)
        BY <1>a, <2>2
      <3> QED
        BY <1>a, <2>1, <3>1, <3>2, <3>3 DEF CounterBalanced
    <2>4. FillWorkQueue(q, work_requests, calls)
      BY <1>4 DEF GetWork
    <2> HIDE DEF q
    <2>5. /\ work_queue' = q
          /\ work_requests' \in 0 .. UintMod - 1
          /\ calls' \in [Age -> Nat]
          /\ calls'["fresh"]
               = calls["fresh"] + WorkQueueMin - (WorkQueueMin - 1)
          /\ Wrap(work_requests' + Len(work_queue')) = WorkQueueMin
      <3>1. Wrap(work_requests + Len(q)) <= WorkQueueMin
        BY <1>a, <2>3
      <3>2. /\ work_requests \in 0 .. UintMod - 1
            /\ calls \in [Age -> Nat]
        BY <1>a
      <3> QED
        BY ONLY <2>2, <2>3, <2>4, <3>1, <3>2, FillLemma
    <2>6. UNCHANGED <<allocated, failed, late_answered>>
      BY <1>4 DEF GetWork
    <2>7. UpstreamTypeOK' /\ QuietBeforeFirstBlock' /\ CounterBalanced'
      BY <1>a, <2>1, <2>2, <2>5, <2>6
      DEF UpstreamTypeOK, QuietBeforeFirstBlock, CounterBalanced
    <2>8. CacheConserved'
      <3>1. calls'["fresh"] = calls["fresh"] + 1
        BY <1>a, <2>5
      <3>2. Len(work_queue') = Len(work_queue) - 1
        BY <2>2, <2>5
      <3>3. Len(work_queue) + calls["fresh"] + failed
              = WorkQueueMin + late_answered
        BY <2>1 DEF CacheConserved
      <3>4. Len(work_queue') + calls'["fresh"] + failed
              = WorkQueueMin + late_answered
        BY <1>a, <3>1, <3>2, <3>3
      <3> QED
        BY <2>6, <3>4 DEF CacheConserved
    <2> QED
      BY <2>7, <2>8
  <1>5. CASE UNCHANGED upstreamVars
    BY <1>5
    DEF upstreamVars, UpstreamTypeOK, QuietBeforeFirstBlock, CounterBalanced,
        CacheConserved
  <1> QED
    BY <1>1, <1>2, <1>3, <1>4, <1>5 DEF UpstreamNext

LEMMA UpstreamInvariant == UpstreamSpec => []UpstreamInv
  BY UpstreamInitInv, UpstreamStepInv, PTL DEF UpstreamSpec

(* Type correctness of the cache, its counter and its calls. *)
THEOREM UpstreamTypes == UpstreamSpec => []UpstreamTypeOK
  <1>1. UpstreamInv => UpstreamTypeOK
    BY DEF UpstreamInv
  <1> QED
    BY <1>1, UpstreamInvariant, PTL

(* The unsigned sum in the guard of fill_work_queue is always the configured *)
(* cache size, for every width of the counter above that size.               *)
THEOREM CounterIsBalanced == UpstreamSpec => []CounterBalanced
  <1>1. UpstreamInv => CounterBalanced
    BY DEF UpstreamInv
  <1> QED
    BY <1>1, UpstreamInvariant, PTL

(* Items held, calls made and calls failed for this block always add up to   *)
(* the cache size and the late answers.                                      *)
THEOREM CacheIsConserved == UpstreamSpec => []CacheConserved
  <1>1. UpstreamInv => CacheConserved
    BY DEF UpstreamInv
  <1> QED
    BY <1>1, UpstreamInvariant, PTL
=============================================================================
