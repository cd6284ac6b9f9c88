------------------------- MODULE RoundManagerProofs -------------------------
(* Proofs that the round file keeps every entry logged, in order, for any    *)
(* number of shares, blocks, faults and restarts.                            *)
EXTENDS RoundManager, SequenceTheorems, TLAPS

Loggers == LoggersOver(Entry, Block)

(* What a logger still has to write. *)
Unwritten(l) == l.write_all_string \o l.queue

(* The stream is flushed for a copy only. *)
FlushIsForCopy(l) == l.pending = "flush" => l.async_result # NoCopy

RoundInv ==
  /\ RoundTypeOK
  /\ FlushIsForCopy(logger)
  /\ LogConserved

-----------------------------------------------------------------------------
(* Concatenation, for sequences of entries.                                  *)

LEMMA EntriesAssociative ==
  \A s, t, u \in Seq(Entry) : (s \o t) \o u = s \o (t \o u)
  <1> TAKE s, t, u \in Seq(Entry)
  <1> HIDE DEF Entry
  <1> QED
    BY ConcatAssociative

LEMMA TakenTogether ==
  ASSUME NEW d \in Seq(Entry), NEW r \in Seq(Entry), NEW q \in Seq(Entry)
  PROVE  d \o (r \o q) = (d \o r) \o q
  BY EntriesAssociative

-----------------------------------------------------------------------------
(* The operators of FileLogger.                                              *)

LEMMA LoggerFields ==
  ASSUME NEW l \in Loggers
  PROVE  /\ l.queue \in Seq(Entry)
         /\ l.write_all_string \in Seq(Entry)
         /\ Unwritten(l) \in Seq(Entry)
         /\ l.async_result \in Block \union {NoCopy}
  <1>1. l.queue \in Seq(Entry) /\ l.write_all_string \in Seq(Entry)
        /\ l.async_result \in Block \union {NoCopy}
    BY DEF Loggers, LoggersOver
  <1> QED
    BY <1>1, ConcatProperties DEF Unwritten

(* write_all moves entries from the queue to the string and nowhere else. *)
LEMMA WriteAllFacts ==
  ASSUME NEW l \in Loggers
  PROVE  /\ WriteAll(l) \in Loggers
         /\ Unwritten(WriteAll(l)) = Unwritten(l)
         /\ WriteAll(l).async_result = l.async_result
         /\ WriteAll(l).pending \in {l.pending, "write"}
  <1> DEFINE drained == IF Writable(l) THEN Drain(l) ELSE l
             started == [drained EXCEPT !.pending = "write"]
  <1>1. /\ Drain(l) \in Loggers
        /\ Drain(l).queue = <<>>
        /\ Drain(l).write_all_string = Unwritten(l)
        /\ Drain(l).async_result = l.async_result
        /\ Drain(l).pending = l.pending
    <2>1. Unwritten(l) \in Seq(Entry) /\ <<>> \in Seq(Entry)
      BY LoggerFields
    <2> QED
      BY <2>1 DEF Loggers, LoggersOver, Drain, Unwritten
  <1>2. Unwritten(Drain(l)) = Unwritten(l)
    BY <1>1, LoggerFields, ConcatEmptySeq DEF Unwritten
  <1>3. /\ drained \in Loggers
        /\ Unwritten(drained) = Unwritten(l)
        /\ drained.async_result = l.async_result
        /\ drained.pending = l.pending
    BY <1>1, <1>2
  <1> HIDE DEF drained
  <1>4. /\ started \in Loggers
        /\ started.queue = drained.queue
        /\ started.write_all_string = drained.write_all_string
        /\ started.async_result = drained.async_result
        /\ started.pending = "write"
    BY <1>3 DEF Loggers, LoggersOver
  <1>5. Unwritten(started) = Unwritten(l)
    BY <1>3, <1>4 DEF Unwritten
  <1>6. WriteAll(l) \in {l, drained, started}
    BY DEF WriteAll, drained
  <1> HIDE DEF started
  <1> QED
    BY <1>3, <1>4, <1>5, <1>6

LEMMA LogFacts ==
  ASSUME NEW l \in Loggers, NEW entry \in Entry
  PROVE  /\ Log(l, entry) \in Loggers
         /\ Unwritten(Log(l, entry)) = Append(Unwritten(l), entry)
         /\ Log(l, entry).async_result = l.async_result
         /\ Log(l, entry).pending \in {l.pending, "write"}
  <1> DEFINE queued == [l EXCEPT !.queue = Append(@, entry)]
  <1>1. Append(l.queue, entry) \in Seq(Entry)
    BY LoggerFields, AppendProperties
  <1>2. /\ queued \in Loggers
        /\ queued.queue = Append(l.queue, entry)
        /\ queued.write_all_string = l.write_all_string
        /\ queued.async_result = l.async_result
        /\ queued.pending = l.pending
    BY <1>1 DEF Loggers, LoggersOver
  <1>3. Unwritten(queued) = Append(Unwritten(l), entry)
    <2>1. <<entry>> \in Seq(Entry)
      OBVIOUS
    <2>2. Append(l.queue, entry) = l.queue \o <<entry>>
          /\ Append(Unwritten(l), entry) = Unwritten(l) \o <<entry>>
      BY LoggerFields, AppendIsConcat
    <2>3. (l.write_all_string \o l.queue) \o <<entry>>
            = l.write_all_string \o (l.queue \o <<entry>>)
      BY <2>1, LoggerFields, EntriesAssociative, Zenon
    <2> QED
      BY <1>2, <2>2, <2>3 DEF Unwritten
  <1>4. Log(l, entry) \in {queued, WriteAll(queued)}
    BY DEF Log
  <1> HIDE DEF queued
  <1> QED
    BY <1>2, <1>3, <1>4, WriteAllFacts

(* Closing a round moves entries, if at all, from the queue to the string.   *)
LEMMA CopyAndTruncateFacts ==
  ASSUME NEW l \in Loggers, NEW b \in Block, FlushIsForCopy(l)
  PROVE  /\ CopyAndTruncate(l, b) \in Loggers
         /\ Unwritten(CopyAndTruncate(l, b)) = Unwritten(l)
         /\ FlushIsForCopy(CopyAndTruncate(l, b))
  <1> DEFINE frozen == Freeze(l)
             asked == [frozen EXCEPT !.async_result = b]
             waiting == [asked EXCEPT !.flushing = TRUE]
             ready == [asked EXCEPT !.flushing = FALSE]
  <1>1. b # NoCopy
    BY NoCopyIsNoBlock
  <1>2. /\ frozen \in Loggers
        /\ Unwritten(frozen) = Unwritten(l)
        /\ FlushIsForCopy(frozen)
    BY DEF Freeze, Loggers, LoggersOver, Unwritten, FlushIsForCopy
  <1>3. /\ waiting \in Loggers
        /\ Unwritten(waiting) = Unwritten(l)
        /\ waiting.async_result = b
    BY DEF Freeze, Loggers, LoggersOver, Unwritten
  <1>4. /\ ready \in Loggers
        /\ Unwritten(ready) = Unwritten(l)
        /\ ready.async_result = b
    BY DEF Freeze, Loggers, LoggersOver, Unwritten
  <1>5. CopyAndTruncate(l, b) \in {l, frozen, waiting, WriteAll(ready)}
    BY DEF CopyAndTruncate, Flush
  <1> HIDE DEF frozen, waiting, ready
  <1>6. /\ WriteAll(ready) \in Loggers
        /\ Unwritten(WriteAll(ready)) = Unwritten(l)
        /\ WriteAll(ready).async_result = b
    BY <1>4, WriteAllFacts
  <1> QED
    BY <1>1, <1>2, <1>3, <1>5, <1>6 DEF FlushIsForCopy

(* A thawed logger has what it had. *)
LEMMA ThawFacts ==
  ASSUME NEW l \in Loggers, FlushIsForCopy(l)
  PROVE  /\ Thaw(l) \in Loggers
         /\ Unwritten(Thaw(l)) = Unwritten(l)
         /\ FlushIsForCopy(Thaw(l))
  <1> DEFINE thawed == [l EXCEPT !.frozen = FALSE]
  <1>1. /\ thawed \in Loggers
        /\ Unwritten(thawed) = Unwritten(l)
        /\ thawed.async_result = l.async_result
        /\ thawed.pending = l.pending
    BY DEF Loggers, LoggersOver, Unwritten
  <1> HIDE DEF thawed
  <1>2. Thaw(l) = WriteAll(thawed)
    BY DEF Thaw, thawed
  <1> QED
    BY <1>1, <1>2, WriteAllFacts DEF FlushIsForCopy

(* A write of n entries takes just those off what is to be written. *)
LEMMA WrittenFacts ==
  ASSUME NEW l \in Loggers, NEW n \in 0 .. Len(l.write_all_string)
  PROVE  /\ Written(l, n) \in Loggers
         /\ SubSeq(l.write_all_string, 1, n) \in Seq(Entry)
         /\ SubSeq(l.write_all_string, 1, n) \o Unwritten(Written(l, n))
              = Unwritten(l)
         /\ FlushIsForCopy(Written(l, n))
  <1> DEFINE string == l.write_all_string
             done == SubSeq(string, 1, n)
             rest == SubSeq(string, n + 1, Len(string))
             erased == Erased(l, n)
             ended == [erased EXCEPT !.flushing = FALSE]
             flushing == [ended EXCEPT !.pending = "flush"]
  <1>1. string \in Seq(Entry) /\ l.queue \in Seq(Entry) /\ Len(string) \in Nat
    BY LoggerFields, LenProperties
  <1>2. done \in Seq(Entry) /\ rest \in Seq(Entry) /\ done \o rest = string
    <2>1. done \o rest = SubSeq(string, 1, Len(string))
      BY <1>1, ConcatAdjacentSubSeq, 1 \in 1 .. Len(string) + 1,
         n \in 1 - 1 .. Len(string), Len(string) \in n .. Len(string)
    <2>2. SubSeq(string, 1, Len(string)) = string
      BY <1>1, SubSeqFull
    <2>3. \A i \in 1 .. Len(string) : string[i] \in Entry
      BY <1>1, ElementOfSeq
    <2>4. done \in Seq(Entry)
      BY <1>1, <2>3, SubSeqProperties
    <2>5. rest \in Seq(Entry)
      BY <1>1, <2>3, SubSeqProperties
    <2> QED
      BY <2>1, <2>2, <2>4, <2>5
  <1>b. /\ erased \in Loggers
        /\ erased.write_all_string = rest
        /\ erased.queue = l.queue
        /\ erased.async_result = l.async_result
        /\ erased.pending = "none"
    BY <1>2 DEF Erased, Loggers, LoggersOver
  <1> HIDE DEF erased, done, rest, string
  <1>3. /\ ended \in Loggers
        /\ ended.write_all_string = rest
        /\ ended.queue = l.queue
        /\ ended.async_result = l.async_result
        /\ ended.pending = "none"
    BY <1>b DEF Loggers, LoggersOver
  <1> HIDE DEF ended
  <1>4. /\ flushing \in Loggers
        /\ flushing.write_all_string = rest
        /\ flushing.queue = l.queue
        /\ flushing.async_result = l.async_result
    BY <1>3 DEF Loggers, LoggersOver
  <1>5. done \o (rest \o l.queue) = string \o l.queue
    <2>1. done \in Seq(Entry) /\ rest \in Seq(Entry) /\ l.queue \in Seq(Entry)
      BY ONLY <1>1, <1>2
    <2>2. done \o (rest \o l.queue) = (done \o rest) \o l.queue
      BY ONLY <2>1, TakenTogether, ZenonT(60)
    <2>3. done \o rest = string
      BY ONLY <1>2
    <2> QED
      BY ONLY <2>2, <2>3, Zenon
  <1>6. \/ Written(l, n) = flushing /\ l.async_result # NoCopy
        \/ Written(l, n) = WriteAll(ended)
    BY DEF Written, ended, erased
  <1> HIDE DEF flushing
  <1>7. /\ WriteAll(ended) \in Loggers
        /\ Unwritten(WriteAll(ended)) = rest \o l.queue
        /\ WriteAll(ended).pending \in {"none", "write"}
    BY <1>3, WriteAllFacts DEF Unwritten
  <1>8. Unwritten(flushing) = rest \o l.queue
    BY <1>4 DEF Unwritten
  <1>9. /\ Written(l, n) \in Loggers
        /\ Unwritten(Written(l, n)) = rest \o l.queue
        /\ FlushIsForCopy(Written(l, n))
    BY <1>4, <1>6, <1>7, <1>8 DEF FlushIsForCopy
  <1>10. done \o Unwritten(Written(l, n)) = Unwritten(l)
    BY <1>5, <1>9 DEF Unwritten, string
  <1> QED
    BY <1>2, <1>9, <1>10 DEF done, string

(* What is logged. *)
LEMMA EntryKinds ==
  /\ Started \in Entry
  /\ Resumed \in Entry
  /\ \A i \in 1 .. MaxShares : Share(i) \in Entry
  /\ \A b \in Block : BlockEntry(b) \in Entry
  BY DEF Entry

(* A logger just opened has nothing to write but the entry it is given. *)
LEMMA OpenLoggerFacts ==
  ASSUME NEW exists \in BOOLEAN
  PROVE  LET first == IF exists THEN Resumed ELSE Started
         IN  /\ first \in Entry
             /\ OpenLogger(exists) \in Loggers
             /\ Unwritten(OpenLogger(exists)) = <<first>>
             /\ FlushIsForCopy(OpenLogger(exists))
  <1> DEFINE new == NewLogger(exists)
             first == IF exists THEN Resumed ELSE Started
  <1>1. /\ new \in Loggers
        /\ Unwritten(new) = <<>>
        /\ new.pending = "none"
    BY DEF NewLogger, Loggers, LoggersOver, Unwritten
  <1>2. first \in Entry
    BY EntryKinds
  <1>3. OpenLogger(exists) = Log(new, first)
    BY DEF OpenLogger
  <1> HIDE DEF new, first
  <1>4. /\ Log(new, first) \in Loggers
        /\ Unwritten(Log(new, first)) = Append(<<>>, first)
        /\ Log(new, first).pending \in {"none", "write"}
    BY <1>1, <1>2, LogFacts
  <1> QED
    BY <1>2, <1>3, <1>4 DEF FlushIsForCopy, first

-----------------------------------------------------------------------------
(* The invariant.                                                            *)

(* LogConserved says the same of the strings in the file and of the rest. *)
LEMMA ConservedAsUnwritten ==
  ASSUME NEW l \in Loggers, NEW f \in Seq(Entry), NEW t \in Seq(Entry)
  PROVE  /\ t \o f \in Seq(Entry)
         /\ t \o f \o l.write_all_string \o l.queue = (t \o f) \o Unwritten(l)
  <1>1. t \o f \in Seq(Entry)
    BY ConcatProperties
  <1>2. l.write_all_string \in Seq(Entry) /\ l.queue \in Seq(Entry)
    BY LoggerFields
  <1> HIDE DEF Entry
  <1>3. (t \o f) \o l.write_all_string \o l.queue
          = (t \o f) \o (l.write_all_string \o l.queue)
    BY ONLY <1>1, <1>2, EntriesAssociative, Zenon
  <1> QED
    BY ONLY <1>1, <1>3 DEF Unwritten

(* An entry logged is one more to write. *)
LEMMA AppendUnwritten ==
  ASSUME NEW s \in Seq(Entry), NEW u \in Seq(Entry), NEW entry \in Entry
  PROVE  /\ Append(s \o u, entry) = s \o Append(u, entry)
         /\ Append(s \o u, entry) \in Seq(Entry)
  <1>1. <<entry>> \in Seq(Entry) /\ s \o u \in Seq(Entry)
    BY ConcatProperties
  <1>2. Append(s \o u, entry) = (s \o u) \o <<entry>>
        /\ Append(u, entry) = u \o <<entry>>
    BY <1>1, AppendIsConcat
  <1>3. (s \o u) \o <<entry>> = s \o (u \o <<entry>>)
    BY <1>1, EntriesAssociative
  <1>4. Append(s \o u, entry) \in Seq(Entry)
    BY <1>1, AppendProperties
  <1> QED
    BY <1>2, <1>3, <1>4

Faults == [write : 0 .. MaxWriteFaults, copy : 0 .. MaxCopyFaults,
           restart : 0 .. MaxRestarts, overlap : 0 .. MaxOverlaps]

LEMMA FaultsCounted ==
  ASSUME NEW f \in Faults
  PROVE  /\ f.write < MaxWriteFaults => [f EXCEPT !.write = @ + 1] \in Faults
         /\ f.copy < MaxCopyFaults => [f EXCEPT !.copy = @ + 1] \in Faults
         /\ f.restart < MaxRestarts => [f EXCEPT !.restart = @ + 1] \in Faults
         /\ f.overlap < MaxOverlaps => [f EXCEPT !.overlap = @ + 1] \in Faults
  <1>1. /\ f.write < MaxWriteFaults => f.write + 1 \in 0 .. MaxWriteFaults
        /\ f.copy < MaxCopyFaults => f.copy + 1 \in 0 .. MaxCopyFaults
        /\ f.restart < MaxRestarts => f.restart + 1 \in 0 .. MaxRestarts
        /\ f.overlap < MaxOverlaps => f.overlap + 1 \in 0 .. MaxOverlaps
    BY RoundManagerAssumption DEF Faults
  <1> QED
    BY <1>1 DEF Faults

LEMMA RoundInitInv == RoundInit => RoundInv
  <1> SUFFICES ASSUME RoundInit PROVE RoundInv
    OBVIOUS
  <1>1. PICK exists \in BOOLEAN :
          /\ logger = OpenLogger(exists)
          /\ logged = <<IF exists THEN Resumed ELSE Started>>
    BY DEF RoundInit
  <1> DEFINE first == IF exists THEN Resumed ELSE Started
  <1>2. /\ first \in Entry
        /\ logger \in Loggers
        /\ Unwritten(logger) = <<first>>
        /\ FlushIsForCopy(logger)
    BY <1>1, OpenLoggerFacts
  <1>3. logged = <<first>> /\ file = <<>> /\ truncated = <<>>
    BY <1>1 DEF RoundInit
  <1> HIDE DEF first
  <1>4. RoundTypeOK
    <2>1. <<first>> \in Seq(Entry)
      BY <1>2
    <2> QED
      BY <1>2, <1>3, <2>1, RoundManagerAssumption
      DEF RoundInit, RoundTypeOK, Loggers
  <1>5. LogConserved
    <2>1. <<>> \in Seq(Entry) /\ <<>> \o <<>> = <<>>
          /\ <<>> \o <<first>> = <<first>>
      BY <1>2
    <2>2. <<>> \o <<>> \o logger.write_all_string \o logger.queue
            = (<<>> \o <<>>) \o Unwritten(logger)
      BY <1>2, <2>1, ConservedAsUnwritten
    <2> QED
      BY <1>2, <1>3, <2>1, <2>2 DEF LogConserved
  <1> QED
    BY <1>2, <1>4, <1>5 DEF RoundInv

LEMMA RoundStepInv == RoundInv /\ [RoundNext]_roundVars => RoundInv'
  <1> SUFFICES ASSUME RoundInv, [RoundNext]_roundVars PROVE RoundInv'
    OBVIOUS
  <1>a. /\ logger \in Loggers
        /\ FlushIsForCopy(logger)
        /\ file \in Seq(Entry) /\ truncated \in Seq(Entry)
        /\ logged \in Seq(Entry)
        /\ truncated \o file \in Seq(Entry)
        /\ logged = (truncated \o file) \o Unwritten(logger)
        /\ Unwritten(logger) \in Seq(Entry)
    BY ConservedAsUnwritten, LoggerFields
    DEF RoundInv, RoundTypeOK, LogConserved, Loggers
  <1>b. /\ copies \in Seq([block : Block, content : Seq(Entry)])
        /\ timers \in SUBSET Block
        /\ shares \in 0 .. MaxShares /\ shares \in Nat
        /\ found \in 0 .. MaxBlocks /\ found \in Nat
        /\ faults \in Faults
        /\ quiet \in SUBSET Block
    BY DEF RoundInv, RoundTypeOK, Faults
  (* What is left to show of a step that has moved entries. *)
  <1>c. ASSUME logger' \in Loggers, FlushIsForCopy(logger'),
               file' \in Seq(Entry), truncated' \in Seq(Entry),
               logged' \in Seq(Entry),
               logged' = (truncated' \o file') \o Unwritten(logger'),
               copies' \in Seq([block : Block, content : Seq(Entry)]),
               timers' \in SUBSET Block,
               shares' \in 0 .. MaxShares, found' \in 0 .. MaxBlocks,
               faults' \in Faults,
               quiet' \in SUBSET Block
        PROVE  RoundInv'
    <2>1. RoundTypeOK'
      BY <1>c DEF RoundTypeOK, Loggers, Faults
    <2>2. LogConserved'
      <3>1. truncated' \o file' \o logger'.write_all_string \o logger'.queue
              = (truncated' \o file') \o Unwritten(logger')
        BY <1>c, ConservedAsUnwritten
      <3> QED
        BY <1>c, <3>1 DEF LogConserved
    <2> QED
      BY <1>c, <2>1, <2>2 DEF RoundInv
  (* Logging one entry. *)
  <1>d. ASSUME NEW entry \in Entry
        PROVE  /\ Append(logged, entry)
                    = (truncated \o file) \o Append(Unwritten(logger), entry)
               /\ Append(logged, entry) \in Seq(Entry)
    BY <1>a, AppendUnwritten
  <1>e. ASSUME NEW b \in Block
        PROVE  Append(copies, [block |-> b, content |-> file])
                 \in Seq([block : Block, content : Seq(Entry)])
    <2>1. [block |-> b, content |-> file] \in [block : Block, content : Seq(Entry)]
      BY <1>a
    <2> QED
      BY <1>b, <2>1, AppendProperties
  <1>1. CASE WorkValidated
    <2>1. Share(shares + 1) \in Entry /\ shares + 1 \in 0 .. MaxShares
      BY <1>1, <1>b, EntryKinds, RoundManagerAssumption DEF WorkValidated
    <2>2. /\ logger' = Log(logger, Share(shares + 1))
          /\ logged' = Append(logged, Share(shares + 1))
          /\ shares' = shares + 1
          /\ UNCHANGED <<file, copies, timers, found, faults, truncated, quiet>>
      BY <1>1 DEF WorkValidated
    <2>3. /\ logger' \in Loggers
          /\ Unwritten(logger') = Append(Unwritten(logger), Share(shares + 1))
          /\ FlushIsForCopy(logger')
      BY <1>a, <2>1, <2>2, LogFacts DEF FlushIsForCopy
    <2> QED
      BY <1>a, <1>b, <1>c, <1>d, <2>1, <2>2, <2>3
  <1>2. CASE BlockFound
    <2> DEFINE b == found + 1
               mid == Log(logger, BlockEntry(b))
    <2>1. b \in Block /\ b \in 0 .. MaxBlocks /\ BlockEntry(b) \in Entry
      <3>1. found \in Nat /\ found < MaxBlocks /\ MaxBlocks \in Nat
        BY <1>2, <1>b, RoundManagerAssumption DEF BlockFound
      <3>2. b \in 1 .. MaxBlocks /\ b \in 0 .. MaxBlocks
        BY ONLY <3>1
      <3> QED
        BY ONLY <3>2, EntryKinds DEF Block
    <2>2. /\ logger' = CopyAndTruncate(mid, b)
          /\ logged' = Append(logged, BlockEntry(b))
          /\ found' = b
          /\ quiet' \in {quiet, quiet \union {b}}
          /\ UNCHANGED <<file, copies, timers, shares, truncated>>
      BY <1>2 DEF BlockFound, CloseRound
    <2> HIDE DEF b
    <2>3. /\ mid \in Loggers
          /\ Unwritten(mid) = Append(Unwritten(logger), BlockEntry(b))
          /\ FlushIsForCopy(mid)
      BY <1>a, <2>1, LogFacts DEF FlushIsForCopy
    <2> HIDE DEF mid
    <2>4. /\ logger' \in Loggers
          /\ Unwritten(logger') = Append(Unwritten(logger), BlockEntry(b))
          /\ FlushIsForCopy(logger')
      BY <2>1, <2>2, <2>3, CopyAndTruncateFacts
    <2>5. quiet' \in SUBSET Block
      BY <1>b, <2>1, <2>2
    <2>6. faults' \in Faults
      <3>1. CASE faults' = faults
        BY <1>b, <3>1
      <3>2. CASE /\ faults' = [faults EXCEPT !.overlap = @ + 1]
                 /\ faults.overlap < MaxOverlaps
        BY <1>b, <3>2, FaultsCounted
      <3> QED
        BY <1>2, <3>1, <3>2 DEF BlockFound
    <2> QED
      BY <1>a, <1>b, <1>c, <1>d, <2>1, <2>2, <2>4, <2>5, <2>6
  <1>3. ASSUME NEW n \in 0 .. Len(logger.write_all_string), WriteCompletes(n)
        PROVE  RoundInv'
    <2> DEFINE done == SubSeq(logger.write_all_string, 1, n)
               rest == Unwritten(Written(logger, n))
    <2>1. /\ logger' = Written(logger, n)
          /\ file' = file \o done
          /\ UNCHANGED <<copies, timers, shares, found, logged, truncated, quiet>>
      BY <1>3 DEF WriteCompletes
    <2>2. faults' \in Faults
      <3>1. CASE faults' = faults
        BY <1>b, <3>1
      <3>2. CASE /\ faults' = [faults EXCEPT !.write = @ + 1]
                 /\ faults.write < MaxWriteFaults
        BY <1>b, <3>2, FaultsCounted
      <3> QED
        BY <1>3, <3>1, <3>2 DEF WriteCompletes
    <2>3. /\ Written(logger, n) \in Loggers
          /\ done \in Seq(Entry)
          /\ done \o rest = Unwritten(logger)
          /\ FlushIsForCopy(Written(logger, n))
      BY <1>a, WrittenFacts
    <2>4. rest \in Seq(Entry)
      BY <2>3, LoggerFields
    <2> HIDE DEF done, rest
    <2>5. file' \in Seq(Entry) /\ truncated' \in Seq(Entry)
      BY <1>a, <2>1, <2>3, ConcatProperties
    <2>6. logged' = (truncated' \o file') \o Unwritten(logger')
      <3>1. (truncated \o file) \o (done \o rest)
              = (truncated \o (file \o done)) \o rest
        <4>1. /\ truncated \in Seq(Entry) /\ file \in Seq(Entry)
              /\ done \in Seq(Entry) /\ rest \in Seq(Entry)
          BY <1>a, <2>3, <2>4
        <4>2. truncated \o file \in Seq(Entry)
          BY ONLY <4>1, ConcatProperties
        <4>3. (truncated \o file) \o (done \o rest)
                = ((truncated \o file) \o done) \o rest
          BY ONLY <4>1, <4>2, TakenTogether, ZenonT(60)
        <4>4. truncated \o (file \o done) = (truncated \o file) \o done
          BY ONLY <4>1, TakenTogether, ZenonT(60)
        <4> QED
          BY ONLY <4>3, <4>4, Zenon
      <3>2. logged' = (truncated \o file) \o (done \o rest)
        BY <1>a, <2>1, <2>3
      <3>3. Unwritten(logger') = rest
        BY <2>1 DEF rest
      <3> QED
        BY <2>1, <3>1, <3>2, <3>3
    <2> QED
      BY <1>a, <1>b, <1>c, <2>1, <2>2, <2>3, <2>5, <2>6
  <1>4. CASE FlushCompletes
    <2>1. logger.async_result \in Block
      BY <1>4, <1>a, LoggerFields DEF FlushCompletes, FlushIsForCopy
    <2>2. /\ Flushed(logger) \in Loggers
          /\ Unwritten(Flushed(logger)) = Unwritten(logger)
          /\ FlushIsForCopy(Flushed(logger))
      BY <1>a DEF Flushed, Loggers, LoggersOver, Unwritten, FlushIsForCopy
    <2>3. /\ logger' = Flushed(logger)
          /\ timers' = timers \union {logger.async_result}
          /\ UNCHANGED <<file, copies, shares, found, faults, logged, truncated,
                         quiet>>
      BY <1>4 DEF FlushCompletes
    <2> QED
      BY <1>a, <1>b, <1>c, <2>1, <2>2, <2>3
  <1>5. ASSUME NEW b \in timers, RoundClosed(b)
        PROVE  RoundInv'
    <2> DEFINE mid == Log(logger, Started)
    <2>1. /\ logger' = Thaw(mid)
          /\ copies' = Append(copies, [block |-> b, content |-> file])
          /\ file' = <<>>
          /\ truncated' = truncated \o file
          /\ timers' = timers \ {b}
          /\ logged' = Append(logged, Started)
          /\ UNCHANGED <<shares, found, faults, quiet>>
      BY <1>5 DEF RoundClosed
    <2>2. Started \in Entry /\ b \in Block
      BY <1>b, EntryKinds
    <2>3. /\ mid \in Loggers
          /\ Unwritten(mid) = Append(Unwritten(logger), Started)
          /\ FlushIsForCopy(mid)
      BY <1>a, <2>2, LogFacts DEF FlushIsForCopy
    <2> HIDE DEF mid
    <2>4. /\ logger' \in Loggers
          /\ Unwritten(logger') = Append(Unwritten(logger), Started)
          /\ FlushIsForCopy(logger')
      BY <2>1, <2>3, ThawFacts
    <2>5. /\ (truncated \o file) \o <<>> = truncated \o file
          /\ <<>> \in Seq(Entry)
      BY <1>a, ConcatEmptySeq
    <2>6. logged' = (truncated' \o file') \o Unwritten(logger')
          /\ logged' \in Seq(Entry)
      BY <1>d, <2>1, <2>2, <2>4, <2>5
    <2>7. copies' \in Seq([block : Block, content : Seq(Entry)])
      BY <1>e, <2>1, <2>2
    <2> QED
      BY <1>a, <1>b, <1>c, <2>1, <2>4, <2>5, <2>6, <2>7
  <1>6. ASSUME NEW b \in timers, NEW copied \in BOOLEAN,
               RoundNotClosed(b, copied)
        PROVE  RoundInv'
    <2>1. /\ logger' = Thaw(logger)
          /\ copies' = IF copied
                       THEN Append(copies, [block |-> b, content |-> file])
                       ELSE copies
          /\ timers' = timers \ {b}
          /\ UNCHANGED <<file, shares, found, logged, truncated, quiet>>
      BY <1>6 DEF RoundNotClosed
    <2>2. faults' \in Faults
      <3>1. CASE faults' = faults
        BY <1>b, <3>1
      <3>2. CASE /\ faults' = [faults EXCEPT !.copy = @ + 1]
                 /\ faults.copy < MaxCopyFaults
        BY <1>b, <3>2, FaultsCounted
      <3> QED
        BY <1>6, <3>1, <3>2 DEF RoundNotClosed
    <2>3. copies' \in Seq([block : Block, content : Seq(Entry)])
      BY <1>b, <1>e, <2>1
    <2>4. /\ logger' \in Loggers
          /\ Unwritten(logger') = Unwritten(logger)
          /\ FlushIsForCopy(logger')
      BY <1>a, <2>1, ThawFacts
    <2> QED
      BY <1>a, <1>b, <1>c, <2>1, <2>2, <2>3, <2>4
  (* A restart, with or without a copy made just before it. *)
  <1>7. ASSUME Reopen, copies' \in Seq([block : Block, content : Seq(Entry)])
        PROVE  RoundInv'
    <2>1. /\ logger' = OpenLogger(TRUE)
          /\ logged' = Append(truncated \o file, Resumed)
          /\ timers' = {}
          /\ UNCHANGED <<file, shares, found, truncated, quiet>>
      BY <1>7 DEF Reopen
    <2>2. faults' \in Faults
      BY <1>7, <1>b, FaultsCounted DEF Reopen
    <2>3. /\ Resumed \in Entry
          /\ logger' \in Loggers
          /\ Unwritten(logger') = <<Resumed>>
          /\ FlushIsForCopy(logger')
      BY <2>1, OpenLoggerFacts
    <2>4. /\ logged' \in Seq(Entry)
          /\ logged' = (truncated \o file) \o <<Resumed>>
      BY <1>a, <2>1, <2>3, AppendProperties, AppendIsConcat
    <2> QED
      BY <1>7, <1>a, <1>b, <1>c, <2>1, <2>2, <2>3, <2>4
  <1>8. CASE Killed
    BY <1>7, <1>8, <1>b DEF Killed
  <1>9. ASSUME NEW b \in timers, KilledInCopy(b)
        PROVE  RoundInv'
    BY <1>7, <1>9, <1>b, <1>e DEF KilledInCopy
  <1>10. CASE UNCHANGED roundVars
    BY <1>10
    DEF roundVars, RoundInv, RoundTypeOK, LogConserved, FlushIsForCopy
  <1> QED
    BY <1>1, <1>2, <1>3, <1>4, <1>5, <1>6, <1>8, <1>9, <1>10
    DEF RoundNext, CopyTimeout

LEMMA RoundInvariant == RoundSpec => []RoundInv
  BY RoundInitInv, RoundStepInv, PTL DEF RoundSpec

(* Type correctness of the logger, its file and the copies. *)
THEOREM RoundTypes == RoundSpec => []RoundTypeOK
  <1>1. RoundInv => RoundTypeOK
    BY DEF RoundInv
  <1> QED
    BY <1>1, RoundInvariant, PTL

(* Every entry logged is truncated away with its round, on file, being       *)
(* written or queued, each once and in order, whatever overlaps or fails.    *)
THEOREM LogIsConserved == RoundSpec => []LogConserved
  <1>1. RoundInv => LogConserved
    BY DEF RoundInv
  <1> QED
    BY <1>1, RoundInvariant, PTL

-----------------------------------------------------------------------------
(* The refinement.                                                           *)

(* The parts of a sequence glued from three. *)
LEMMA PartsOfConcat ==
  ASSUME NEW t \in Seq(Entry), NEW f \in Seq(Entry), NEW u \in Seq(Entry)
  PROVE  /\ SubSeq((t \o f) \o u, Len(t) + 1, Len(t) + Len(f)) = f
         /\ SubSeq((t \o f) \o u, 1, Len(t) + Len(f)) = t \o f
         /\ Len((t \o f) \o u) = Len(t) + Len(f) + Len(u)
         /\ Len(t) \in Nat /\ Len(f) \in Nat /\ Len(u) \in Nat
  <1> HIDE DEF Entry
  <1> DEFINE s == t \o f
             all == s \o u
             front == SubSeq(all, 1, Len(s))
             mid == SubSeq(all, Len(t) + 1, Len(s))
  <1>1. /\ s \in Seq(Entry) /\ Len(s) = Len(t) + Len(f)
        /\ \A i \in 1 .. Len(t) + Len(f) :
             s[i] = IF i <= Len(t) THEN t[i] ELSE f[i - Len(t)]
    BY ConcatProperties
  <1> HIDE DEF s
  <1>2. /\ all \in Seq(Entry) /\ Len(all) = Len(s) + Len(u)
        /\ \A i \in 1 .. Len(s) + Len(u) :
             all[i] = IF i <= Len(s) THEN s[i] ELSE u[i - Len(s)]
    <2>1. s \in Seq(Entry) /\ u \in Seq(Entry)
      BY <1>1
    <2> QED
      BY ONLY <2>1, ConcatProperties
  <1> HIDE DEF all
  <1>3. Len(t) \in Nat /\ Len(f) \in Nat /\ Len(u) \in Nat /\ Len(s) \in Nat
    BY <1>1, LenProperties
  <1>4. \A i \in 1 .. Len(s) : all[i] \in Entry
    BY <1>2, <1>3, ElementOfSeq
  <1>5. front = s
    <2>1. /\ front \in Seq(Entry) /\ Len(front) = Len(s)
          /\ \A i \in 1 .. Len(s) : front[i] = all[i]
      BY <1>3, <1>4, SubSeqProperties
    <2>2. \A i \in 1 .. Len(s) : front[i] = s[i]
      BY <2>1, <1>2, <1>3
    <2> HIDE DEF front
    <2> QED
      BY <1>1, <2>1, <2>2, SeqEqual
  <1>6. mid = f
    <2>1. \A i \in Len(t) + 1 .. Len(s) : all[i] \in Entry
      BY <1>3, <1>4
    <2>2. /\ mid \in Seq(Entry) /\ Len(mid) = Len(f)
          /\ \A i \in 1 .. Len(f) : mid[i] = all[Len(t) + i]
      BY <1>1, <1>3, <2>1, SubSeqProperties
    <2>3. ASSUME NEW i \in 1 .. Len(f)
          PROVE  mid[i] = f[i]
      <3>1. Len(t) + i \in 1 .. Len(s) /\ ~ (Len(t) + i <= Len(t))
            /\ (Len(t) + i) - Len(t) = i
        BY <1>1, <1>3
      <3>2. all[Len(t) + i] = s[Len(t) + i]
        BY <3>1, <1>2, <1>3
      <3>3. s[Len(t) + i] = f[i]
        BY <3>1, <1>1
      <3> QED
        BY <2>2, <3>2, <3>3
    <2> HIDE DEF mid
    <2> QED
      BY <2>2, <2>3, SeqEqual
  <1> QED
    BY <1>1, <1>2, <1>3, <1>5, <1>6 DEF s, all

(* The entries the round file is promised for are those of the history. *)
LEMMA EntriesAreLogged ==
  ASSUME LogConserved
  PROVE  truncated \o file \o logger.write_all_string \o logger.queue = logged
  BY DEF LogConserved

LEMMA RoundInitPromise == RoundInit => Promise!LogInit
  <1> SUFFICES ASSUME RoundInit PROVE Promise!LogInit
    OBVIOUS
  <1>1. LogConserved
    BY RoundInitInv DEF RoundInv
  <1>2. truncated \o file \o logger.write_all_string \o logger.queue = logged
    BY <1>1, EntriesAreLogged
  <1>3. \E e \in {Started, Resumed} : logged = <<e>>
    BY DEF RoundInit
  <1>4. Len(truncated) = 0 /\ Len(file) = 0 /\ copies = <<>>
    BY DEF RoundInit
  <1> QED
    BY <1>2, <1>3, <1>4 DEF Promise!LogInit

LEMMA RoundStepPromise ==
  RoundInv /\ RoundInv' /\ [RoundNext]_roundVars
    => [Promise!LogNext]_(Promise!logVars)
  <1> SUFFICES ASSUME RoundInv, RoundInv', [RoundNext]_roundVars
               PROVE  [Promise!LogNext]_(Promise!logVars)
    OBVIOUS
  <1> DEFINE u == Unwritten(logger)
  <1>a. /\ logger \in Loggers
        /\ file \in Seq(Entry) /\ truncated \in Seq(Entry) /\ u \in Seq(Entry)
        /\ logged = (truncated \o file) \o u
        /\ timers \in SUBSET Block
        /\ shares \in Nat /\ found \in Nat
    <2>1. /\ logger \in Loggers
          /\ file \in Seq(Entry) /\ truncated \in Seq(Entry)
          /\ timers \in SUBSET Block
          /\ shares \in Nat /\ found \in Nat
      BY DEF RoundInv, RoundTypeOK, Loggers
    <2>2. u \in Seq(Entry)
      BY <2>1, LoggerFields
    <2>3. logged = (truncated \o file) \o u
      BY <2>1, ConservedAsUnwritten DEF RoundInv, LogConserved
    <2> QED
      BY <2>1, <2>2, <2>3
  <1>b. /\ truncated \o file \o logger.write_all_string \o logger.queue = logged
        /\ (truncated \o file \o logger.write_all_string \o logger.queue)'
             = logged'
    BY DEF RoundInv, LogConserved
  <1>c. /\ SubSeq(logged, Len(truncated) + 1, Len(truncated) + Len(file)) = file
        /\ SubSeq(logged, 1, Len(truncated) + Len(file)) = truncated \o file
        /\ Len(truncated \o file) = Len(truncated) + Len(file)
        /\ Len(logged) = Len(truncated) + Len(file) + Len(u)
        /\ Len(truncated) \in Nat /\ Len(file) \in Nat /\ Len(u) \in Nat
    BY <1>a, PartsOfConcat, ConcatProperties
  <1> HIDE DEF u
  (* A copy made of the file. *)
  <1>d. ASSUME NEW b \in Block,
               copies' = Append(copies, [block |-> b, content |-> file])
        PROVE  Promise!Copied(b)
    BY <1>b, <1>c, <1>d DEF Promise!Copied
  <1>1. ASSUME NEW e \in Entry, logged' = Append(logged, e),
               UNCHANGED <<file, truncated, copies>>
        PROVE  Promise!LogNext
    BY <1>1, <1>b DEF Promise!LogNext, Promise!Logged
  <1>2. CASE WorkValidated
    <2>1. Share(shares + 1) \in Entry
      BY <1>2, <1>a, EntryKinds, RoundManagerAssumption DEF WorkValidated
    <2> QED
      BY <1>1, <1>2, <2>1 DEF WorkValidated
  <1>3. CASE BlockFound
    <2>1. BlockEntry(found + 1) \in Entry
      <3>1. found < MaxBlocks
        BY <1>3 DEF BlockFound
      <3>2. found + 1 \in Block
        BY <3>1, <1>a, RoundManagerAssumption DEF Block
      <3> QED
        BY <3>2, EntryKinds
    <2> QED
      BY <1>1, <1>3, <2>1 DEF BlockFound
  <1>4. ASSUME NEW n \in 0 .. Len(logger.write_all_string), WriteCompletes(n)
        PROVE  Promise!LogNext
    <2> DEFINE done == SubSeq(logger.write_all_string, 1, n)
    <2>1. file' = file \o done /\ UNCHANGED <<truncated, logged, copies>>
      BY <1>4 DEF WriteCompletes
    <2>2. done \in Seq(Entry)
      BY <1>a, WrittenFacts
    <2> HIDE DEF done
    <2>3. Len(file') = Len(file) + Len(done) /\ Len(done) \in Nat
      BY <1>a, <2>1, <2>2, ConcatProperties, LenProperties
    <2>4. Len(truncated') + Len(file') <= Len(logged')
      <3>1. /\ logger' \in Loggers /\ file' \in Seq(Entry)
            /\ truncated' \in Seq(Entry) /\ Unwritten(logger') \in Seq(Entry)
            /\ logged' = (truncated' \o file') \o Unwritten(logger')
        BY ConservedAsUnwritten, LoggerFields
        DEF RoundInv, RoundTypeOK, LogConserved, Loggers
      <3> QED
        BY <3>1, PartsOfConcat
    <2>5. Len(truncated) + Len(file')
            \in Len(truncated) + Len(file) .. Len(logged)
      BY <1>c, <2>1, <2>3, <2>4
    <2> QED
      BY <1>b, <2>1, <2>5 DEF Promise!LogNext, Promise!Persisted
  <1>5. CASE FlushCompletes
    BY <1>5, <1>b DEF FlushCompletes, Promise!logVars
  <1>6. ASSUME NEW b \in timers, RoundClosed(b)
        PROVE  Promise!LogNext
    <2>1. /\ copies' = Append(copies, [block |-> b, content |-> file])
          /\ file' = <<>> /\ truncated' = truncated \o file
          /\ logged' = Append(logged, Started)
      BY <1>6 DEF RoundClosed
    <2>2. /\ Len(truncated') = Len(truncated) + Len(file)
          /\ Len(truncated') + Len(file') = Len(truncated) + Len(file)
      BY <1>c, <2>1
    <2>3. b \in Block /\ Promise!Copied(b)
      BY <1>a, <1>d, <2>1
    <2>4. Promise!RoundArchived(b)
      BY <1>b, <2>1, <2>2, <2>3 DEF Promise!RoundArchived
    <2> QED
      BY <2>3, <2>4 DEF Promise!LogNext
  <1>7. ASSUME NEW b \in timers, NEW copied \in BOOLEAN,
               RoundNotClosed(b, copied)
        PROVE  [Promise!LogNext]_(Promise!logVars)
    <2>1. /\ copies' = IF copied
                       THEN Append(copies, [block |-> b, content |-> file])
                       ELSE copies
          /\ UNCHANGED <<file, logged, truncated>>
      BY <1>7 DEF RoundNotClosed
    <2>2. CASE copied
      <3>1. b \in Block /\ Promise!Copied(b)
        BY <1>a, <1>d, <2>1, <2>2
      <3> QED
        BY <1>b, <2>1, <3>1 DEF Promise!LogNext, Promise!CopyMade
    <2>3. CASE ~ copied
      BY <1>b, <2>1, <2>3 DEF Promise!logVars
    <2> QED
      BY <2>2, <2>3
  <1>8. ASSUME Reopen, \/ UNCHANGED copies
                       \/ \E b \in Block : copies' = Append(copies,
                                 [block |-> b, content |-> file])
        PROVE  Promise!LogNext
    <2>1. /\ logged' = Append(truncated \o file, Resumed)
          /\ UNCHANGED <<file, truncated>>
      BY <1>8 DEF Reopen
    <2>2. UNCHANGED copies \/ \E b \in Block : Promise!Copied(b)
      BY <1>8, <1>d
    <2>3. Promise!Restarted
      BY <1>b, <1>c, <2>1, <2>2 DEF Promise!Restarted
    <2> QED
      BY <2>3 DEF Promise!LogNext
  <1>9. CASE Killed
    BY <1>8, <1>9 DEF Killed
  <1>10. ASSUME NEW b \in timers, KilledInCopy(b)
         PROVE  Promise!LogNext
    BY <1>a, <1>8, <1>10 DEF KilledInCopy
  <1>11. CASE UNCHANGED roundVars
    BY <1>11, <1>b DEF roundVars, Promise!logVars
  <1> QED
    BY <1>2, <1>3, <1>4, <1>5, <1>6, <1>7, <1>9, <1>10, <1>11
    DEF RoundNext, CopyTimeout

(* The logger of the round file implements RoundLog: no entry on file is     *)
(* ever lost, changed or overtaken, and a copy is what was on file of the    *)
(* round, for any number of entries, faults, overlaps and restarts.          *)
THEOREM RoundLogImplemented == RoundSpec => KeepsPromise
  <1>1. RoundInit => Promise!LogInit
    BY RoundInitPromise
  <1>2. RoundInv /\ RoundInv' /\ [RoundNext]_roundVars
          => [Promise!LogNext]_(Promise!logVars)
    BY RoundStepPromise
  <1> QED
    BY <1>1, <1>2, RoundInvariant, PTL
    DEF RoundSpec, KeepsPromise, Promise!LogSpec

-----------------------------------------------------------------------------
(* A round closed at rest is copied whole.  The strengthening follows the    *)
(* BLOCK entry of such a round from the string it is written with to the     *)
(* file it is copied with, for as long as at most one write was short.       *)

Asked(l) == l.async_result # NoCopy

EndsWith(s, b) == s # <<>> /\ Last(s) = BlockEntry(b)

FewFaults == faults.write < 2

(* The logger's fields go together; a logger frozen without a flush under    *)
(* way is one whose copy is scheduled.                                       *)
InOrder(l) ==
  /\ l.pending = "flush" => Asked(l)
  /\ l.flushing => Asked(l) /\ l.pending = "write"
  /\ l.pending = "write" => l.write_all_string # <<>>

LoggerInOrder ==
  /\ InOrder(logger)
  /\ logger.frozen /\ ~ Asked(logger) => timers # {}
  /\ ~ logger.file_known =>
       ~ Asked(logger) /\ timers = {} /\ ~ logger.frozen

(* Nothing speaks of a block before it is found. *)
Numbered ==
  /\ Asked(logger) => logger.async_result <= found
  /\ \A b \in timers \union quiet : b <= found
  /\ \A i \in DOMAIN copies : copies[i].block <= found

(* While a copy is scheduled nothing is written, and the file is whole. *)
TimersHold ==
  FewFaults => \A b \in timers :
    /\ timers = {b}
    /\ logger.frozen /\ logger.pending = "none"
    /\ logger.write_all_string = <<>>
    /\ b \in quiet => EndsWith(file, b)

(* While a flush is under way, either it waits for ever, or it is being done *)
(* of a whole file, or the whole string is being written: for the first time,*)
(* or after the one short write there may be.                                *)
FlushHolds ==
  FewFaults /\ Asked(logger) =>
    /\ logger.pending # "write" => logger.write_all_string = <<>>
    /\ logger.pending # "none" => logger.frozen /\ timers = {}
    /\ logger.pending = "flush" /\ logger.async_result \in quiet =>
         EndsWith(file, logger.async_result)
    /\ logger.pending = "write" =>
         /\ logger.flushing \/ faults.write > 0
         /\ logger.async_result \in quiet =>
              EndsWith(logger.write_all_string, logger.async_result)

CopiesWhole ==
  FewFaults => \A i \in DOMAIN copies :
    copies[i].block \in quiet => EndsWith(copies[i].content, copies[i].block)

CopyInv ==
  /\ LoggerInOrder
  /\ Numbered
  /\ TimersHold
  /\ FlushHolds
  /\ CopiesWhole

LEMMA EndOfSequences ==
  ASSUME NEW s \in Seq(Entry), NEW b \in Block
  PROVE  /\ EndsWith(Append(s, BlockEntry(b)), b)
         /\ \A e \in Entry : Append(s, e) # <<>>
         /\ SubSeq(s, 1, Len(s)) = s
         /\ \A f \in Seq(Entry) : EndsWith(s, b) => EndsWith(f \o s, b)
         /\ \A n \in 0 .. Len(s) :
              LET rest == SubSeq(s, n + 1, Len(s))
              IN  /\ rest = <<>> <=> n = Len(s)
                  /\ EndsWith(s, b) /\ rest # <<>> => EndsWith(rest, b)
  <1>0. BlockEntry(b) \in Entry
    BY EntryKinds
  <1> HIDE DEF Entry
  <1>a. Len(s) \in Nat /\ (s = <<>> <=> Len(s) = 0)
    BY LenProperties, EmptySeq
  <1>1. ASSUME NEW e \in Entry
        PROVE  /\ Append(s, e) # <<>>
               /\ Last(Append(s, e)) = e
    BY <1>a, AppendProperties, LenProperties DEF Last
  <1>2. SubSeq(s, 1, Len(s)) = s
    BY SubSeqFull
  <1>3. ASSUME NEW f \in Seq(Entry), EndsWith(s, b)
        PROVE  EndsWith(f \o s, b)
    <2>1. /\ f \o s \in Seq(Entry) /\ Len(f \o s) = Len(f) + Len(s)
          /\ Len(f) \in Nat /\ Len(s) > 0
      BY <1>3, <1>a, ConcatProperties, LenProperties DEF EndsWith
    <2>2. (f \o s)[Len(f) + Len(s)] = s[Len(s)]
      <3>1. \A i \in 1 .. Len(f) + Len(s) :
              (f \o s)[i] = IF i <= Len(f) THEN f[i] ELSE s[i - Len(f)]
        BY ConcatProperties
      <3>2. /\ Len(f) + Len(s) \in 1 .. Len(f) + Len(s)
            /\ ~ (Len(f) + Len(s) <= Len(f))
            /\ (Len(f) + Len(s)) - Len(f) = Len(s)
        BY <1>a, <2>1
      <3> QED
        BY <3>1, <3>2
    <2>3. f \o s # <<>>
      BY <1>a, <2>1, EmptySeq
    <2> QED
      BY <1>3, <2>1, <2>2, <2>3 DEF EndsWith, Last
  <1>4. ASSUME NEW n \in 0 .. Len(s)
        PROVE  LET rest == SubSeq(s, n + 1, Len(s))
               IN  /\ rest = <<>> <=> n = Len(s)
                   /\ EndsWith(s, b) /\ rest # <<>> => EndsWith(rest, b)
    <2> DEFINE rest == SubSeq(s, n + 1, Len(s))
    <2>1. \A i \in n + 1 .. Len(s) : s[i] \in Entry
      BY <1>a, ElementOfSeq
    <2>2. /\ rest \in Seq(Entry)
          /\ Len(rest) = IF n + 1 <= Len(s) THEN Len(s) - n ELSE 0
          /\ \A i \in 1 .. Len(s) - n : rest[i] = s[n + i]
      BY <1>a, <2>1, SubSeqProperties
    <2> HIDE DEF rest
    <2>3. rest = <<>> <=> n = Len(s)
      BY <1>a, <2>2, EmptySeq
    <2>4. n # Len(s) => Last(rest) = Last(s)
      BY <1>a, <2>2 DEF Last
    <2> QED
      BY <2>3, <2>4 DEF EndsWith, rest
  <1> QED
    BY <1>0, <1>1, <1>2, <1>3, <1>4 DEF EndsWith

(* What the operators of FileLogger do to the single fields. *)
LEMMA WriteAllFields ==
  ASSUME NEW l \in Loggers
  PROVE  LET m == WriteAll(l)
         IN  /\ m.file_known = l.file_known /\ m.frozen = l.frozen
             /\ m.flushing = l.flushing
             /\ m.async_result = l.async_result
             /\ l.pending # "none" => m = l
             /\ l.pending = "none" =>
                  /\ m.pending = IF m.write_all_string = <<>>
                                 THEN "none" ELSE "write"
                  /\ Writable(l) => m.write_all_string = Unwritten(l)
                  /\ ~ Writable(l) => m.write_all_string = l.write_all_string
  <1> DEFINE drained == IF Writable(l) THEN Drain(l) ELSE l
             started == [drained EXCEPT !.pending = "write"]
  <1>1. /\ drained \in Loggers
        /\ drained.file_known = l.file_known /\ drained.frozen = l.frozen
        /\ drained.flushing = l.flushing
        /\ drained.async_result = l.async_result
        /\ drained.pending = l.pending
        /\ Writable(l) => drained.write_all_string = Unwritten(l)
        /\ ~ Writable(l) => drained.write_all_string = l.write_all_string
    <2>1. Unwritten(l) \in Seq(Entry) /\ <<>> \in Seq(Entry)
      BY LoggerFields
    <2> QED
      BY <2>1 DEF Drain, Unwritten, Loggers, LoggersOver
  <1> HIDE DEF drained
  <1>2. /\ started.file_known = drained.file_known
        /\ started.frozen = drained.frozen
        /\ started.flushing = drained.flushing
        /\ started.async_result = drained.async_result
        /\ started.pending = "write"
        /\ started.write_all_string = drained.write_all_string
    BY <1>1 DEF Loggers, LoggersOver
  <1>3. WriteAll(l) = IF l.pending # "none" THEN l
                      ELSE IF drained.write_all_string = <<>> THEN drained
                      ELSE started
    BY DEF WriteAll, drained
  <1> HIDE DEF started
  <1> QED
    BY <1>1, <1>2, <1>3

LEMMA LogFields ==
  ASSUME NEW l \in Loggers, NEW entry \in Entry
  PROVE  LET m == Log(l, entry)
         IN  /\ m.file_known = l.file_known /\ m.frozen = l.frozen
             /\ m.flushing = l.flushing
             /\ m.async_result = l.async_result
             /\ ~ Writable(l) \/ l.pending # "none" =>
                  /\ m.pending = l.pending
                  /\ m.write_all_string = l.write_all_string
             /\ Writable(l) /\ l.pending = "none" =>
                  /\ m.pending = "write"
                  /\ m.write_all_string = Append(Unwritten(l), entry)
  <1> DEFINE queued == [l EXCEPT !.queue = Append(@, entry)]
  <1>1. Append(l.queue, entry) \in Seq(Entry)
    BY LoggerFields, AppendProperties
  <1>2. /\ queued \in Loggers
        /\ queued.queue = Append(l.queue, entry)
        /\ queued.write_all_string = l.write_all_string
        /\ queued.file_known = l.file_known /\ queued.frozen = l.frozen
        /\ queued.flushing = l.flushing
        /\ queued.async_result = l.async_result
        /\ queued.pending = l.pending
    BY <1>1 DEF Loggers, LoggersOver
  <1>3. Unwritten(queued) = Append(Unwritten(l), entry)
    <2>1. <<entry>> \in Seq(Entry)
      OBVIOUS
    <2>2. Append(l.queue, entry) = l.queue \o <<entry>>
          /\ Append(Unwritten(l), entry) = Unwritten(l) \o <<entry>>
      BY LoggerFields, AppendIsConcat
    <2>3. (l.write_all_string \o l.queue) \o <<entry>>
            = l.write_all_string \o (l.queue \o <<entry>>)
      BY <2>1, LoggerFields, EntriesAssociative, Zenon
    <2> QED
      BY <1>2, <2>2, <2>3 DEF Unwritten
  <1>4. /\ Writable(queued) <=> Writable(l)
        /\ Log(l, entry) = IF Writable(l) THEN WriteAll(queued) ELSE queued
    BY <1>2 DEF Log, Writable
  <1>5. Append(Unwritten(l), entry) # <<>>
    BY LoggerFields, AppendProperties
  <1> HIDE DEF queued
  <1> QED
    BY <1>2, <1>3, <1>4, <1>5, WriteAllFields

(* A logger thawed with nothing pending. *)
LEMMA ThawFields ==
  ASSUME NEW l \in Loggers
  PROVE  LET m == Thaw(l)
         IN  /\ m.file_known = l.file_known /\ ~ m.frozen
             /\ m.flushing = l.flushing
             /\ m.async_result = l.async_result
             /\ l.pending # "none" =>
                  /\ m.pending = l.pending
                  /\ m.write_all_string = l.write_all_string
             /\ l.pending = "none" =>
                  /\ m.pending = IF m.write_all_string = <<>>
                                 THEN "none" ELSE "write"
                  /\ Asked(l) => m.write_all_string = l.write_all_string
  <1> DEFINE thawed == [l EXCEPT !.frozen = FALSE]
  <1>1. /\ thawed \in Loggers
        /\ thawed.write_all_string = l.write_all_string
        /\ thawed.file_known = l.file_known /\ ~ thawed.frozen
        /\ thawed.flushing = l.flushing
        /\ thawed.async_result = l.async_result
        /\ thawed.pending = l.pending
    BY DEF Loggers, LoggersOver
  <1> HIDE DEF thawed
  <1>2. Thaw(l) = WriteAll(thawed)
    BY DEF Thaw, thawed
  <1> QED
    BY <1>1, <1>2, WriteAllFields DEF Asked, Writable

(* file_logger_copy_and_truncate on a logger that can be copied. *)
LEMMA CopyAndTruncateFields ==
  ASSUME NEW l \in Loggers, NEW b \in Block, l.file_known
  PROVE  LET m == CopyAndTruncate(l, b)
         IN  /\ m.file_known /\ m.frozen
             /\ m.write_all_string = l.write_all_string
             /\ Asked(l) => /\ m.async_result = l.async_result
                            /\ m.pending = l.pending
                            /\ m.flushing = l.flushing
             /\ ~ Asked(l) =>
                  /\ m.async_result = b
                  /\ m.flushing = (l.pending # "none")
                  /\ m.pending = IF l.pending = "none"
                                    /\ l.write_all_string # <<>>
                                 THEN "write" ELSE l.pending
  <1> DEFINE frozen == Freeze(l)
             asked == [frozen EXCEPT !.async_result = b]
             waiting == [asked EXCEPT !.flushing = TRUE]
             ready == [asked EXCEPT !.flushing = FALSE]
  <1>1. /\ frozen.file_known /\ frozen.frozen
        /\ frozen.write_all_string = l.write_all_string
        /\ frozen.async_result = l.async_result
        /\ frozen.pending = l.pending
        /\ frozen.flushing = l.flushing
    BY DEF Freeze, Loggers, LoggersOver
  <1>2. /\ waiting.file_known /\ waiting.frozen
        /\ waiting.write_all_string = l.write_all_string
        /\ waiting.async_result = b
        /\ waiting.pending = l.pending
        /\ waiting.flushing = TRUE
    BY DEF Freeze, Loggers, LoggersOver
  <1>3. /\ ready \in Loggers
        /\ ready.file_known /\ ready.frozen
        /\ ready.write_all_string = l.write_all_string
        /\ ready.async_result = b
        /\ ready.pending = l.pending
        /\ ready.flushing = FALSE
    BY DEF Freeze, Loggers, LoggersOver
  <1>4. CopyAndTruncate(l, b) = IF Asked(l) THEN frozen
                                ELSE IF l.pending # "none" THEN waiting
                                ELSE WriteAll(ready)
    BY <1>1 DEF CopyAndTruncate, FlushRefused, Flush, Asked
  <1> HIDE DEF frozen, waiting, ready
  <1>5. /\ WriteAll(ready).file_known /\ WriteAll(ready).frozen
        /\ WriteAll(ready).flushing = FALSE
        /\ WriteAll(ready).async_result = b
        /\ l.pending = "none" =>
             /\ WriteAll(ready).write_all_string = l.write_all_string
             /\ WriteAll(ready).pending = IF l.write_all_string = <<>>
                                          THEN "none" ELSE "write"
    BY <1>3, WriteAllFields DEF Writable
  <1> QED
    BY <1>1, <1>2, <1>4, <1>5

(* What is left of the string when n entries of it have been written. *)
LEMMA WrittenFields ==
  ASSUME NEW l \in Loggers, NEW n \in 0 .. Len(l.write_all_string)
  PROVE  LET m == Written(l, n)
             rest == SubSeq(l.write_all_string, n + 1, Len(l.write_all_string))
             retry == l.flushing /\ rest # <<>>
         IN  /\ m.file_known = l.file_known /\ m.frozen = l.frozen
             /\ ~ m.flushing
             /\ m.async_result = l.async_result
             /\ Asked(l) => /\ m.write_all_string = rest
                            /\ m.pending = IF retry THEN "write" ELSE "flush"
             /\ ~ Asked(l) =>
                  m.pending = IF m.write_all_string = <<>>
                              THEN "none" ELSE "write"
  <1> DEFINE rest == SubSeq(l.write_all_string, n + 1, Len(l.write_all_string))
             erased == Erased(l, n)
             ended == [erased EXCEPT !.flushing = FALSE]
             flushing == [ended EXCEPT !.pending = "flush"]
             retry == l.flushing /\ rest # <<>>
  <1>1. l.write_all_string \in Seq(Entry) /\ Len(l.write_all_string) \in Nat
    BY LoggerFields, LenProperties
  <1>2. rest \in Seq(Entry)
    <2>1. \A i \in 1 .. Len(l.write_all_string) : l.write_all_string[i] \in Entry
      BY <1>1, ElementOfSeq
    <2> QED
      BY <1>1, <2>1, SubSeqProperties
  <1>3. /\ ended \in Loggers
        /\ ended.write_all_string = rest
        /\ ended.file_known = l.file_known /\ ended.frozen = l.frozen
        /\ ended.flushing = FALSE
        /\ ended.async_result = l.async_result
        /\ ended.pending = "none"
    BY <1>2 DEF Erased, Loggers, LoggersOver
  <1>4. /\ flushing.write_all_string = rest
        /\ flushing.file_known = l.file_known /\ flushing.frozen = l.frozen
        /\ ~ flushing.flushing
        /\ flushing.async_result = l.async_result
        /\ flushing.pending = "flush"
    BY <1>2 DEF Erased, Loggers, LoggersOver
  <1>5. Written(l, n) = IF Asked(l) /\ ~ retry THEN flushing
                        ELSE WriteAll(ended)
    BY <1>3 DEF Written, Asked
  <1> HIDE DEF rest, ended, flushing
  <1>6. Asked(l) => WriteAll(ended).write_all_string = rest
    BY <1>3, WriteAllFields DEF Writable, Asked
  <1>7. LET m == WriteAll(ended)
        IN  /\ m.file_known = l.file_known /\ m.frozen = l.frozen
            /\ m.flushing = FALSE
            /\ m.async_result = l.async_result
            /\ m.pending = IF m.write_all_string = <<>> THEN "none" ELSE "write"
    BY <1>3, WriteAllFields
  <1> HIDE DEF retry
  <1>8. CASE Asked(l) /\ ~ retry
    BY <1>4, <1>5, <1>8 DEF rest, retry
  <1>9. CASE Asked(l) /\ retry
    <2>1. rest # <<>>
      BY <1>9 DEF retry
    <2> QED
      BY <1>5, <1>6, <1>7, <1>9, <2>1 DEF rest, retry
  <1>10. CASE ~ Asked(l)
    BY <1>5, <1>7, <1>10
  <1> QED
    BY <1>8, <1>9, <1>10

(* A logger just opened is writing its first entry. *)
LEMMA OpenLoggerFields ==
  ASSUME NEW exists \in BOOLEAN
  PROVE  LET m == OpenLogger(exists)
         IN  /\ ~ m.frozen /\ ~ m.flushing /\ ~ Asked(m)
             /\ m.pending = "write" /\ m.write_all_string # <<>>
  <1> DEFINE new == NewLogger(exists)
             first == IF exists THEN Resumed ELSE Started
  <1>1. /\ new \in Loggers
        /\ new.pending = "none" /\ ~ new.frozen /\ ~ new.flushing
        /\ ~ Asked(new)
    BY DEF NewLogger, Loggers, LoggersOver, Asked
  <1>2. first \in Entry /\ OpenLogger(exists) = Log(new, first)
    BY EntryKinds DEF OpenLogger
  <1> HIDE DEF new, first
  <1>3. Append(Unwritten(new), first) # <<>>
    BY <1>1, <1>2, LoggerFields, AppendProperties
  <1> QED
    BY <1>1, <1>2, <1>3, LogFields DEF Writable, Asked

LEMMA RoundInitCopy == RoundInit => CopyInv
  <1> SUFFICES ASSUME RoundInit PROVE CopyInv
    OBVIOUS
  <1>1. PICK exists \in BOOLEAN : logger = OpenLogger(exists)
    BY DEF RoundInit
  <1>2. /\ ~ logger.frozen /\ ~ logger.flushing /\ ~ Asked(logger)
        /\ logger.pending = "write" /\ logger.write_all_string # <<>>
    BY <1>1, OpenLoggerFields
  <1>3. timers = {} /\ quiet = {} /\ DOMAIN copies = {}
    BY DEF RoundInit
  <1> QED
    BY <1>2, <1>3 DEF CopyInv, LoggerInOrder, InOrder, Numbered, TimersHold,
       FlushHolds, CopiesWhole

LEMMA RoundStepCopy ==
  RoundInv /\ RoundInv' /\ CopyInv /\ [RoundNext]_roundVars => CopyInv'
  <1> SUFFICES ASSUME RoundInv, RoundInv', CopyInv, [RoundNext]_roundVars
               PROVE  CopyInv'
    OBVIOUS
  <1>a. /\ logger \in Loggers /\ logger' \in Loggers
        /\ file \in Seq(Entry)
        /\ logger.write_all_string \in Seq(Entry)
        /\ Unwritten(logger) \in Seq(Entry)
        /\ logger.async_result \in Block \union {NoCopy}
        /\ logger.pending \in {"none", "write", "flush"}
        /\ logger.flushing \in BOOLEAN
    <2>1. logger \in Loggers /\ logger' \in Loggers /\ file \in Seq(Entry)
      BY DEF RoundInv, RoundTypeOK, Loggers
    <2> QED
      BY <2>1, LoggerFields DEF Loggers, LoggersOver
  <1>b. /\ copies \in Seq([block : Block, content : Seq(Entry)])
        /\ timers \in SUBSET Block /\ quiet \in SUBSET Block
        /\ found \in 0 .. MaxBlocks /\ found \in Nat /\ found' \in Nat
        /\ faults \in Faults /\ faults.write \in Nat /\ faults'.write \in Nat
    <2>1. faults \in Faults /\ faults' \in Faults
      BY DEF RoundInv, RoundTypeOK, Faults
    <2>2. faults.write \in Nat /\ faults'.write \in Nat
      BY <2>1 DEF Faults
    <2>3. found \in 0 .. MaxBlocks /\ found \in Nat /\ found' \in Nat
      BY DEF RoundInv, RoundTypeOK
    <2> QED
      BY <2>1, <2>2, <2>3 DEF RoundInv, RoundTypeOK
  <1>c. /\ LoggerInOrder /\ InOrder(logger)
        /\ Numbered /\ TimersHold /\ FlushHolds /\ CopiesWhole
    BY DEF CopyInv, LoggerInOrder
  <1>d. \A b \in Block : b # NoCopy /\ b \in Nat
    BY NoCopyIsNoBlock DEF Block
  (* The histories after a step that finds no block and makes no copy. *)
  <1>e. ASSUME UNCHANGED <<copies, quiet, found>>, FewFaults' => FewFaults,
               timers' \subseteq timers,
               logger'.async_result = logger.async_result
        PROVE  Numbered' /\ CopiesWhole'
    BY <1>c, <1>e DEF Numbered, CopiesWhole, Asked
  (* A copy made of the file at a timeout, if it is made. *)
  <1>f. ASSUME NEW b \in timers, UNCHANGED <<quiet, found>>,
               FewFaults' => FewFaults,
               \/ UNCHANGED copies
               \/ copies' = Append(copies, [block |-> b, content |-> file])
        PROVE  CopiesWhole' /\ \A i \in DOMAIN copies' : copies'[i].block <= found'
    <2> DEFINE copy == [block |-> b, content |-> file]
    <2>1. CASE UNCHANGED copies
      BY <1>c, <1>f, <2>1 DEF Numbered, CopiesWhole
    <2>2. CASE copies' = Append(copies, copy)
      <3>1. copy \in [block : Block, content : Seq(Entry)]
        BY <1>a, <1>b
      <3>2. \A i \in DOMAIN copies' :
              \/ i \in DOMAIN copies /\ copies'[i] = copies[i]
              \/ copies'[i] = copy
        <4> HIDE DEF Entry, copy
        <4> QED
          BY <1>b, <2>2, <3>1, AppendProperties, LenProperties
      <3>3. copy.block = b /\ copy.content = file
        OBVIOUS
      <3>4. FewFaults' /\ b \in quiet => EndsWith(file, b)
        BY <1>c, <1>f DEF TimersHold
      <3>5. b <= found
        BY <1>c DEF Numbered
      <3> HIDE DEF copy
      <3> QED
        BY <1>c, <1>f, <3>2, <3>3, <3>4, <3>5 DEF Numbered, CopiesWhole
    <2> QED
      BY <1>f, <2>1, <2>2
  (* What an entry logged, and nothing else, does. *)
  <1>g. ASSUME NEW entry \in Entry
        PROVE  LET m == Log(logger, entry)
               IN  /\ InOrder(m)
                   /\ m.file_known = logger.file_known
                   /\ m.frozen = logger.frozen
                   /\ m.async_result = logger.async_result
                   /\ m.flushing = logger.flushing
                   /\ \/ /\ m.pending = logger.pending
                         /\ m.write_all_string = logger.write_all_string
                      \/ /\ Writable(logger) /\ logger.pending = "none"
                         /\ m.pending = "write"
                         /\ m.write_all_string
                              = Append(Unwritten(logger), entry)
    <2>1. Append(Unwritten(logger), entry) # <<>>
      BY <1>a, AppendProperties
    <2> HIDE DEF Entry
    <2> QED
      BY <1>a, <1>c, <2>1, LogFields DEF InOrder, Asked, Writable
  <1>1. CASE WorkValidated
    <2>1. Share(shares + 1) \in Entry
      <3>1. shares < MaxShares /\ shares \in 0 .. MaxShares
        BY <1>1 DEF WorkValidated, RoundInv, RoundTypeOK
      <3> QED
        BY <3>1, EntryKinds, RoundManagerAssumption
    <2>2. /\ logger' = Log(logger, Share(shares + 1))
          /\ UNCHANGED <<file, copies, timers, found, faults, quiet>>
      BY <1>1 DEF WorkValidated
    <2>3. Numbered' /\ CopiesWhole'
      BY <1>e, <1>g, <2>1, <2>2 DEF FewFaults
    <2>4. LoggerInOrder'
      BY <1>c, <1>g, <2>1, <2>2 DEF LoggerInOrder, Asked
    <2>5. TimersHold'
      BY <1>c, <1>g, <2>1, <2>2 DEF TimersHold, FewFaults, Writable
    <2>6. FlushHolds'
      BY <1>c, <1>g, <2>1, <2>2 DEF FlushHolds, FewFaults, Writable, Asked
    <2> QED
      BY <2>3, <2>4, <2>5, <2>6 DEF CopyInv
  <1>2. CASE BlockFound
    <2> DEFINE b == found + 1
               mid == Log(logger, BlockEntry(b))
    <2>1. b \in Block /\ BlockEntry(b) \in Entry /\ b > found
      <3>1. found < MaxBlocks
        BY <1>2 DEF BlockFound
      <3>2. b \in Block
        BY <3>1, <1>b, RoundManagerAssumption DEF Block
      <3> QED
        BY <1>b, <3>2, EntryKinds
    <2>2. /\ logger' = CopyAndTruncate(mid, b)
          /\ found' = b
          /\ quiet' = IF AtRest THEN quiet \union {b} ELSE quiet
          /\ UNCHANGED <<file, copies, timers>>
          /\ faults'.write = faults.write
      BY <1>2, <1>b DEF BlockFound, CloseRound, Faults
    <2> HIDE DEF b
    <2>3. mid \in Loggers
      BY <1>a, <2>1, LogFacts
    <2>4. /\ InOrder(mid)
          /\ mid.file_known = logger.file_known
          /\ mid.frozen = logger.frozen
          /\ mid.async_result = logger.async_result
          /\ mid.flushing = logger.flushing
          /\ \/ /\ mid.pending = logger.pending
                /\ mid.write_all_string = logger.write_all_string
             \/ /\ Writable(logger) /\ logger.pending = "none"
                /\ mid.pending = "write"
                /\ mid.write_all_string
                     = Append(Unwritten(logger), BlockEntry(b))
      BY <1>g, <2>1
    <2>5. /\ \A x \in timers \union quiet : x <= found
          /\ Asked(logger) => /\ logger.async_result <= found
                              /\ logger.async_result \in Nat
      BY <1>a, <1>c, <1>d DEF Numbered, Asked
    (* The histories, whatever becomes of the flush. *)
    <2>6. CopiesWhole' /\ (FewFaults <=> FewFaults')
      <3>1. \A i \in DOMAIN copies :
              copies[i].block \in quiet' => copies[i].block \in quiet
        <4>1. \A i \in DOMAIN copies : copies[i].block <= found
          BY <1>c DEF Numbered
        <4> QED
          BY <1>b, <2>1, <2>2, <4>1
      <3> QED
        BY <1>c, <2>2, <3>1 DEF CopiesWhole, FewFaults
    <2>7. /\ \A x \in timers' \union quiet' : x <= found'
          /\ \A i \in DOMAIN copies' : copies'[i].block <= found'
      <3>1. \A x \in timers \union quiet : x \in Nat
        BY <1>b, <1>d
      <3>2. \A i \in DOMAIN copies :
              copies[i].block <= found /\ copies[i].block \in Nat
        <4>1. \A i \in DOMAIN copies :
                copies[i] \in [block : Block, content : Seq(Entry)]
          <5> HIDE DEF Entry
          <5> QED
            BY <1>b, ElementOfSeq, LenProperties
        <4>2. \A i \in DOMAIN copies : copies[i].block \in Block
          BY <4>1
        <4> QED
          BY <1>c, <1>d, <4>2 DEF Numbered
      <3> QED
        BY <1>b, <2>1, <2>2, <2>5, <3>1, <3>2
    <2> HIDE DEF mid
    <2>8. CASE ~ logger.file_known
      <3>1. logger' = mid
        BY <2>2, <2>4, <2>8 DEF CopyAndTruncate
      <3>2. ~ Asked(logger) /\ timers = {} /\ ~ logger.frozen
        BY <1>c, <2>8 DEF LoggerInOrder
      <3> QED
        BY <2>2, <2>4, <2>6, <2>7, <3>1, <3>2
        DEF CopyInv, LoggerInOrder, Numbered, TimersHold, FlushHolds, Asked
    (* Refused: the logger is frozen, and nothing will thaw it. *)
    <2>9. CASE logger.file_known /\ Asked(logger)
      <3>1. /\ logger'.file_known /\ logger'.frozen
            /\ logger'.write_all_string = logger.write_all_string
            /\ logger'.async_result = logger.async_result
            /\ logger'.pending = logger.pending
            /\ logger'.flushing = logger.flushing
        BY <2>1, <2>2, <2>3, <2>4, <2>9, CopyAndTruncateFields
        DEF Asked, Writable
      <3>2. quiet' = quiet
        BY <2>2, <2>9 DEF AtRest, Asked
      <3>3. LoggerInOrder'
        BY <1>c, <2>9, <3>1 DEF LoggerInOrder, InOrder, Asked
      <3>4. TimersHold' /\ FlushHolds'
        BY <1>c, <2>2, <2>6, <2>9, <3>1, <3>2
        DEF TimersHold, FlushHolds, Asked
      <3>5. Numbered'
        BY <1>b, <2>1, <2>2, <2>5, <2>7, <2>9, <3>1 DEF Numbered, Asked
      <3> QED
        BY <2>6, <3>3, <3>4, <3>5 DEF CopyInv
    (* Accepted: the flush waits for the write under way, or begins one. *)
    <2>10. CASE logger.file_known /\ ~ Asked(logger)
      <3>1. /\ logger'.file_known /\ logger'.frozen
            /\ logger'.write_all_string = mid.write_all_string
            /\ logger'.async_result = b
            /\ logger'.flushing = (mid.pending # "none")
            /\ logger'.pending = IF mid.pending = "none"
                                    /\ mid.write_all_string # <<>>
                                 THEN "write" ELSE mid.pending
        <4>1. mid.file_known /\ ~ Asked(mid)
          BY <2>4, <2>10 DEF Asked
        <4> QED
          BY ONLY <2>1, <2>2, <2>3, <4>1, CopyAndTruncateFields
      <3>2. Asked(logger') /\ mid.pending \in {"none", "write"}
        BY <1>a, <1>c, <1>d, <2>1, <2>4, <2>10, <3>1 DEF Asked, InOrder
      <3>3. LoggerInOrder'
        BY <2>4, <3>1, <3>2 DEF LoggerInOrder, InOrder
      <3>4. Numbered'
        BY <1>b, <2>1, <2>2, <2>7, <3>1 DEF Numbered
      <3>5. TimersHold'
        BY <1>b, <1>c, <2>1, <2>2, <2>4, <2>5, <2>6, <3>1
        DEF TimersHold, Writable
      <3>6. b \in quiet' => EndsWith(logger'.write_all_string, b)
                            /\ logger'.pending = "write"
        <4>1. ASSUME b \in quiet'
              PROVE  Writable(logger) /\ logger.pending = "none"
          <5>1. AtRest
            BY <1>b, <2>1, <2>2, <2>5, <4>1
          <5> QED
            BY <1>c, <5>1 DEF AtRest, Writable, InOrder
        <4>2. ASSUME b \in quiet'
              PROVE  /\ mid.pending = "write"
                     /\ mid.write_all_string
                          = Append(Unwritten(logger), BlockEntry(b))
          BY <1>a, <2>1, <4>1, <4>2, LogFields DEF mid
        <4>3. EndsWith(Append(Unwritten(logger), BlockEntry(b)), b)
          BY <1>a, <2>1, EndOfSequences
        <4> QED
          BY <3>1, <4>2, <4>3
      <3>7. FewFaults' /\ mid.pending = "none" => mid.write_all_string = <<>>
        <4>1. mid.pending = "none" => logger.frozen /\ logger.pending = "none"
          BY <1>a, <1>c, <2>1, <2>10, LogFields
          DEF mid, Writable, Asked, InOrder
        <4> QED
          BY <1>c, <2>4, <2>6, <2>10, <4>1
          DEF LoggerInOrder, TimersHold, Asked, Writable
      <3>8. FewFaults' /\ mid.pending = "write" => timers' = {}
        BY <1>c, <2>2, <2>4, <2>6 DEF TimersHold, Writable
      <3>9. FlushHolds'
        <4>1. /\ logger'.pending \in {"none", "write"}
              /\ logger'.pending # "none" => logger'.frozen
              /\ logger'.pending = "write" /\ logger'.async_result \in quiet' =>
                     EndsWith(logger'.write_all_string, logger'.async_result)
          BY ONLY <3>1, <3>2, <3>6
        <4>2. FewFaults' =>
                /\ logger'.pending = "none" => logger'.write_all_string = <<>>
                /\ logger'.pending = "write" => timers' = {} /\ logger'.flushing
          BY ONLY <3>1, <3>2, <3>7, <3>8
        <4> QED
          BY ONLY <4>1, <4>2 DEF FlushHolds
      <3> QED
        BY ONLY <2>6, <3>3, <3>4, <3>5, <3>9 DEF CopyInv
    <2> QED
      BY <2>8, <2>9, <2>10
  (* A write has ended: with all of the string, or with a part of it. *)
  <1>3. ASSUME NEW n \in 0 .. Len(logger.write_all_string), WriteCompletes(n)
        PROVE  CopyInv'
    <2> DEFINE string == logger.write_all_string
               rest == SubSeq(string, n + 1, Len(string))
    <2>1. /\ logger.pending = "write" /\ string # <<>>
          /\ file' = file \o SubSeq(string, 1, n)
          /\ logger' = Written(logger, n)
          /\ faults'.write = IF n = Len(string) THEN faults.write
                            ELSE faults.write + 1
          /\ UNCHANGED <<copies, timers, found, quiet>>
      BY <1>3, <1>b, <1>c DEF WriteCompletes, Faults, InOrder
    <2>2. FewFaults' => /\ FewFaults
                        /\ timers = {}
                        /\ faults.write > 0 => n = Len(string)
      BY <1>b, <1>c, <2>1 DEF FewFaults, TimersHold
    <2>3. /\ logger'.file_known = logger.file_known
          /\ logger'.frozen = logger.frozen
          /\ logger'.flushing = FALSE
          /\ logger'.async_result = logger.async_result
          /\ Asked(logger) =>
               /\ logger'.write_all_string = rest
               /\ logger'.pending = IF logger.flushing /\ rest # <<>>
                                    THEN "write" ELSE "flush"
          /\ ~ Asked(logger) =>
               logger'.pending = IF logger'.write_all_string = <<>>
                                 THEN "none" ELSE "write"
      BY <1>a, <2>1, WrittenFields
    <2>4. ASSUME NEW b \in Block
          PROVE  /\ rest = <<>> <=> n = Len(string)
                 /\ EndsWith(string, b) =>
                      /\ rest # <<>> => EndsWith(rest, b)
                      /\ n = Len(string) => EndsWith(file', b)
      <3>1. string \in Seq(Entry) /\ file \in Seq(Entry)
        BY <1>a
      <3>2. /\ rest = <<>> <=> n = Len(string)
            /\ EndsWith(string, b) /\ rest # <<>> => EndsWith(rest, b)
        BY <3>1, EndOfSequences
      <3>3. n = Len(string) => file' = file \o string
        BY <2>1, <3>1, EndOfSequences
      <3>4. EndsWith(string, b) => EndsWith(file \o string, b)
        BY <3>1, EndOfSequences
      <3> HIDE DEF rest, string
      <3> QED
        BY <3>2, <3>3, <3>4
    <2> HIDE DEF rest, string
    <2>5. Numbered' /\ CopiesWhole'
      BY <1>e, <2>1, <2>2, <2>3
    <2>6. LoggerInOrder'
      BY <1>c, <2>1, <2>3 DEF LoggerInOrder, InOrder, Asked
    <2>7. TimersHold'
      BY <2>1, <2>2 DEF TimersHold
    <2>8. FlushHolds'
      <3> SUFFICES ASSUME FewFaults', Asked(logger')
                   PROVE  FlushHolds'
        BY DEF FlushHolds
      <3>1. /\ logger.frozen /\ timers = {}
            /\ logger.flushing \/ faults.write > 0
            /\ logger.async_result \in quiet =>
                 EndsWith(string, logger.async_result)
        BY <1>c, <2>1, <2>2, <2>3 DEF FlushHolds, Asked, string
      <3>2. logger.async_result \in Block /\ Asked(logger)
        BY <1>a, <2>3 DEF Asked
      <3>a. /\ rest = <<>> <=> n = Len(string)
            /\ EndsWith(string, logger.async_result) =>
                 /\ rest # <<>> => EndsWith(rest, logger.async_result)
                 /\ n = Len(string) => EndsWith(file', logger.async_result)
        BY <2>4, <3>2
      <3>3. CASE logger.flushing /\ rest # <<>>
        <4>1. faults'.write > 0
          BY <1>b, <2>1, <3>a, <3>3
        <4> QED
          BY <2>1, <2>3, <3>a, <3>1, <3>2, <3>3, <4>1 DEF FlushHolds
      <3>4. CASE ~ (logger.flushing /\ rest # <<>>)
        <4>1. n = Len(string) /\ rest = <<>>
          BY <2>2, <3>a, <3>1, <3>4
        <4> QED
          BY <2>1, <2>3, <3>a, <3>1, <3>2, <3>4, <4>1 DEF FlushHolds
      <3> QED
        BY <3>3, <3>4
    <2> QED
      BY <2>5, <2>6, <2>7, <2>8 DEF CopyInv
  <1>4. CASE FlushCompletes
    <2>1. /\ logger.pending = "flush" /\ Asked(logger)
          /\ timers' = timers \union {logger.async_result}
          /\ logger' = Flushed(logger)
          /\ UNCHANGED <<file, copies, found, faults, quiet>>
      BY <1>4, <1>c DEF FlushCompletes, InOrder
    <2>2. /\ logger'.pending = "none" /\ ~ Asked(logger')
          /\ logger'.write_all_string = logger.write_all_string
          /\ logger'.file_known = logger.file_known
          /\ logger'.frozen = logger.frozen
          /\ logger'.flushing = logger.flushing
      BY <1>a, <2>1 DEF Flushed, Asked, Loggers, LoggersOver
    <2>3. LoggerInOrder'
      BY <1>c, <2>1, <2>2 DEF LoggerInOrder, InOrder
    <2>4. Numbered' /\ CopiesWhole'
      BY <1>c, <2>1, <2>2 DEF Numbered, CopiesWhole, FewFaults
    <2>5. TimersHold'
      BY <1>c, <2>1, <2>2 DEF TimersHold, FlushHolds, FewFaults
    <2>6. FlushHolds'
      BY <2>2 DEF FlushHolds
    <2> QED
      BY <2>3, <2>4, <2>5, <2>6 DEF CopyInv
  (* A timeout leaves the logger thawed, whatever became of the copy. *)
  <1>5. ASSUME NEW b \in timers, NEW l \in Loggers,
               UNCHANGED <<quiet, found>>, timers' = timers \ {b},
               faults'.write = faults.write,
               logger' = Thaw(l),
               InOrder(l), l.file_known = logger.file_known,
               l.async_result = logger.async_result,
               l.flushing = logger.flushing,
               logger.frozen => /\ l.pending = logger.pending
                                /\ l.write_all_string = logger.write_all_string,
               \/ UNCHANGED copies
               \/ copies' = Append(copies, [block |-> b, content |-> file])
        PROVE  CopyInv'
    <2>1. FewFaults' <=> FewFaults
      BY <1>5 DEF FewFaults
    <2>2. CopiesWhole' /\ \A i \in DOMAIN copies' : copies'[i].block <= found'
      BY <1>5, <1>f, <2>1
    <2>3. /\ logger'.file_known = l.file_known /\ ~ logger'.frozen
          /\ logger'.flushing = l.flushing
          /\ logger'.async_result = l.async_result
          /\ l.pending # "none" =>
               /\ logger'.pending = l.pending
               /\ logger'.write_all_string = l.write_all_string
          /\ l.pending = "none" =>
               /\ logger'.pending = IF logger'.write_all_string = <<>>
                                    THEN "none" ELSE "write"
               /\ Asked(l) => logger'.write_all_string = l.write_all_string
      BY <1>5, ThawFields
    <2>4. Numbered'
      BY <1>5, <1>c, <2>2, <2>3 DEF Numbered, Asked
    <2>5. LoggerInOrder'
      BY <1>5, <1>c, <2>3 DEF LoggerInOrder, InOrder, Asked
    <2>6. FewFaults => /\ timers = {b} /\ logger.frozen
                       /\ logger.pending = "none"
                       /\ logger.write_all_string = <<>>
      BY <1>c, <1>5 DEF TimersHold
    <2>7. TimersHold'
      BY <1>5, <2>1, <2>6 DEF TimersHold
    <2>8. FlushHolds'
      BY <1>5, <2>1, <2>3, <2>6 DEF FlushHolds, Asked
    <2> QED
      BY <2>2, <2>4, <2>5, <2>7, <2>8 DEF CopyInv
  <1>6. ASSUME NEW b \in timers, RoundClosed(b)
        PROVE  CopyInv'
    <2> DEFINE l == Log(logger, Started)
    <2>1. /\ logger' = Thaw(l) /\ faults' = faults
          /\ timers' = timers \ {b}
          /\ copies' = Append(copies, [block |-> b, content |-> file])
          /\ UNCHANGED <<quiet, found>>
      BY <1>6 DEF RoundClosed
    <2>2. l \in Loggers /\ Started \in Entry
      BY <1>a, EntryKinds, LogFacts
    <2>3. /\ InOrder(l) /\ l.file_known = logger.file_known
          /\ l.async_result = logger.async_result
          /\ l.flushing = logger.flushing
          /\ logger.frozen => /\ l.pending = logger.pending
                              /\ l.write_all_string = logger.write_all_string
      BY <1>g, <2>2 DEF Writable
    <2> HIDE DEF l
    <2> QED
      BY <1>5, <2>1, <2>2, <2>3
  <1>7. ASSUME NEW b \in timers, NEW copied \in BOOLEAN,
               RoundNotClosed(b, copied)
        PROVE  CopyInv'
    <2>1. /\ logger' = Thaw(logger) /\ faults'.write = faults.write
          /\ timers' = timers \ {b}
          /\ \/ UNCHANGED copies
             \/ copies' = Append(copies, [block |-> b, content |-> file])
          /\ UNCHANGED <<quiet, found>>
      BY <1>7, <1>b DEF RoundNotClosed, Faults
    <2> QED
      BY <1>5, <1>a, <1>c, <2>1
  (* A restart forgets what was under way. *)
  <1>8. ASSUME Reopen, CopiesWhole',
               \A i \in DOMAIN copies' : copies'[i].block <= found'
        PROVE  CopyInv'
    <2>1. logger' = OpenLogger(TRUE) /\ timers' = {}
          /\ UNCHANGED <<found, quiet>>
      BY <1>8 DEF Reopen
    <2>2. /\ ~ logger'.frozen /\ ~ logger'.flushing /\ ~ Asked(logger')
          /\ logger'.pending = "write" /\ logger'.write_all_string # <<>>
      BY <2>1, OpenLoggerFields
    <2> QED
      BY <1>8, <1>c, <2>1, <2>2
      DEF CopyInv, LoggerInOrder, InOrder, Numbered, TimersHold, FlushHolds
  <1>9. CASE Killed
    <2>1. UNCHANGED <<quiet, found, copies>> /\ faults'.write = faults.write
      BY <1>9, <1>b DEF Killed, Reopen, Faults
    <2>2. CopiesWhole' /\ \A i \in DOMAIN copies' : copies'[i].block <= found'
      BY <1>c, <2>1 DEF Numbered, CopiesWhole, FewFaults
    <2> QED
      BY <1>8, <1>9, <2>2 DEF Killed
  <1>10. ASSUME NEW b \in timers, KilledInCopy(b)
         PROVE  CopyInv'
    <2>1. /\ UNCHANGED <<quiet, found>> /\ faults'.write = faults.write
          /\ copies' = Append(copies, [block |-> b, content |-> file])
      BY <1>10, <1>b DEF KilledInCopy, Reopen, Faults
    <2>2. CopiesWhole' /\ \A i \in DOMAIN copies' : copies'[i].block <= found'
      BY <1>f, <2>1 DEF FewFaults
    <2> QED
      BY <1>8, <1>10, <2>2 DEF KilledInCopy
  <1>11. CASE UNCHANGED roundVars
    BY <1>11, <1>c DEF roundVars, CopyInv, LoggerInOrder, InOrder, Numbered,
       TimersHold, FlushHolds, CopiesWhole, FewFaults, Asked
  <1> QED
    BY <1>1, <1>2, <1>3, <1>4, <1>6, <1>7, <1>9, <1>10, <1>11
    DEF RoundNext, CopyTimeout

LEMMA CopyInvariant == RoundSpec => []CopyInv
  BY RoundStepCopy, RoundInitCopy, RoundInvariant, PTL DEF RoundSpec

(* The copy of a round whose block was found with the logger at rest ends    *)
(* with that block's entry, whatever overlaps, is refused, fails or restarts *)
(* afterwards, if at most one write is short.                                *)
THEOREM QuietRoundsCopied == RoundSpec => []QuietRoundCopied
  <1>1. CopyInv => QuietRoundCopied
    BY DEF CopyInv, CopiesWhole, QuietRoundCopied, FewFaults, EndsWith
  <1> QED
    BY <1>1, CopyInvariant, PTL

-----------------------------------------------------------------------------
(* Nothing is stranded while blocks are found apart.  A flush is asked for   *)
(* only right after the BLOCK entry was logged on a logger that writes at    *)
(* once, so that the stream is busy for it until it ends; the logger stays   *)
(* frozen until the timeout, and thaws with the queue going to the stream.   *)

(* What the logger has is with the stream, if it has anything. *)
Moving(l) ==
  l.pending = "none" => l.queue = <<>> /\ l.write_all_string = <<>>

Followed(b) ==
  Archived(b) \/ b \in timers \/ logger.async_result = b

SpacedInv ==
  faults.overlap = 0 =>
    /\ Asked(logger) =>
         logger.frozen /\ logger.pending # "none" /\ timers = {}
    /\ timers # {} =>
         logger.frozen /\ logger.pending = "none" /\ \E b \in Block : timers = {b}
    /\ ~ logger.frozen => Moving(logger)
    /\ logger.file_known /\ faults.copy + faults.restart = 0 =>
         \A b \in 1 .. found : Followed(b)

LEMMA WriteAllMoves ==
  ASSUME NEW l \in Loggers, Writable(l)
  PROVE  l.pending = "none" => Moving(WriteAll(l))
  <1> SUFFICES ASSUME l.pending = "none" PROVE Moving(WriteAll(l))
    OBVIOUS
  <1> DEFINE drained == Drain(l)
             started == [drained EXCEPT !.pending = "write"]
  <1>1. drained.queue = <<>>
    BY DEF Drain, Loggers, LoggersOver
  <1>2. started.pending = "write"
    BY DEF Drain, Loggers, LoggersOver
  <1>3. WriteAll(l) = IF drained.write_all_string = <<>> THEN drained ELSE started
    BY DEF WriteAll
  <1> HIDE DEF drained, started
  <1> QED
    BY <1>1, <1>2, <1>3 DEF Moving

LEMMA ThawMoves ==
  ASSUME NEW l \in Loggers, ~ Asked(l), ~ l.flushing, l.pending = "none"
  PROVE  Moving(Thaw(l))
  <1> DEFINE thawed == [l EXCEPT !.frozen = FALSE]
  <1>1. /\ thawed \in Loggers /\ thawed.pending = "none"
        /\ ~ thawed.frozen /\ ~ thawed.flushing
        /\ thawed.async_result = l.async_result
    BY DEF Loggers, LoggersOver
  <1>2. Thaw(l) = WriteAll(thawed)
    BY DEF Thaw
  <1> HIDE DEF thawed
  <1>3. Writable(thawed)
    BY <1>1 DEF Writable, Asked
  <1> QED
    BY <1>1, <1>2, <1>3, WriteAllMoves

LEMMA WrittenMoves ==
  ASSUME NEW l \in Loggers, NEW n \in 0 .. Len(l.write_all_string),
         ~ Asked(l), ~ l.frozen
  PROVE  Moving(Written(l, n))
  <1> DEFINE rest == SubSeq(l.write_all_string, n + 1, Len(l.write_all_string))
             erased == Erased(l, n)
             ended == [erased EXCEPT !.flushing = FALSE]
  <1>1. rest \in Seq(Entry)
    <2>1. l.write_all_string \in Seq(Entry) /\ Len(l.write_all_string) \in Nat
      BY LoggerFields, LenProperties
    <2>2. \A i \in 1 .. Len(l.write_all_string) : l.write_all_string[i] \in Entry
      BY <2>1, ElementOfSeq
    <2> QED
      BY <2>1, <2>2, SubSeqProperties
  <1>2. /\ ended \in Loggers /\ ended.pending = "none"
        /\ ~ ended.frozen /\ ~ ended.flushing
        /\ ended.async_result = l.async_result
    BY <1>1 DEF Erased, Loggers, LoggersOver
  <1>3. Written(l, n) = WriteAll(ended)
    BY DEF Written, Asked
  <1> HIDE DEF ended
  <1>4. Writable(ended)
    BY <1>2 DEF Writable, Asked
  <1> QED
    BY <1>2, <1>3, <1>4, WriteAllMoves

LEMMA RoundInitSpaced == RoundInit => SpacedInv
  <1> SUFFICES ASSUME RoundInit PROVE SpacedInv
    OBVIOUS
  <1>1. PICK exists \in BOOLEAN : logger = OpenLogger(exists)
    BY DEF RoundInit
  <1>2. ~ logger.frozen /\ ~ Asked(logger) /\ logger.pending = "write"
    BY <1>1, OpenLoggerFields
  <1>3. timers = {} /\ found = 0
    BY DEF RoundInit
  <1> QED
    BY <1>2, <1>3 DEF SpacedInv, Moving

LEMMA RoundStepSpaced ==
  RoundInv /\ LoggerInOrder /\ SpacedInv /\ [RoundNext]_roundVars => SpacedInv'
  <1> SUFFICES ASSUME RoundInv, LoggerInOrder, SpacedInv, [RoundNext]_roundVars,
                      faults'.overlap = 0
               PROVE  SpacedInv'
    BY DEF SpacedInv
  <1>a. /\ logger \in Loggers /\ found \in 0 .. MaxBlocks
        /\ timers \in SUBSET Block /\ logger.flushing \in BOOLEAN
        /\ logger.async_result \in Block \union {NoCopy}
        /\ logger.pending \in {"none", "write", "flush"}
        /\ logger.file_known \in BOOLEAN /\ logger.frozen \in BOOLEAN
        /\ faults \in Faults
        /\ copies \in Seq([block : Block, content : Seq(Entry)])
    BY DEF RoundInv, RoundTypeOK, Loggers, LoggersOver, Faults
  <1>b. /\ logger.pending = "flush" => Asked(logger)
        /\ logger.flushing => Asked(logger) /\ logger.pending = "write"
        /\ logger.frozen /\ ~ Asked(logger) => timers # {}
        /\ ~ logger.file_known => ~ Asked(logger) /\ timers = {} /\ ~ logger.frozen
    BY DEF LoggerInOrder, InOrder
  <1>c. \A b \in Block : b # NoCopy
    BY NoCopyIsNoBlock
  <1>g. /\ \A i \in 1 .. found : i # NoCopy
        /\ MaxBlocks \in Nat /\ MaxShares \in Nat
    <2>1. MaxBlocks \in Nat /\ MaxShares \in Nat
      BY RoundManagerAssumption
    <2>2. \A i \in 1 .. found : i \in Block
      BY <1>a, <2>1 DEF Block
    <2> QED
      BY <1>c, <2>1, <2>2
  <1>d. /\ faults.copy \in Nat /\ faults.restart \in Nat /\ faults.overlap \in Nat
        /\ faults'.overlap = faults.overlap =>
             faults.overlap = 0
    BY <1>a DEF Faults
  (* The four parts, as the steps below have them. *)
  <1>e. faults.overlap = 0 =>
          /\ Asked(logger) =>
               logger.frozen /\ logger.pending # "none" /\ timers = {}
          /\ timers # {} =>
               /\ logger.frozen /\ logger.pending = "none"
               /\ \E b \in Block : timers = {b}
          /\ ~ logger.frozen => Moving(logger)
          /\ logger.file_known /\ faults.copy + faults.restart = 0 =>
               \A b \in 1 .. found : Followed(b)
    BY DEF SpacedInv
  <1>f. ASSUME NEW i, i \in 1 .. found, UNCHANGED copies, Archived(i)
        PROVE  Archived(i)'
    BY <1>f DEF Archived
  <1>1. CASE WorkValidated
    <2> DEFINE entry == Share(shares')
    <2>1. /\ logger' = Log(logger, entry)
          /\ UNCHANGED <<copies, timers, found, faults>>
      BY <1>1 DEF WorkValidated
    <2>2. entry \in Entry
      <3>1. shares' = shares + 1 /\ shares < MaxShares /\ shares \in 0 .. MaxShares
        BY <1>1 DEF WorkValidated, RoundInv, RoundTypeOK
      <3>2. shares' \in 1 .. MaxShares
        BY <1>g, <3>1
      <3> QED
        BY <3>2, EntryKinds
    <2> HIDE DEF entry
    <2>3. /\ logger'.file_known = logger.file_known
          /\ logger'.frozen = logger.frozen
          /\ logger'.async_result = logger.async_result
          /\ logger.frozen => logger'.pending = logger.pending
          /\ logger.pending # "none" => logger'.pending = logger.pending
          /\ Writable(logger) => logger'.pending # "none"
      BY <1>a, <2>1, <2>2, LogFields DEF Writable
    <2>4. ~ logger.frozen => Writable(logger)
      BY <1>b, <1>d, <1>e, <2>1 DEF Writable, Asked
    <2> QED
      BY <1>d, <1>e, <2>1, <2>3, <2>4 DEF SpacedInv, Asked, Moving, Followed, Archived
  <1>2. CASE BlockFound
    <2> DEFINE b == found + 1
               l == Log(logger, BlockEntry(b))
    <2>1. /\ logger' = CopyAndTruncate(l, b) /\ found' = b /\ b \in Block
          /\ UNCHANGED <<copies, timers>>
      <3>1. found < MaxBlocks
        BY <1>2 DEF BlockFound
      <3>2. b \in Block
        BY <1>a, <1>g, <3>1 DEF Block
      <3> QED
        BY <1>2, <3>2 DEF BlockFound, CloseRound
    <2>2. ~ logger.frozen /\ faults' = faults
      BY <1>2, <1>a, <1>d DEF BlockFound, Faults
    <2>3. ~ Asked(logger) /\ timers = {} /\ Writable(logger)
      BY <1>b, <1>d, <1>e, <2>2 DEF Writable, Asked
    <2>4. /\ l \in Loggers /\ l.pending = "write" /\ l.file_known = logger.file_known
          /\ ~ Asked(l) /\ ~ l.frozen
      <3>1. BlockEntry(b) \in Entry
        BY <2>1, EntryKinds
      <3> QED
        BY <1>a, <1>b, <2>2, <2>3, <3>1, LogFacts, LogFields DEF Asked
    <2> HIDE DEF l
    <2>5. CASE logger.file_known
      <3>1. /\ logger'.frozen /\ logger'.async_result = b
            /\ logger'.pending = "write"
        BY <2>1, <2>4, <2>5, CopyAndTruncateFields
      <3>2. logger'.file_known = logger.file_known
        BY <2>1, <2>4, <2>5, CopyAndTruncateFields
      <3>3. \A i \in 1 .. found' : i \in 1 .. found \/ i = b
        BY <1>a, <2>1
      <3>4. faults.copy + faults.restart = 0 =>
              \A i \in 1 .. found : Archived(i)
        <4>1. \A i \in 1 .. found : i \notin timers /\ logger.async_result # i
          BY <1>g, <2>3 DEF Asked
        <4> QED
          BY <1>d, <1>e, <2>2, <2>5, <4>1 DEF Followed
      <3> QED
        BY <2>1, <2>2, <2>3, <3>1, <3>2, <3>3, <3>4
        DEF SpacedInv, Followed, Archived
    <2>6. CASE ~ logger.file_known
      <3>1. logger' = l
        BY <2>1, <2>4, <2>6 DEF CopyAndTruncate
      <3> QED
        BY <2>1, <2>3, <2>4, <2>6, <3>1 DEF SpacedInv, Moving
    <2> QED
      BY <1>a, <2>5, <2>6
  <1>3. ASSUME NEW n \in 0 .. Len(logger.write_all_string), WriteCompletes(n)
        PROVE  SpacedInv'
    <2>1. /\ logger' = Written(logger, n) /\ logger.pending = "write"
          /\ UNCHANGED <<copies, timers, found>>
          /\ faults'.copy = faults.copy /\ faults'.restart = faults.restart
          /\ faults'.overlap = faults.overlap
      BY <1>3, <1>a DEF WriteCompletes, Faults
    <2>2. /\ logger'.file_known = logger.file_known
          /\ logger'.frozen = logger.frozen
          /\ logger'.async_result = logger.async_result
          /\ Asked(logger) => logger'.pending # "none"
      BY <1>a, <2>1, WrittenFields
    <2>3. ~ logger.frozen => Moving(logger')
      BY <1>a, <1>d, <1>e, <2>1, WrittenMoves
    <2> QED
      BY <1>d, <1>e, <2>1, <2>2, <2>3 DEF SpacedInv, Asked, Followed, Archived
  <1>4. CASE FlushCompletes
    <2>1. /\ logger.pending = "flush" /\ Asked(logger)
          /\ timers' = timers \union {logger.async_result}
          /\ UNCHANGED <<copies, found, faults>>
      BY <1>4, <1>b DEF FlushCompletes
    <2>2. /\ logger'.file_known = logger.file_known
          /\ logger'.frozen = logger.frozen
          /\ logger'.async_result = NoCopy /\ logger'.pending = "none"
      BY <1>4, <1>a DEF FlushCompletes, Flushed, Loggers, LoggersOver
    <2>3. logger.frozen /\ timers' = {logger.async_result}
          /\ logger.async_result \in Block
      BY <1>a, <1>d, <1>e, <2>1 DEF Asked
    <2> QED
      BY <1>d, <1>e, <2>1, <2>2, <2>3 DEF SpacedInv, Asked, Followed, Archived
  (* A timeout that ends thaws the logger; l is the logger it thaws. *)
  <1>5. ASSUME NEW b \in timers, NEW l \in Loggers, logger' = Thaw(l),
               l.file_known = logger.file_known, l.frozen = logger.frozen,
               l.async_result = logger.async_result,
               l.flushing = logger.flushing,
               logger.frozen => l.pending = logger.pending,
               timers' = timers \ {b}, UNCHANGED found,
               faults.overlap = 0,
               faults'.copy + faults'.restart = 0 =>
                 /\ faults.copy + faults.restart = 0
                 /\ \A i \in 1 .. found : Archived(i) => Archived(i)'
                 /\ Archived(b)'
        PROVE  SpacedInv'
    <2>1. /\ logger.frozen /\ logger.pending = "none" /\ ~ Asked(logger)
          /\ timers' = {} /\ timers = {b}
      BY <1>e, <1>5
    <2>2. /\ ~ l.flushing /\ ~ Asked(l) /\ l.pending = "none"
      BY <1>5, <1>b, <2>1 DEF Asked
    <2>3. Moving(logger') /\ ~ logger'.frozen /\ ~ Asked(logger')
          /\ logger'.file_known = logger.file_known
      BY <1>5, <2>2, ThawMoves, ThawFields DEF Asked
    <2>4. logger.file_known /\ faults'.copy + faults'.restart = 0 =>
            \A i \in 1 .. found : Archived(i)'
      <3>1. \A i \in 1 .. found : logger.async_result # i
        BY <1>g, <2>1 DEF Asked
      <3> QED
        BY <1>e, <1>5, <2>1, <3>1 DEF Followed
    <2> QED
      BY <1>5, <2>1, <2>3, <2>4 DEF SpacedInv, Followed
  (* A copy made of the block b. *)
  <1>6. ASSUME NEW b \in timers,
               copies' = Append(copies, [block |-> b, content |-> file])
        PROVE  Archived(b)' /\ \A i : Archived(i) => Archived(i)'
    <2> DEFINE copy == [block |-> b, content |-> file]
    <2>1. /\ DOMAIN copies = 1 .. Len(copies) /\ Len(copies) \in Nat
          /\ DOMAIN copies' = 1 .. Len(copies) + 1
          /\ \A i \in 1 .. Len(copies) : copies'[i] = copies[i]
          /\ copies'[Len(copies) + 1] = copy
      BY <1>a, <1>6
    <2>2. Archived(b)'
      BY <2>1 DEF Archived
    <2> QED
      BY <2>1, <2>2 DEF Archived
  <1>7. ASSUME NEW b \in timers, RoundClosed(b)
        PROVE  SpacedInv'
    <2> DEFINE l == Log(logger, Started)
    <2>1. /\ logger' = Thaw(l) /\ faults' = faults
          /\ timers' = timers \ {b} /\ UNCHANGED found
          /\ copies' = Append(copies, [block |-> b, content |-> file])
      BY <1>7 DEF RoundClosed
    <2>2. Started \in Entry
      BY EntryKinds
    <2>3. /\ l \in Loggers
          /\ l.file_known = logger.file_known /\ l.frozen = logger.frozen
          /\ l.async_result = logger.async_result /\ l.flushing = logger.flushing
          /\ logger.frozen => l.pending = logger.pending
      BY <1>a, <2>2, LogFacts, LogFields DEF Writable
    <2> HIDE DEF l
    <2> QED
      BY <1>d, <1>5, <1>6, <2>1, <2>3
  <1>8. ASSUME NEW b \in timers, NEW copied \in BOOLEAN, RoundNotClosed(b, copied)
        PROVE  SpacedInv'
    <2>1. /\ logger' = Thaw(logger) /\ timers' = timers \ {b} /\ UNCHANGED found
          /\ faults'.overlap = faults.overlap /\ faults'.restart = faults.restart
          /\ \/ faults'.copy = faults.copy /\ copied
             \/ faults'.copy = faults.copy + 1
          /\ copied => copies' = Append(copies, [block |-> b, content |-> file])
      BY <1>8, <1>a DEF RoundNotClosed, Faults
    <2>2. faults'.copy + faults'.restart = 0 =>
            copied /\ faults.copy + faults.restart = 0
      BY <1>d, <2>1
    <2> QED
      BY <1>a, <1>d, <1>5, <1>6, <2>1, <2>2
  <1>9. CASE Reopen
    <2>1. /\ logger' = OpenLogger(TRUE) /\ timers' = {}
          /\ faults'.restart = faults.restart + 1 /\ faults'.copy = faults.copy
      BY <1>9, <1>a DEF Reopen, Faults
    <2>2. ~ logger'.frozen /\ ~ Asked(logger') /\ logger'.pending = "write"
      BY <2>1, OpenLoggerFields
    <2>3. faults'.copy + faults'.restart # 0
      BY <1>d, <2>1
    <2> QED
      BY <2>1, <2>2, <2>3 DEF SpacedInv, Moving
  <1>10. CASE UNCHANGED roundVars
    BY <1>d, <1>e, <1>10
    DEF roundVars, SpacedInv, Asked, Moving, Followed, Archived
  <1> QED
    BY <1>1, <1>2, <1>3, <1>4, <1>7, <1>8, <1>9, <1>10
    DEF RoundNext, CopyTimeout, Killed, KilledInCopy

(* While blocks are found apart, every entry is on file or on its way, and   *)
(* every round of a named file is copied, or its copy is on its way, unless  *)
(* a copy failed or the process was killed.                                  *)
THEOREM NoneIsStranded == RoundSpec => []NothingIsStranded
  <1>1. RoundSpec => [](LoggerInOrder /\ SpacedInv)
    <2>1. CopyInv => LoggerInOrder
      BY DEF CopyInv
    <2> QED
      BY <2>1, RoundInitSpaced, RoundStepSpaced, RoundInvariant, CopyInvariant,
         PTL DEF RoundSpec
  <1>2. ASSUME RoundTypeOK, LoggerInOrder, SpacedInv
        PROVE  NothingIsStranded
    <2> SUFFICES ASSUME faults.overlap = 0
                 PROVE  /\ AllWritten \/ logger.pending # "none" \/ timers # {}
                        /\ logger.file_known /\ faults.copy + faults.restart = 0 =>
                             \A b \in 1 .. found :
                               \/ Archived(b) \/ b \in timers
                               \/ logger.async_result = b /\ logger.pending # "none"
      BY DEF NothingIsStranded
    <2>1. AllWritten \/ logger.pending # "none" \/ timers # {}
      BY <1>2 DEF SpacedInv, LoggerInOrder, Moving, AllWritten
    <2>2. \A b \in 1 .. found : logger.async_result = b => Asked(logger)
      <3>1. \A b \in 1 .. found : b \in Block
        BY <1>2, RoundManagerAssumption DEF RoundTypeOK, Block
      <3> QED
        BY <3>1, NoCopyIsNoBlock DEF Asked
    <2> QED
      BY <1>2, <2>1, <2>2 DEF SpacedInv, Followed
  <1>3. RoundInv => RoundTypeOK
    BY DEF RoundInv
  <1> QED
    BY <1>1, <1>2, <1>3, RoundInvariant, PTL
=============================================================================
