------------------------ MODULE WorkValidatorProofs ------------------------
(* Proofs about the validation of results, for any number of miners, items   *)
(* and threads: the tables of tracked items follow the blocks, and the same  *)
(* nonce of the same item is never accepted twice.                           *)
EXTENDS WorkValidator, WorkHeaderProofs, SequenceTheorems, DataTheorems, TLAPS

JobOK == [share : Share, stale : BOOLEAN]

(* The results accepted, and those in the thread pool that still may be. *)
Accepted == {v.share : v \in {w \in verdicts : w.verdict = "success"}}
Underway == {pool[i].share : i \in {j \in DOMAIN pool : ~ pool[j].stale}}
Candidates == Accepted \union Underway

(* The word after the array holds the nonce written there, as long as the    *)
(* item is in the table of the current block.                                *)
SlotHoldsNonce ==
  \A r \in DOMAIN work_by_merkle_root :
    LET work == work_by_merkle_root[r]
    IN  Len(work.nonces) > NonceMax =>
          work.possible_stale = work.nonces[NonceMax + 1]

(* The nonce of a candidate is recorded in its item, while that is current.  *)
NonceRecorded(table, s) ==
  \E i \in DOMAIN table[s.root].nonces : table[s.root].nonces[i] = s.nonce

CandidatesRecorded ==
  \A s \in Candidates :
    /\ s.root \in DOMAIN sent
    /\ s.root \in DOMAIN work_by_merkle_root =>
         NonceRecorded(work_by_merkle_root, s)

CandidatesOnce ==
  \A s, t \in Candidates :
    s.root = t.root /\ s.nonce = t.nonce => s.id = t.id

ValidatorInv ==
  /\ ValidatorTypeOK
  /\ TablesFollowBlocks
  /\ SlotHoldsNonce
  /\ CandidatesRecorded
  /\ CandidatesOnce

-----------------------------------------------------------------------------
(* The candidates.                                                           *)

LEMMA NewJob ==
  ASSUME pool \in Seq(JobOK), NEW job \in JobOK, pool' = Append(pool, job)
  PROVE  /\ pool' \in Seq(JobOK)
         /\ job.stale => Underway' \subseteq Underway
         /\ Underway' \subseteq Underway \union {job.share}
  <1>1. /\ pool' \in Seq(JobOK)
        /\ Len(pool') = Len(pool) + 1 /\ Len(pool) \in Nat
        /\ \A i \in 1 .. Len(pool) : pool'[i] = pool[i]
        /\ pool'[Len(pool) + 1] = job
    BY AppendProperties, LenProperties
  <1>2. DOMAIN pool = 1 .. Len(pool) /\ DOMAIN pool' = 1 .. Len(pool) + 1
    BY <1>1, LenProperties
  <1>3. ASSUME NEW i \in DOMAIN pool', ~ pool'[i].stale
        PROVE  \/ pool'[i].share \in Underway
               \/ pool'[i].share = job.share /\ ~ job.stale
    <2>1. CASE i \in 1 .. Len(pool)
      BY <1>1, <1>2, <1>3, <2>1 DEF Underway
    <2>2. CASE i = Len(pool) + 1
      BY <1>1, <1>3, <2>2
    <2> QED
      BY <1>1, <1>2, <2>1, <2>2
  <1> QED
    BY <1>1, <1>3 DEF Underway

LEMMA JobDone ==
  ASSUME pool \in Seq(JobOK), NEW i \in DOMAIN pool, pool' = RemoveAt(pool, i)
  PROVE  /\ pool' \in Seq(JobOK)
         /\ Underway' \subseteq Underway
  <1>1. i \in 1 .. Len(pool)
    BY LenProperties
  <1>2. /\ pool' \in Seq(JobOK)
        /\ \A j \in DOMAIN pool' : \E k \in DOMAIN pool : pool'[j] = pool[k]
    BY <1>1, RemoveAtFacts
  <1> QED
    BY <1>2 DEF Underway

(* The argument for one step: what becomes a candidate answers a current     *)
(* item with a nonce that is only now recorded, and nothing recorded is      *)
(* forgotten while its item is current.                                      *)
LEMMA CandidatesStep ==
  ASSUME CandidatesRecorded, CandidatesOnce,
         NEW new,
         Candidates' \subseteq Candidates \union new,
         DOMAIN sent \subseteq DOMAIN sent',
         \A s, t \in new : s = t,
         \A s \in new : /\ s.root \in DOMAIN sent
                        /\ s.root \in DOMAIN work_by_merkle_root
                        /\ NonceRecorded(work_by_merkle_root', s)
                        /\ ~ NonceRecorded(work_by_merkle_root, s),
         \A s \in Candidates :
           s.root \in DOMAIN work_by_merkle_root' =>
             /\ s.root \in DOMAIN work_by_merkle_root
             /\ NonceRecorded(work_by_merkle_root, s) =>
                  NonceRecorded(work_by_merkle_root', s)
  PROVE  CandidatesRecorded' /\ CandidatesOnce'
  <1>1. CandidatesRecorded'
    <2> SUFFICES ASSUME NEW s \in Candidates'
                 PROVE  /\ s.root \in DOMAIN sent'
                        /\ s.root \in DOMAIN work_by_merkle_root' =>
                             NonceRecorded(work_by_merkle_root', s)
      BY DEF CandidatesRecorded, NonceRecorded
    <2> QED
      BY DEF CandidatesRecorded
  <1>2. ASSUME NEW s \in new, NEW t \in Candidates,
               s.root = t.root, s.nonce = t.nonce
        PROVE  FALSE
    <2>1. NonceRecorded(work_by_merkle_root, t)
      BY <1>2 DEF CandidatesRecorded
    <2> QED
      BY <1>2, <2>1 DEF NonceRecorded
  <1>3. CandidatesOnce'
    <2> SUFFICES ASSUME NEW s \in Candidates', NEW t \in Candidates',
                        s.root = t.root, s.nonce = t.nonce
                 PROVE  s.id = t.id
      BY DEF CandidatesOnce
    <2>1. CASE s \in Candidates /\ t \in Candidates
      BY <2>1 DEF CandidatesOnce
    <2>2. CASE s \in new /\ t \in new
      BY <2>2
    <2> QED
      BY <1>2, <2>1, <2>2
  <1> QED
    BY <1>1, <1>3

(* A step that makes no candidate and leaves the tables alone. *)
LEMMA TablesAlone ==
  ASSUME ValidatorInv, ValidatorTypeOK', Candidates' \subseteq Candidates,
         UNCHANGED <<tableVars, sent, block_num>>
  PROVE  ValidatorInv'
  <1>1. UNCHANGED <<work_by_merkle_root, work_by_merkle_root_prev, sent,
                    block_num>>
    BY DEF tableVars
  <1>2. TablesFollowBlocks' /\ SlotHoldsNonce'
    BY <1>1 DEF ValidatorInv, TablesFollowBlocks, SlotHoldsNonce
  <1>3. CandidatesRecorded' /\ CandidatesOnce'
    BY <1>1 DEF ValidatorInv, CandidatesRecorded, CandidatesOnce, NonceRecorded
  <1> QED
    BY <1>2, <1>3 DEF ValidatorInv

-----------------------------------------------------------------------------
(* Looking up and updating tracked items.                                    *)

LEMMA LookupFacts ==
  ASSUME TablesOK, NEW root, Known(root)
  PROVE  /\ Lookup(root) \in TrackedWork
         /\ root \in DOMAIN work_by_merkle_root =>
              Lookup(root) = work_by_merkle_root[root]
         /\ root \notin DOMAIN work_by_merkle_root =>
              Lookup(root).possible_stale = 1
  <1>1. CASE root \in DOMAIN work_by_merkle_root
    BY <1>1 DEF TablesOK, Lookup
  <1>2. CASE root \notin DOMAIN work_by_merkle_root
    <2>1. work_by_merkle_root_prev[root] \in TrackedWork
      BY <1>2 DEF TablesOK, Known
    <2> QED
      BY <1>2, <2>1 DEF Lookup, TrackedWork
  <1> QED
    BY <1>1, <1>2

LEMMA UpdateFacts ==
  ASSUME TablesOK, NEW root, NEW work \in TrackedWork,
         Update(root, work)
  PROVE  /\ TablesOK'
         /\ DOMAIN work_by_merkle_root' = DOMAIN work_by_merkle_root
         /\ DOMAIN work_by_merkle_root_prev' = DOMAIN work_by_merkle_root_prev
         /\ \A r \in DOMAIN work_by_merkle_root :
              work_by_merkle_root'[r] = IF r = root THEN work
                                        ELSE work_by_merkle_root[r]
  <1>1. CASE root \in DOMAIN work_by_merkle_root
    BY <1>1 DEF Update, TablesOK
  <1>2. CASE root \notin DOMAIN work_by_merkle_root
    BY <1>2 DEF Update, TablesOK
  <1> QED
    BY <1>1, <1>2

LEMMA RecordNonceFacts ==
  ASSUME NEW work \in TrackedWork, NEW nonce \in Nonce
  PROVE  LET recorded == RecordNonce(work, nonce)
         IN  /\ recorded \in TrackedWork
             /\ recorded.nonces = Append(work.nonces, nonce)
             /\ recorded.possible_stale =
                  IF Len(work.nonces) = NonceMax THEN nonce
                                                 ELSE work.possible_stale
  <1>1. Append(work.nonces, nonce) \in Seq(Nonce)
    BY AppendProperties DEF TrackedWork
  <1> QED
    BY <1>1 DEF RecordNonce, TrackedWork

-----------------------------------------------------------------------------
(* The invariant.                                                            *)

LEMMA ValidatorInitInv == ValidatorInit => ValidatorInv
  <1> SUFFICES ASSUME ValidatorInit PROVE ValidatorInv
    OBVIOUS
  <1>1. DOMAIN <<>> = {}
    OBVIOUS
  <1>2. ValidatorTypeOK
    <2>1. /\ 0 \in Blocks /\ 0 \in 0 .. MaxHashFailures /\ 0 \in 0 .. MaxShares
          /\ [b \in Blocks |-> 0] \in [Blocks -> Nat]
      BY ValidatorAssumption DEF Blocks
    <2>2. <<>> \in Seq(Blocks) /\ <<>> \in Seq([share : Share, stale : BOOLEAN])
      OBVIOUS
    <2>3. TablesOK
      BY <1>1 DEF ValidatorInit, TablesOK
    <2> QED
      BY <1>1, <2>1, <2>2, <2>3 DEF ValidatorInit, ValidatorTypeOK, Timing
  <1>3. TablesFollowBlocks /\ SlotHoldsNonce
    BY <1>1 DEF ValidatorInit, TablesFollowBlocks, SlotHoldsNonce
  <1>4. Candidates = {}
    BY <1>1 DEF ValidatorInit, Candidates, Accepted, Underway
  <1>5. CandidatesRecorded /\ CandidatesOnce
    BY <1>4 DEF CandidatesRecorded, CandidatesOnce
  <1> QED
    BY <1>2, <1>3, <1>5 DEF ValidatorInv

(* The types, taken apart. *)
LEMMA TypeFacts ==
  ASSUME ValidatorTypeOK
  PROVE  /\ TablesOK
         /\ block_num \in Blocks /\ block_num \in Nat
         /\ shares \in 0 .. MaxShares /\ shares \in Nat
         /\ pool \in Seq(JobOK)
         /\ MaxShares \in Nat /\ MaxBlocks \in Nat
  BY ValidatorAssumption DEF ValidatorTypeOK, JobOK, Blocks

LEMMA TrackWorkSentStep ==
  ASSUME ValidatorInv, NEW root \in Root, NEW user \in User,
         TrackWorkSent(root, user)
  PROVE  ValidatorInv'
  <1> DEFINE work == [user |-> user, nonces |-> <<>>, possible_stale |-> 0]
  <1>a. /\ ValidatorTypeOK /\ TablesOK /\ TablesFollowBlocks /\ SlotHoldsNonce
        /\ CandidatesRecorded /\ CandidatesOnce
        /\ block_num \in Blocks
    BY TypeFacts DEF ValidatorInv
  <1>1. /\ root \notin DOMAIN sent
        /\ work_by_merkle_root' = Inserted(work_by_merkle_root, root, work)
        /\ sent' = Inserted(sent, root, [user |-> user, block |-> block_num])
        /\ UNCHANGED <<work_by_merkle_root_prev, hashVars, shareVars>>
    BY DEF TrackWorkSent
  <1>2. /\ work \in TrackedWork
        /\ work.nonces = <<>>
    BY DEF TrackedWork
  <1> HIDE DEF work
  <1>3. /\ DOMAIN work_by_merkle_root' = DOMAIN work_by_merkle_root \union {root}
        /\ work_by_merkle_root'[root] = work
        /\ \A r \in DOMAIN work_by_merkle_root \ {root} :
             work_by_merkle_root'[r] = work_by_merkle_root[r]
    BY <1>1 DEF Inserted
  <1>4. /\ DOMAIN sent' = DOMAIN sent \union {root}
        /\ sent'[root] = [user |-> user, block |-> block_num]
        /\ \A r \in DOMAIN sent : sent'[r] = sent[r]
    BY <1>1 DEF Inserted
  <1>5. UNCHANGED <<block_num, strings, freed, block_hash, block_hash_prev,
                    hash_calls, failures, timing, shares, pool, verdicts,
                    work_by_merkle_root_prev>>
    BY <1>1 DEF hashVars, shareVars
  <1>6. ValidatorTypeOK'
    <2>1. TablesOK'
      BY <1>a, <1>2, <1>3, <1>5 DEF TablesOK
    <2>2. DOMAIN sent' \subseteq Root
          /\ \A r \in DOMAIN sent' : sent'[r] \in [user : User, block : Blocks]
      BY <1>a, <1>4 DEF ValidatorTypeOK
    <2> QED
      BY <1>a, <1>5, <2>1, <2>2 DEF ValidatorTypeOK
  <1>7. TablesFollowBlocks'
    BY <1>a, <1>1, <1>3, <1>4, <1>5 DEF TablesFollowBlocks
  <1>8. SlotHoldsNonce'
    <2> SUFFICES ASSUME NEW r \in DOMAIN work_by_merkle_root',
                        Len(work_by_merkle_root'[r].nonces) > NonceMax
                 PROVE  work_by_merkle_root'[r].possible_stale
                          = work_by_merkle_root'[r].nonces[NonceMax + 1]
      BY DEF SlotHoldsNonce
    <2>1. r # root
      BY <1>2, <1>3, ValidatorAssumption
    <2> QED
      BY <1>a, <1>3, <2>1 DEF SlotHoldsNonce
  <1>9. CandidatesRecorded' /\ CandidatesOnce'
    <2>1. Candidates' = Candidates
      BY <1>5 DEF Candidates, Accepted, Underway
    <2>2. \A s \in Candidates : s.root # root
      BY <1>a, <1>1 DEF CandidatesRecorded
    <2>3. ASSUME NEW s \in Candidates, s.root \in DOMAIN work_by_merkle_root'
          PROVE  /\ s.root \in DOMAIN work_by_merkle_root
                 /\ NonceRecorded(work_by_merkle_root, s) =>
                      NonceRecorded(work_by_merkle_root', s)
      BY <1>3, <2>2, <2>3 DEF NonceRecorded
    <2> QED
      BY <1>a, <1>4, <2>1, <2>3 DEF CandidatesRecorded, CandidatesOnce
  <1> QED
    BY <1>6, <1>7, <1>8, <1>9 DEF ValidatorInv

(* What a block and an answer make of the history of timing. *)
LEMMA TimingFacts ==
  ASSUME timing \in Timing
  PROVE  /\ TimingOfBlock =>
              /\ timing' \in Timing
              /\ timing'.orderly = timing.orderly
              /\ timing'.kept_up => HashSettled /\ timing.orderly
              /\ timing'.unanswered =
                   IF block_hash = 0 \/ timing.unanswered = 2
                   THEN timing.unanswered ELSE timing.unanswered + 1
         /\ \A b : TimingOfAnswer(b) =>
              /\ timing' \in Timing
              /\ timing'.orderly =>
                   timing.orderly /\ (block_hash # 0 => strings[block_hash] <= b)
              /\ timing'.kept_up = timing.kept_up
              /\ timing'.unanswered = IF timing.unanswered = 2 THEN 2 ELSE 0
  <1>a. /\ timing.orderly \in BOOLEAN /\ timing.kept_up \in BOOLEAN
        /\ timing.unanswered \in 0 .. 2
    BY DEF Timing
  <1>1. ASSUME TimingOfBlock
        PROVE  /\ timing' \in Timing
               /\ timing'.orderly = timing.orderly
               /\ timing'.kept_up => HashSettled /\ timing.orderly
               /\ timing'.unanswered =
                    IF block_hash = 0 \/ timing.unanswered = 2
                    THEN timing.unanswered ELSE timing.unanswered + 1
    <2> DEFINE known == HashSettled /\ timing.orderly
               n == IF block_hash = 0 \/ timing.unanswered = 2
                    THEN timing.unanswered ELSE timing.unanswered + 1
    <2>1. known \in BOOLEAN /\ n \in 0 .. 2
      BY <1>a
    <2>2. timing' = [orderly |-> timing.orderly, kept_up |-> known,
                     unanswered |-> n]
      BY <1>1 DEF TimingOfBlock
    <2> HIDE DEF known, n
    <2>3. timing' \in Timing
      BY <1>a, <2>1, <2>2 DEF Timing
    <2>4. timing'.kept_up = known /\ timing'.unanswered = n
          /\ timing'.orderly = timing.orderly
      BY <2>2
    <2> QED
      BY <2>3, <2>4, Zenon DEF known, n
  <1>2. ASSUME NEW b, TimingOfAnswer(b)
        PROVE  /\ timing' \in Timing
               /\ timing'.orderly =>
                    timing.orderly /\ (block_hash # 0 => strings[block_hash] <= b)
               /\ timing'.kept_up = timing.kept_up
               /\ timing'.unanswered = IF timing.unanswered = 2 THEN 2 ELSE 0
    <2> DEFINE known ==
                 timing.orderly /\ (block_hash # 0 => strings[block_hash] <= b)
               n == IF timing.unanswered = 2 THEN 2 ELSE 0
    <2>1. known \in BOOLEAN /\ n \in 0 .. 2
      BY <1>a
    <2>2. timing' = [orderly |-> known, kept_up |-> timing.kept_up,
                     unanswered |-> n]
      BY <1>2 DEF TimingOfAnswer
    <2> HIDE DEF known, n
    <2>3. timing' \in Timing
      BY <1>a, <2>1, <2>2 DEF Timing
    <2>4. timing'.orderly = known /\ timing'.unanswered = n
          /\ timing'.kept_up = timing.kept_up
      BY <2>2
    <2> QED
      BY <2>3, <2>4, Zenon DEF known, n
  <1> QED
    BY <1>1, <1>2

LEMMA ValidatorNewBlockStep ==
  ASSUME ValidatorInv, ValidatorNewBlock
  PROVE  ValidatorInv'
  <1>a. /\ ValidatorTypeOK /\ TablesOK /\ TablesFollowBlocks
        /\ CandidatesRecorded /\ CandidatesOnce
        /\ block_num \in Nat /\ MaxBlocks \in Nat
    BY TypeFacts DEF ValidatorInv
  <1>1. /\ block_num < MaxBlocks
        /\ block_num' = block_num + 1
        /\ freed' = freed \union FreedByBlock
        /\ block_hash_prev' = block_hash
        /\ work_by_merkle_root_prev' = work_by_merkle_root
        /\ work_by_merkle_root' = <<>>
        /\ hash_calls' = [hash_calls EXCEPT ![block_num'] = @ + 1]
        /\ UNCHANGED <<strings, block_hash, failures, shares, pool, verdicts,
                       sent>>
        /\ TimingOfBlock
    BY DEF ValidatorNewBlock, TableAfterBlock, ResolveCurrentBlockHash, shareVars
  <1>2. DOMAIN work_by_merkle_root' = {}
    BY <1>1
  <1>3. ValidatorTypeOK'
    <2>1. TablesOK'
      BY <1>a, <1>1, <1>2 DEF TablesOK
    <2>2. block_num' \in Blocks
      BY <1>a, <1>1 DEF Blocks
    <2>3. hash_calls' \in [Blocks -> Nat]
      BY <1>a, <1>1, <2>2 DEF ValidatorTypeOK
    <2>4. freed' \subseteq DOMAIN strings'
          /\ {block_hash', block_hash_prev'} \subseteq {0} \union DOMAIN strings'
      BY <1>a, <1>1 DEF ValidatorTypeOK, FreedByBlock
    <2>5. timing' \in Timing
      BY <1>a, <1>1, TimingFacts DEF ValidatorTypeOK
    <2> QED
      BY <1>a, <1>1, <2>1, <2>2, <2>3, <2>4, <2>5 DEF ValidatorTypeOK
  <1>4. TablesFollowBlocks' /\ SlotHoldsNonce'
    BY <1>a, <1>1, <1>2 DEF TablesFollowBlocks, SlotHoldsNonce
  <1>5. Candidates' = Candidates
    BY <1>1 DEF Candidates, Accepted, Underway
  <1>6. CandidatesRecorded' /\ CandidatesOnce'
    BY <1>a, <1>1, <1>2, <1>5 DEF CandidatesRecorded, CandidatesOnce
  <1> QED
    BY <1>3, <1>4, <1>6 DEF ValidatorInv

LEMMA HashAnswerStep ==
  ASSUME ValidatorInv, HashAnswer
  PROVE  ValidatorInv'
  <1>a. ValidatorTypeOK
    BY DEF ValidatorInv
  <1>1. ASSUME NEW b \in Blocks, OnBlockHash(b)
        PROVE  ValidatorInv'
    <2>1. /\ hash_calls[b] > 0
          /\ hash_calls' = [hash_calls EXCEPT ![b] = @ - 1]
          /\ strings' = Append(strings, b)
          /\ block_hash' = Len(strings')
          /\ UNCHANGED <<block_num, freed, block_hash_prev>>
          /\ failures' = 0 /\ TimingOfAnswer(b)
          /\ UNCHANGED <<tableVars, shares, pool, verdicts, sent>>
      BY <1>1 DEF OnBlockHash, shareVars
    <2>2. /\ strings \in Seq(Blocks) /\ strings' \in Seq(Blocks)
          /\ Len(strings) \in Nat /\ Len(strings') = Len(strings) + 1
      BY <1>1, <1>a, <2>1, AppendProperties, LenProperties DEF ValidatorTypeOK
    <2>3. DOMAIN strings = 1 .. Len(strings)
          /\ DOMAIN strings' = 1 .. Len(strings) + 1
      BY <2>2, LenProperties
    <2>4. DOMAIN strings \subseteq DOMAIN strings'
          /\ block_hash' \in DOMAIN strings'
      BY <2>1, <2>2, <2>3
    <2>5. hash_calls' \in [Blocks -> Nat]
      BY <1>a, <2>1 DEF ValidatorTypeOK
    <2>6. ValidatorTypeOK'
      <3>1. TablesOK'
        BY <1>a, <2>1 DEF ValidatorTypeOK, TablesOK, tableVars
      <3>2. failures' \in 0 .. MaxHashFailures
        BY <2>1, ValidatorAssumption
      <3>3. timing' \in Timing
        BY <1>a, <2>1, TimingFacts DEF ValidatorTypeOK
      <3> QED
        BY <1>a, <2>1, <2>2, <2>4, <2>5, <3>1, <3>2, <3>3 DEF ValidatorTypeOK
    <2>7. Candidates' = Candidates
      BY <2>1 DEF Candidates, Accepted, Underway
    <2> QED
      BY <2>1, <2>6, <2>7, TablesAlone
  <1>2. ASSUME NEW b \in Blocks, OnBlockHashFailed(b)
        PROVE  ValidatorInv'
    <2> DEFINE rest == [hash_calls EXCEPT ![b] = @ - 1]
    <2>1. /\ hash_calls[b] > 0
          /\ failures < MaxHashFailures /\ failures' = failures + 1
          /\ hash_calls' = [c \in Blocks |->
                IF c \in BlockToRetry(b) THEN rest[c] + 1 ELSE rest[c]]
          /\ UNCHANGED <<block_num, strings, freed, block_hash, block_hash_prev,
                         timing>>
          /\ UNCHANGED <<tableVars, shares, pool, verdicts, sent>>
      BY <1>2 DEF OnBlockHashFailed, shareVars
    <2>2. rest \in [Blocks -> Nat]
      BY <1>a, <2>1 DEF ValidatorTypeOK
    <2> HIDE DEF rest
    <2>3. hash_calls' \in [Blocks -> Nat]
      BY <2>1, <2>2
    <2>4. failures' \in 0 .. MaxHashFailures
      BY <1>a, <2>1, ValidatorAssumption DEF ValidatorTypeOK
    <2>5. ValidatorTypeOK'
      <3>1. TablesOK'
        BY <1>a, <2>1 DEF ValidatorTypeOK, TablesOK, tableVars
      <3> QED
        BY <1>a, <2>1, <2>3, <2>4, <3>1 DEF ValidatorTypeOK
    <2>6. Candidates' = Candidates
      BY <2>1 DEF Candidates, Accepted, Underway
    <2> QED
      BY <2>1, <2>5, <2>6, TablesAlone
  <1> QED
    BY <1>1, <1>2 DEF HashAnswer

(* A thread turns at most a candidate into a result accepted. *)
LEMMA ThreadStepStep ==
  ASSUME ValidatorInv, ThreadStep
  PROVE  ValidatorInv'
  <1>a. ValidatorTypeOK /\ pool \in Seq(JobOK)
    BY TypeFacts DEF ValidatorInv
  <1> PICK i \in DOMAIN pool, meets_target \in BOOLEAN :
             ValidateInThread(i, meets_target)
    BY DEF ThreadStep
  <1> DEFINE job == pool[i]
             verdict == IF ~ meets_target THEN "target"
                        ELSE IF job.stale THEN "stale" ELSE "success"
  <1>1. /\ verdicts' = verdicts \union {[share |-> job.share, verdict |-> verdict]}
        /\ pool' = PoolWithout(i)
        /\ UNCHANGED <<shares, tableVars, hashVars, sent>>
    BY DEF ValidateInThread
  <1>2. pool' \in Seq(JobOK) /\ Underway' \subseteq Underway
    BY <1>a, <1>1, JobDone DEF PoolWithout
  <1>3. job \in JobOK
    BY <1>a, ElementOfSeq, LenProperties
  <1>4. verdict \in Verdict /\ (verdict = "success" => ~ job.stale)
    BY DEF Verdict
  <1>5. ~ job.stale => job.share \in Underway
    BY DEF Underway
  <1> HIDE DEF job, verdict
  <1>6. Accepted' \subseteq Accepted \union Underway
    BY <1>1, <1>4, <1>5 DEF Accepted
  <1>7. Candidates' \subseteq Candidates
    BY <1>2, <1>6 DEF Candidates
  <1>8. ValidatorTypeOK'
    <2>1. TablesOK'
      BY <1>a, <1>1 DEF ValidatorTypeOK, TablesOK, tableVars
    <2>2. verdicts' \subseteq [share : Share, verdict : Verdict]
      BY <1>a, <1>1, <1>3, <1>4 DEF ValidatorTypeOK, JobOK
    <2> QED
      BY <1>a, <1>1, <1>2, <2>1, <2>2 DEF ValidatorTypeOK, hashVars, JobOK
  <1> QED
    BY <1>1, <1>7, <1>8, TablesAlone DEF hashVars

-----------------------------------------------------------------------------
(* A result submitted.                                                       *)

(* What a result is submitted with, and with the mark it gets. *)
Handed(root, nonce, user, on, marked) ==
  [id |-> shares + 1, root |-> root, nonce |-> nonce, user |-> user, on |-> on,
   block |-> block_num, settled |-> HashSettled /\ timing.orderly,
   kept_up |-> timing.kept_up, fits |-> NoncesFit(root), marked |-> marked]

LEMMA HandedFacts ==
  ASSUME ValidatorTypeOK, shares < MaxShares, NEW root \in Root,
         NEW nonce \in Nonce, NEW user \in User, NEW on \in Blocks,
         NEW marked \in BOOLEAN
  PROVE  /\ Handed(root, nonce, user, on, FALSE) \in Share
         /\ Marked(Handed(root, nonce, user, on, FALSE), marked)
              = Handed(root, nonce, user, on, marked)
  <1>1. shares + 1 \in 1 .. MaxShares /\ block_num \in Blocks
    BY TypeFacts
  <1>2. /\ (HashSettled /\ timing.orderly) \in BOOLEAN
        /\ timing.kept_up \in BOOLEAN /\ NoncesFit(root) \in BOOLEAN
    BY DEF HashSettled, NoncesFit, ValidatorTypeOK, Timing
  <1>3. Handed(root, nonce, user, on, FALSE) \in Share
    BY <1>1, <1>2 DEF Share, Handed
  <1> QED
    BY <1>3 DEF Handed, Marked

LEMMA MarkedFacts ==
  ASSUME NEW share \in Share, NEW marked \in BOOLEAN
  PROVE  LET s == Marked(share, marked)
         IN  /\ s \in Share /\ s.marked = marked
             /\ s.id = share.id /\ s.root = share.root
             /\ s.nonce = share.nonce /\ s.user = share.user
             /\ s.on = share.on /\ s.block = share.block
             /\ s.settled = share.settled /\ s.kept_up = share.kept_up
             /\ s.fits = share.fits
  BY DEF Marked, Share

(* What every way a result can take has to show: at most it becomes itself a *)
(* candidate, and then as the answer of a current item with a new nonce.     *)
LEMMA SubmittedStep ==
  ASSUME ValidatorInv, NEW share \in Share, NEW new \in SUBSET {share},
         TablesOK', SlotHoldsNonce',
         DOMAIN work_by_merkle_root' = DOMAIN work_by_merkle_root,
         DOMAIN work_by_merkle_root_prev' = DOMAIN work_by_merkle_root_prev,
         \A s \in Candidates :
           s.root \in DOMAIN work_by_merkle_root =>
             (NonceRecorded(work_by_merkle_root, s) =>
                NonceRecorded(work_by_merkle_root', s)),
         \A s \in new : /\ s.root \in DOMAIN work_by_merkle_root
                        /\ NonceRecorded(work_by_merkle_root', s)
                        /\ ~ NonceRecorded(work_by_merkle_root, s),
         Candidates' \subseteq Candidates \union new,
         pool' \in Seq(JobOK),
         verdicts' \subseteq [share : Share, verdict : Verdict],
         shares < MaxShares, shares' = shares + 1,
         UNCHANGED <<hashVars, sent>>
  PROVE  ValidatorInv'
  <1>a. /\ ValidatorTypeOK /\ TablesFollowBlocks
        /\ CandidatesRecorded /\ CandidatesOnce
        /\ shares \in Nat /\ MaxShares \in Nat
    BY TypeFacts DEF ValidatorInv
  <1>1. UNCHANGED <<block_num, strings, freed, block_hash, block_hash_prev,
                    hash_calls, failures, timing, sent>>
    BY DEF hashVars
  <1>2. shares' \in 0 .. MaxShares
    BY <1>a
  <1>3. ValidatorTypeOK'
    BY <1>a, <1>1, <1>2 DEF ValidatorTypeOK, JobOK
  <1>4. TablesFollowBlocks'
    BY <1>a, <1>1 DEF TablesFollowBlocks
  <1>5. \A s \in new : s.root \in DOMAIN sent
    BY <1>a DEF TablesFollowBlocks
  <1>6. CandidatesRecorded' /\ CandidatesOnce'
    BY <1>a, <1>1, <1>5, CandidatesStep
  <1> QED
    BY <1>3, <1>4, <1>6 DEF ValidatorInv

(* A refusal makes no candidate. *)
LEMMA RefusedFacts ==
  ASSUME ValidatorInv, NEW share \in Share, NEW verdict \in Verdict \ {"success"},
         Refused(share, verdict)
  PROVE  /\ pool' \in Seq(JobOK)
         /\ verdicts' \subseteq [share : Share, verdict : Verdict]
         /\ Candidates' \subseteq Candidates
  <1>1. /\ pool' = pool
        /\ verdicts' = verdicts \union {[share |-> share, verdict |-> verdict]}
    BY DEF Refused
  <1>2. pool' \in Seq(JobOK)
        /\ verdicts' \subseteq [share : Share, verdict : Verdict]
    BY <1>1, TypeFacts DEF ValidatorInv, ValidatorTypeOK
  <1>3. Accepted' = Accepted /\ Underway' = Underway
    BY <1>1 DEF Accepted, Underway
  <1> QED
    BY <1>2, <1>3 DEF Candidates

(* A result refused before its nonce is recorded: its item is at most marked *)
(* as possibly stale, in the table of the block before.                      *)
LEMMA RefusedUnrecordedStep ==
  ASSUME ValidatorInv, NEW share \in Share, NEW verdict \in Verdict \ {"success"},
         Refused(share, verdict),
         \/ UNCHANGED tableVars
         \/ Known(share.root) /\ Update(share.root, Lookup(share.root)),
         shares < MaxShares, shares' = shares + 1,
         UNCHANGED <<hashVars, sent>>
  PROVE  ValidatorInv'
  <1>a. TablesOK /\ SlotHoldsNonce
    BY TypeFacts DEF ValidatorInv
  <1>1. /\ TablesOK'
        /\ DOMAIN work_by_merkle_root' = DOMAIN work_by_merkle_root
        /\ DOMAIN work_by_merkle_root_prev' = DOMAIN work_by_merkle_root_prev
        /\ \A r \in DOMAIN work_by_merkle_root :
             work_by_merkle_root'[r] = work_by_merkle_root[r]
    <2>1. CASE UNCHANGED tableVars
      BY <1>a, <2>1 DEF tableVars, TablesOK
    <2>2. CASE Known(share.root) /\ Update(share.root, Lookup(share.root))
      BY <1>a, <2>2, LookupFacts, UpdateFacts
    <2> QED
      BY <2>1, <2>2
  <1>2. SlotHoldsNonce'
    BY <1>a, <1>1 DEF SlotHoldsNonce
  <1>3. \A s \in Candidates :
          s.root \in DOMAIN work_by_merkle_root =>
            (NonceRecorded(work_by_merkle_root, s) =>
               NonceRecorded(work_by_merkle_root', s))
    BY <1>1 DEF NonceRecorded
  <1> DEFINE new == {}
  <1>4. /\ new \in SUBSET {share}
        /\ Candidates' \subseteq Candidates \union new
        /\ \A s \in new : /\ s.root \in DOMAIN work_by_merkle_root
                           /\ NonceRecorded(work_by_merkle_root', s)
                           /\ ~ NonceRecorded(work_by_merkle_root, s)
    BY RefusedFacts
  <1> HIDE DEF new
  <1> QED
    BY <1>1, <1>2, <1>3, <1>4, RefusedFacts, SubmittedStep

(* A result whose nonce is recorded. *)
LEMMA SubmitRecordedStep ==
  ASSUME ValidatorInv, NEW share \in Share, NEW slot_was_stale \in BOOLEAN,
         SubmitRecorded(share, slot_was_stale),
         shares < MaxShares, shares' = shares + 1,
         UNCHANGED <<hashVars, sent>>
  PROVE  ValidatorInv'
  <1> DEFINE root == share.root
             nonce == share.nonce
             work == Lookup(root)
             recorded == RecordNonce(work, nonce)
             stale == slot_was_stale \/ work.possible_stale # 0
             current == root \in DOMAIN work_by_merkle_root
             taken == Marked(share, slot_was_stale)
             job == [share |-> taken, stale |-> stale]
             new == IF current /\ ~ stale THEN {taken} ELSE {}
  <1>a. /\ TablesOK /\ SlotHoldsNonce /\ pool \in Seq(JobOK)
        /\ ValidatorTypeOK
    BY TypeFacts DEF ValidatorInv
  <1>b. root \in Root /\ nonce \in Nonce
    BY DEF Share
  <1>1. /\ Known(root)
        /\ ~ Repeated(work, nonce)
        /\ Update(root, recorded)
        /\ \/ Refused(share, "user")
           \/ Refused(share, "block")
           \/ pool' = Append(pool, job) /\ verdicts' = verdicts
    BY DEF SubmitRecorded
  <1>2. /\ work \in TrackedWork
        /\ current => work = work_by_merkle_root[root]
        /\ ~ current => stale
    BY <1>1, <1>a, LookupFacts
  <1>3. /\ recorded \in TrackedWork
        /\ recorded.nonces = Append(work.nonces, nonce)
        /\ recorded.possible_stale =
             IF Len(work.nonces) = NonceMax THEN nonce ELSE work.possible_stale
    BY <1>2, <1>b, RecordNonceFacts
  <1>c. stale \in BOOLEAN /\ job \in JobOK
        /\ job.share = taken /\ job.stale = stale
        /\ taken \in Share /\ taken.root = root /\ taken.nonce = nonce
    BY MarkedFacts DEF JobOK
  <1>d. new \in SUBSET {taken} /\ (~ stale => new = {taken})
    BY <1>2
  <1>e. new # {} => current
    OBVIOUS
  <1> HIDE DEF work, recorded, stale, job, taken
  <1>4. /\ work.nonces \in Seq(Nonce) /\ Len(work.nonces) \in Nat
        /\ DOMAIN work.nonces = 1 .. Len(work.nonces)
        /\ Len(recorded.nonces) = Len(work.nonces) + 1
        /\ DOMAIN recorded.nonces = 1 .. Len(work.nonces) + 1
        /\ \A i \in 1 .. Len(work.nonces) : recorded.nonces[i] = work.nonces[i]
        /\ recorded.nonces[Len(work.nonces) + 1] = nonce
    <2>1. work.nonces \in Seq(Nonce)
      BY <1>2 DEF TrackedWork
    <2>2. recorded.nonces \in Seq(Nonce)
      BY <1>3 DEF TrackedWork
    <2> QED
      BY <1>3, <1>b, <2>1, <2>2, AppendProperties, LenProperties
  <1>5. /\ TablesOK'
        /\ DOMAIN work_by_merkle_root' = DOMAIN work_by_merkle_root
        /\ DOMAIN work_by_merkle_root_prev' = DOMAIN work_by_merkle_root_prev
        /\ \A r \in DOMAIN work_by_merkle_root :
             work_by_merkle_root'[r] = IF r = root THEN recorded
                                       ELSE work_by_merkle_root[r]
    BY <1>1, <1>3, <1>a, UpdateFacts
  <1>6. NonceMax \in Nat
    BY ValidatorAssumption
  <1>7. SlotHoldsNonce'
    <2> SUFFICES ASSUME NEW r \in DOMAIN work_by_merkle_root',
                        Len(work_by_merkle_root'[r].nonces) > NonceMax
                 PROVE  work_by_merkle_root'[r].possible_stale
                          = work_by_merkle_root'[r].nonces[NonceMax + 1]
      BY DEF SlotHoldsNonce
    <2>1. CASE r # root
      BY <1>5, <1>a, <2>1 DEF SlotHoldsNonce
    <2>2. CASE r = root
      <3>1. /\ work = work_by_merkle_root[root] /\ current
            /\ work_by_merkle_root'[r] = recorded
        BY <1>2, <1>5, <2>2
      <3>2. CASE Len(work.nonces) = NonceMax
        BY <1>3, <1>4, <3>1, <3>2
      <3>3. CASE Len(work.nonces) # NonceMax
        <4>1. Len(work.nonces) > NonceMax
          BY <1>4, <1>6, <3>1, <3>3
        <4>2. work.possible_stale = work.nonces[NonceMax + 1]
          BY <1>a, <3>1, <4>1 DEF SlotHoldsNonce
        <4>3. NonceMax + 1 \in 1 .. Len(work.nonces)
          BY <1>4, <1>6, <4>1
        <4> QED
          BY <1>3, <1>4, <3>1, <3>3, <4>2, <4>3
      <3> QED
        BY <3>2, <3>3
    <2> QED
      BY <2>1, <2>2
  <1>8. ASSUME NEW s \in Candidates, s.root \in DOMAIN work_by_merkle_root,
               NonceRecorded(work_by_merkle_root, s)
        PROVE  NonceRecorded(work_by_merkle_root', s)
    <2>1. CASE s.root # root
      BY <1>5, <1>8, <2>1 DEF NonceRecorded
    <2>2. CASE s.root = root
      <3>1. /\ work = work_by_merkle_root[s.root]
            /\ work_by_merkle_root'[s.root] = recorded
        BY <1>2, <1>5, <1>8, <2>2
      <3>2. PICK i \in DOMAIN work.nonces : work.nonces[i] = s.nonce
        BY <1>8, <3>1 DEF NonceRecorded
      <3>3. i \in DOMAIN recorded.nonces /\ recorded.nonces[i] = s.nonce
        BY <1>4, <3>2
      <3> QED
        BY <3>1, <3>3 DEF NonceRecorded
    <2> QED
      BY <2>1, <2>2
  <1>9. current => /\ NonceRecorded(work_by_merkle_root', taken)
                   /\ ~ NonceRecorded(work_by_merkle_root, taken)
    <2> SUFFICES ASSUME current
                 PROVE  /\ NonceRecorded(work_by_merkle_root', taken)
                        /\ ~ NonceRecorded(work_by_merkle_root, taken)
      OBVIOUS
    <2>1. work = work_by_merkle_root[root] /\ work_by_merkle_root'[root] = recorded
      BY <1>2, <1>5
    <2>2. NonceRecorded(work_by_merkle_root', taken)
      <3>1. Len(work.nonces) + 1 \in DOMAIN recorded.nonces
        BY <1>4
      <3> QED
        BY <1>4, <1>c, <2>1, <3>1 DEF NonceRecorded
    <2>3. ASSUME NEW i \in DOMAIN work.nonces, work.nonces[i] = nonce
          PROVE  FALSE
      <3>1. NonceAt(work, i) # nonce
        BY <1>1 DEF Repeated
      <3>2. i = NonceMax + 1 /\ work.possible_stale # nonce
        BY <2>3, <3>1 DEF NonceAt
      <3>3. Len(work.nonces) > NonceMax
        BY <1>4, <1>6, <3>2
      <3>4. work.possible_stale = work.nonces[NonceMax + 1]
        BY <1>a, <2>1, <3>3 DEF SlotHoldsNonce
      <3> QED
        BY <2>3, <3>2, <3>4
    <2> QED
      BY <1>c, <2>1, <2>2, <2>3 DEF NonceRecorded
  <1>10. \A s \in new : /\ s.root \in DOMAIN work_by_merkle_root
                        /\ NonceRecorded(work_by_merkle_root', s)
                        /\ ~ NonceRecorded(work_by_merkle_root, s)
    BY <1>9, <1>c, <1>d, <1>e
  <1> HIDE DEF new, current
  <1>11. /\ pool' \in Seq(JobOK)
         /\ verdicts' \subseteq [share : Share, verdict : Verdict]
         /\ Candidates' \subseteq Candidates \union new
    <2>1. CASE Refused(share, "user") \/ Refused(share, "block")
      <3>1. {"user", "block"} \subseteq Verdict \ {"success"}
        BY DEF Verdict
      <3> QED
        BY <2>1, <3>1, RefusedFacts
    <2>2. CASE pool' = Append(pool, job) /\ verdicts' = verdicts
      <3>1. /\ pool' \in Seq(JobOK)
            /\ stale => Underway' \subseteq Underway
            /\ Underway' \subseteq Underway \union {taken}
        BY <1>a, <1>c, <2>2, NewJob
      <3>2. Underway' \subseteq Underway \union new
        <4>1. CASE stale
          BY <3>1, <4>1
        <4>2. CASE ~ stale
          BY <1>d, <3>1, <4>2
        <4> QED
          BY <4>1, <4>2
      <3>3. Accepted' = Accepted
        BY <2>2 DEF Accepted
      <3> QED
        BY <1>a, <2>2, <3>1, <3>2, <3>3 DEF Candidates, ValidatorTypeOK
    <2> QED
      BY <1>1, <2>1, <2>2
  <1> QED
    BY <1>5, <1>7, <1>8, <1>10, <1>11, <1>c, <1>d, SubmittedStep

LEMMA SubmitStep ==
  ASSUME ValidatorInv, NEW root \in Root, NEW nonce \in Nonce, NEW user \in User,
         NEW on \in Blocks, NEW intact \in BOOLEAN,
         NEW slot_was_stale \in BOOLEAN,
         Submit(root, nonce, user, on, intact, slot_was_stale)
  PROVE  ValidatorInv'
  <1> DEFINE share == Handed(root, nonce, user, on, FALSE)
  <1>1. /\ shares < MaxShares /\ shares' = shares + 1
        /\ UNCHANGED <<hashVars, sent>>
        /\ \/ SubmitUnknown(share)
           \/ SubmitHeaderMismatch(share)
           \/ SubmitRepeated(share)
           \/ SubmitRecorded(share, slot_was_stale)
    BY DEF Submit, Handed
  <1>2. share \in Share
    BY <1>1, HandedFacts DEF ValidatorInv
  <1> HIDE DEF share
  <1>3. {"unknown", "header", "duplicate"} \subseteq Verdict \ {"success"}
    BY DEF Verdict
  <1>4. CASE SubmitUnknown(share)
    BY <1>1, <1>2, <1>3, <1>4, RefusedUnrecordedStep DEF SubmitUnknown
  <1>5. CASE SubmitHeaderMismatch(share)
    BY <1>1, <1>2, <1>3, <1>5, RefusedUnrecordedStep DEF SubmitHeaderMismatch
  <1>6. CASE SubmitRepeated(share)
    BY <1>1, <1>2, <1>3, <1>6, RefusedUnrecordedStep DEF SubmitRepeated
  <1>7. CASE SubmitRecorded(share, slot_was_stale)
    BY <1>1, <1>2, <1>7, SubmitRecordedStep
  <1> QED
    BY <1>1, <1>4, <1>5, <1>6, <1>7

LEMMA ValidatorInvariant == ValidatorSafety => []ValidatorInv
  <1>1. ValidatorInv /\ [ValidatorNext]_validatorVars => ValidatorInv'
    <2> SUFFICES ASSUME ValidatorInv, [ValidatorNext]_validatorVars
                 PROVE  ValidatorInv'
      OBVIOUS
    <2>1. CASE UNCHANGED validatorVars
      <3>1. /\ UNCHANGED <<tableVars, sent, block_num>>
            /\ UNCHANGED <<strings, freed, block_hash, block_hash_prev,
                           hash_calls, failures, timing, shares, pool,
                           verdicts>>
        BY <2>1 DEF validatorVars, hashVars, shareVars
      <3>2. ValidatorTypeOK'
        BY <3>1 DEF ValidatorInv, ValidatorTypeOK, TablesOK, tableVars
      <3>3. Candidates' = Candidates
        BY <3>1 DEF Candidates, Accepted, Underway
      <3> QED
        BY <3>1, <3>2, <3>3, TablesAlone
    <2> QED
      BY <2>1, TrackWorkSentStep, ValidatorNewBlockStep, HashAnswerStep,
         ThreadStepStep, SubmitStep
      DEF ValidatorNext
  <1> QED
    BY <1>1, ValidatorInitInv, PTL DEF ValidatorSafety

(* Type correctness of the tables, the hashes and the thread pool. *)
THEOREM ValidatorTypes == ValidatorSafety => []ValidatorTypeOK
  <1>1. ValidatorInv => ValidatorTypeOK
    BY DEF ValidatorInv
  <1> QED
    BY <1>1, ValidatorInvariant, PTL

(* The items of the two tables were sent since the last block, and during    *)
(* the one before.                                                           *)
THEOREM TablesFollow == ValidatorSafety => []TablesFollowBlocks
  <1>1. ValidatorInv => TablesFollowBlocks
    BY DEF ValidatorInv
  <1> QED
    BY <1>1, ValidatorInvariant, PTL

(* The same nonce of the same item is never accepted twice, whatever is in   *)
(* the thread pool together, whatever block comes between, and although the  *)
(* array of nonces may be written past its end.                              *)
THEOREM NothingIsAcceptedTwice == ValidatorSafety => []NoDoubleAccept
  <1>1. ValidatorInv => NoDoubleAccept
    <2> SUFFICES ASSUME ValidatorInv, NEW v \in verdicts, NEW w \in verdicts,
                        v.verdict = "success", w.verdict = "success",
                        v.share.root = w.share.root,
                        v.share.nonce = w.share.nonce
                 PROVE  v.share.id = w.share.id
      BY DEF NoDoubleAccept
    <2>1. v.share \in Candidates /\ w.share \in Candidates
      BY DEF Candidates, Accepted
    <2> QED
      BY <2>1 DEF ValidatorInv, CandidatesOnce
  <1> QED
    BY <1>1, ValidatorInvariant, PTL

-----------------------------------------------------------------------------
(* The hashes.  A string is of a block that was notified, and the last one   *)
(* to be made is that of block_hash.  Once the call for the last block is    *)
(* answered that string is new, and the two fields share none; they share    *)
(* one between a block and the next answer, whatever it answers, and a block *)
(* that comes meanwhile frees it.                                            *)

CallsNotified ==
  \A b \in Blocks : hash_calls[b] # 0 => b \in 1 .. block_num

StringsNotified == \A i \in DOMAIN strings : strings[i] \in 1 .. block_num

HashFresh ==
  block_num > 0 /\ hash_calls[block_num] = 0 =>
    /\ block_hash # 0 /\ block_hash \notin freed
    /\ timing.unanswered # 1
    /\ timing.orderly => strings[block_hash] = block_num

HashesShared ==
  /\ block_hash = 0 => block_hash_prev = 0 /\ timing.unanswered = 0
  /\ timing.unanswered = 0 /\ block_hash # 0 => block_hash # block_hash_prev
  /\ timing.unanswered = 1 => block_hash = block_hash_prev
  /\ timing.unanswered = 2 => block_hash_prev \in freed
  /\ timing.unanswered < 2 => HashesLive

(* When the hash of the block before was known as the last block came, the   *)
(* two fields are of these two blocks, and only the last one is asked for.   *)
KeptUp ==
  timing.kept_up =>
    /\ block_num > 1 => block_hash_prev # 0
    /\ block_hash_prev # 0 =>
         block_hash_prev \notin freed /\ strings[block_hash_prev] = block_num - 1
    /\ block_hash # 0 =>
         /\ block_hash \notin freed
         /\ strings[block_hash] \in {block_num - 1, block_num}
    /\ \A b \in Blocks : hash_calls[b] # 0 => b = block_num

HashInv ==
  CallsNotified /\ StringsNotified /\ HashFresh /\ HashesShared /\ KeptUp

LEMMA StringFacts ==
  ASSUME ValidatorTypeOK
  PROVE  /\ Len(strings) \in Nat /\ DOMAIN strings = 1 .. Len(strings)
         /\ 0 \notin freed /\ freed \subseteq DOMAIN strings
         /\ block_hash # 0 => block_hash \in DOMAIN strings
         /\ block_hash_prev # 0 => block_hash_prev \in DOMAIN strings
         /\ hash_calls \in [Blocks -> Nat]
         /\ block_num \in Nat /\ block_num \in Blocks
         /\ timing \in Timing /\ timing.unanswered \in 0 .. 2
  <1>1. Len(strings) \in Nat /\ DOMAIN strings = 1 .. Len(strings)
    BY LenProperties DEF ValidatorTypeOK
  <1> QED
    BY <1>1, TypeFacts DEF ValidatorTypeOK, Timing

LEMMA HashInit == ValidatorInit => HashInv
  <1> SUFFICES ASSUME ValidatorInit PROVE HashInv
    OBVIOUS
  <1>1. DOMAIN <<>> = {}
    OBVIOUS
  <1> QED
    BY <1>1 DEF ValidatorInit, HashInv, CallsNotified, StringsNotified, HashFresh,
                HashesShared, HashesLive, KeptUp

LEMMA HashUnchanged ==
  ASSUME HashInv, UNCHANGED hashVars
  PROVE  HashInv'
  BY DEF HashInv, CallsNotified, StringsNotified, HashFresh, HashesShared,
         HashesLive, KeptUp, hashVars

LEMMA HashNewBlock ==
  ASSUME ValidatorTypeOK, HashInv, ValidatorNewBlock
  PROVE  HashInv'
  <1>a. /\ 0 \notin freed /\ hash_calls \in [Blocks -> Nat] /\ block_num \in Nat
        /\ timing \in Timing /\ timing.unanswered \in 0 .. 2
        /\ block_hash # 0 => block_hash \in DOMAIN strings
    BY StringFacts
  <1>1. /\ block_hash_prev \notin freed
        /\ block_num' = block_num + 1 /\ block_num' \in Blocks
        /\ freed' = freed \union ({block_hash_prev} \ {0})
        /\ block_hash_prev' = block_hash
        /\ hash_calls' = [hash_calls EXCEPT ![block_num'] = @ + 1]
        /\ UNCHANGED <<strings, block_hash>>
    BY TypeFacts DEF ValidatorNewBlock, ResolveCurrentBlockHash, FreedByBlock, Blocks
  <1>2. /\ timing'.kept_up => HashSettled /\ timing.orderly
        /\ timing'.unanswered = IF block_hash = 0 \/ timing.unanswered = 2
                                THEN timing.unanswered
                                ELSE timing.unanswered + 1
    BY <1>a, TimingFacts DEF ValidatorNewBlock
  <1>3. timing.unanswered \in {0, 1}
    BY <1>a, <1>1 DEF HashInv, HashesShared
  <1>4. hash_calls'[block_num'] # 0
    BY <1>a, <1>1
  <1>5. CallsNotified' /\ StringsNotified' /\ HashFresh'
    BY <1>a, <1>1, <1>4 DEF HashInv, CallsNotified, StringsNotified, HashFresh
  <1>6. HashesShared'
    <2>1. CASE block_hash = 0
      BY <1>a, <1>1, <1>2, <2>1 DEF HashInv, HashesShared, HashesLive
    <2>2. CASE block_hash # 0 /\ timing.unanswered = 0
      BY <1>a, <1>1, <1>2, <2>2 DEF HashInv, HashesShared, HashesLive
    <2>3. CASE block_hash # 0 /\ timing.unanswered = 1
      BY <1>a, <1>1, <1>2, <2>3 DEF HashInv, HashesShared, HashesLive
    <2> QED
      BY <1>3, <2>1, <2>2, <2>3
  <1>7. KeptUp'
    <2> SUFFICES ASSUME HashSettled, timing.orderly
                 PROVE  KeptUp'
      BY <1>2 DEF KeptUp
    <2>1. \A b \in Blocks : hash_calls[b] = 0
      BY DEF HashSettled
    <2>2. block_hash # 0 => block_num > 0 /\ block_num \in Blocks
      BY <1>a, StringFacts DEF HashInv, StringsNotified
    <2>3. block_hash # 0 => /\ block_hash \notin freed
                            /\ block_hash # block_hash_prev
                            /\ strings[block_hash] = block_num
      BY <1>3, <2>1, <2>2 DEF HashInv, HashFresh, HashesShared
    <2>4. block_num' > 1 => block_hash # 0
      BY <1>a, <1>1, <2>1, StringFacts DEF HashInv, HashFresh
    <2>5. block_hash # 0 =>
            block_hash \notin freed' /\ strings[block_hash] = block_num' - 1
      BY <1>a, <1>1, <2>3
    <2>6. \A b \in Blocks : hash_calls'[b] # 0 => b = block_num'
      BY <1>a, <1>1, <2>1
    <2> QED
      BY <1>1, <2>4, <2>5, <2>6 DEF KeptUp
  <1> QED
    BY <1>5, <1>6, <1>7 DEF HashInv

LEMMA HashAnswered ==
  ASSUME ValidatorTypeOK, HashInv, NEW b \in Blocks, OnBlockHash(b)
  PROVE  HashInv'
  <1>a. /\ Len(strings) \in Nat /\ DOMAIN strings = 1 .. Len(strings)
        /\ 0 \notin freed /\ freed \subseteq DOMAIN strings
        /\ block_hash_prev # 0 => block_hash_prev \in DOMAIN strings
        /\ hash_calls \in [Blocks -> Nat]
        /\ block_num \in Nat /\ block_num \in Blocks
        /\ timing \in Timing /\ timing.unanswered \in 0 .. 2
    BY StringFacts
  <1>1. /\ hash_calls[b] > 0
        /\ hash_calls' = [hash_calls EXCEPT ![b] = @ - 1]
        /\ block_hash' = Len(strings')
        /\ UNCHANGED <<block_num, freed, block_hash_prev>>
    BY DEF OnBlockHash
  <1>2. /\ timing'.orderly =>
             timing.orderly /\ (block_hash # 0 => strings[block_hash] <= b)
        /\ timing'.kept_up = timing.kept_up
        /\ timing'.unanswered = IF timing.unanswered = 2 THEN 2 ELSE 0
    BY <1>a, TimingFacts DEF OnBlockHash
  <1>3. /\ block_hash' = Len(strings) + 1
        /\ DOMAIN strings' = 1 .. Len(strings) + 1
        /\ strings'[block_hash'] = b
        /\ \A i \in DOMAIN strings : strings'[i] = strings[i]
    <2>1. /\ strings \in Seq(Blocks) /\ strings' = Append(strings, b)
          /\ block_hash' = Len(strings')
      BY DEF ValidatorTypeOK, OnBlockHash
    <2> QED
      BY <2>1, <1>a, AppendProperties, LenProperties
  <1>4. block_hash' \notin DOMAIN strings /\ block_hash' # 0
        /\ block_hash' \notin freed' /\ block_hash' # block_hash_prev
    BY <1>a, <1>1, <1>3
  <1>5. b \in 1 .. block_num
    BY <1>1 DEF HashInv, CallsNotified
  <1>6. \A c \in Blocks : hash_calls'[c] # 0 => hash_calls[c] # 0
    BY <1>a, <1>1
  <1>7. CallsNotified' /\ StringsNotified'
    <2>1. CallsNotified'
      BY <1>1, <1>6 DEF HashInv, CallsNotified
    <2>2. StringsNotified'
      BY <1>a, <1>1, <1>3, <1>5 DEF HashInv, StringsNotified
    <2> QED
      BY <2>1, <2>2
  <1>8. HashFresh'
    <2> SUFFICES ASSUME hash_calls'[block_num] = 0, timing'.orderly, b # block_num
                 PROVE  FALSE
      BY <1>a, <1>1, <1>2, <1>3, <1>4 DEF HashFresh
    <2>1. hash_calls[block_num] = 0
      BY <1>a, <1>1
    <2>2. timing.orderly /\ (block_hash # 0 => strings[block_hash] <= b)
      BY <1>2, Zenon
    <2>3. block_num > 0
      BY <1>a, <1>5
    <2>4. block_hash # 0 /\ strings[block_hash] = block_num
      BY <2>1, <2>2, <2>3, Zenon DEF HashInv, HashFresh
    <2> QED
      BY <1>a, <1>5, <2>2, <2>4
  <1>9. HashesShared'
    BY <1>a, <1>1, <1>2, <1>4 DEF HashInv, HashesShared, HashesLive
  <1>10. KeptUp'
    BY <1>a, <1>1, <1>2, <1>3, <1>4, <1>6 DEF HashInv, KeptUp
  <1> QED
    BY <1>7, <1>8, <1>9, <1>10 DEF HashInv

(* The call repeated is for the block of the moment. *)
LEMMA HashFailed ==
  ASSUME ValidatorTypeOK, HashInv, NEW b \in Blocks, OnBlockHashFailed(b)
  PROVE  HashInv'
  <1>a. /\ hash_calls \in [Blocks -> Nat]
        /\ block_num \in Nat /\ block_num \in Blocks
    BY StringFacts
  <1> DEFINE rest == [hash_calls EXCEPT ![b] = @ - 1]
  <1>1. /\ hash_calls[b] > 0
        /\ hash_calls' = [c \in Blocks |->
                            IF c \in {block_num} THEN rest[c] + 1 ELSE rest[c]]
        /\ UNCHANGED <<block_num, strings, freed, block_hash, block_hash_prev,
                       timing>>
    BY DEF OnBlockHashFailed, BlockToRetry
  <1>2. rest \in [Blocks -> Nat] /\ \A c \in Blocks : rest[c] <= hash_calls[c]
    BY <1>a, <1>1
  <1> HIDE DEF rest
  <1>3. /\ hash_calls'[block_num] # 0
        /\ \A c \in Blocks : c # block_num /\ hash_calls'[c] # 0 => hash_calls[c] # 0
    BY <1>a, <1>1, <1>2
  <1>4. block_num \in 1 .. block_num
    BY <1>a, <1>1 DEF HashInv, CallsNotified
  <1>5. CallsNotified' /\ HashFresh'
    BY <1>1, <1>3, <1>4 DEF HashInv, CallsNotified, HashFresh
  <1>6. StringsNotified' /\ HashesShared'
    BY <1>1 DEF HashInv, StringsNotified, HashesShared, HashesLive
  <1>7. KeptUp'
    BY <1>1, <1>3 DEF HashInv, KeptUp
  <1> QED
    BY <1>5, <1>6, <1>7 DEF HashInv

LEMMA HashStep ==
  ASSUME ValidatorTypeOK, HashInv, [ValidatorNext]_validatorVars
  PROVE  HashInv'
  <1>1. CASE ValidatorNewBlock
    BY <1>1, HashNewBlock
  <1>2. CASE HashAnswer
    BY <1>2, HashAnswered, HashFailed DEF HashAnswer
  <1>3. CASE UNCHANGED hashVars
    BY <1>3, HashUnchanged
  <1>4. \A root, user : TrackWorkSent(root, user) => UNCHANGED hashVars
    BY DEF TrackWorkSent
  <1>5. \A root, nonce, user, on, intact, slot_was_stale :
          Submit(root, nonce, user, on, intact, slot_was_stale)
            => UNCHANGED hashVars
    BY DEF Submit
  <1>6. ThreadStep => UNCHANGED hashVars
    BY DEF ThreadStep, ValidateInThread
  <1>7. UNCHANGED validatorVars => UNCHANGED hashVars
    BY DEF validatorVars
  <1> QED
    BY <1>1, <1>2, <1>3, <1>4, <1>5, <1>6, <1>7 DEF ValidatorNext

LEMMA HashInvariant == ValidatorSafety => []HashInv
  <1>1. ValidatorInv /\ HashInv /\ [ValidatorNext]_validatorVars => HashInv'
    BY HashStep DEF ValidatorInv
  <1> QED
    BY <1>1, HashInit, ValidatorInvariant, PTL DEF ValidatorSafety

(* With every getblockhash call answered, results are compared with the hash *)
(* of the current block, whatever calls failed on the way and however late   *)
(* the answers came, unless the answer for a block came after that for a     *)
(* later one.                                                                *)
THEOREM HashesAreCurrent == ValidatorSafety => []HashIsCurrent
  <1>1. HashInv /\ ValidatorTypeOK => HashIsCurrent
    BY StringFacts DEF HashInv, HashFresh, HashSettled, HashIsCurrent
  <1> QED
    BY <1>1, HashInvariant, ValidatorTypes, PTL

(* The hashes that results are compared with are given back by the second of *)
(* two blocks that come before an answer, and by nothing else.               *)
THEOREM HashesAreLive == ValidatorSafety => []LiveUntilOvertaken
  <1>1. HashInv /\ ValidatorTypeOK => LiveUntilOvertaken
    BY StringFacts DEF HashInv, HashesShared, HashesLive, LiveUntilOvertaken
  <1> QED
    BY <1>1, HashInvariant, ValidatorTypes, PTL

-----------------------------------------------------------------------------
(* What is accepted.  A result becomes a candidate with the tables and the   *)
(* hashes of the moment; neither moves what it was found to answer.          *)

UsersTracked ==
  \A r \in DOMAIN work_by_merkle_root :
    work_by_merkle_root[r].user = sent[r].user

ServedTo(s) ==
  /\ s.root \in DOMAIN sent
  /\ sent[s.root] = [user |-> s.user, block |-> s.block]

OnBlock(s) ==
  /\ s.kept_up => s.on \in {s.block, s.block - 1}
  /\ s.settled /\ s.fits => s.on = s.block
  /\ timing.unanswered < 2 => s.on <= s.block

CandidatesServed == \A s \in Candidates : ServedTo(s)
CandidatesOnBlock == \A s \in Candidates : OnBlock(s)

AcceptInv == UsersTracked /\ CandidatesServed
StaysOnBlock == HashInv /\ CandidatesOnBlock => CandidatesOnBlock'

(* What an item sent is known by never changes. *)
SentKept == /\ DOMAIN sent \subseteq DOMAIN sent'
            /\ \A r \in DOMAIN sent : sent'[r] = sent[r]

LEMMA CurrentKept ==
  ASSUME CandidatesServed, SentKept, Candidates' \subseteq Candidates,
         timing'.unanswered < 2 => timing.unanswered < 2
  PROVE  CandidatesServed' /\ StaysOnBlock
  BY DEF CandidatesServed, ServedTo, SentKept, StaysOnBlock, CandidatesOnBlock,
         OnBlock

(* Two blocks that came before an answer stay so. *)
LEMMA OvertakenStays ==
  ASSUME ValidatorTypeOK, ValidatorNewBlock \/ HashAnswer \/ UNCHANGED hashVars
  PROVE  timing'.unanswered < 2 => timing.unanswered < 2
  <1>1. timing \in Timing /\ timing.unanswered \in 0 .. 2
    BY StringFacts
  <1>2. CASE ValidatorNewBlock
    BY <1>1, <1>2, TimingFacts DEF ValidatorNewBlock
  <1>3. CASE HashAnswer
    BY <1>1, <1>3, TimingFacts DEF HashAnswer, OnBlockHash, OnBlockHashFailed
  <1>4. CASE UNCHANGED hashVars
    BY <1>4 DEF hashVars
  <1> QED
    BY <1>2, <1>3, <1>4

(* The string compared with is that of the block or of the one before it     *)
(* when the answers kept up, and of a block there was as long as it is live. *)
LEMMA HashCompared ==
  ASSUME ValidatorTypeOK, HashInv, NEW on,
         NEW hash \in {block_hash, block_hash_prev}, TRUE \in HashMatches(hash, on)
  PROVE  /\ timing.kept_up => on \in {block_num, block_num - 1}
         /\ HashSettled /\ timing.orderly /\ hash = block_hash => on = block_num
         /\ timing.unanswered < 2 => on \in 1 .. block_num
  <1>1. hash \notin freed => hash # 0 /\ strings[hash] = on
    BY DEF HashMatches
  <1>2. hash # 0 => hash \in DOMAIN strings
    BY StringFacts
  <1>3. 0 \notin freed /\ block_num \in Nat /\ block_num \in Blocks
    BY StringFacts
  <1>4. timing.kept_up => on \in {block_num, block_num - 1}
    BY <1>1, <1>3 DEF HashInv, KeptUp
  <1>5. HashSettled /\ timing.orderly /\ hash = block_hash => on = block_num
    <2> SUFFICES ASSUME HashSettled, timing.orderly, hash = block_hash
                 PROVE  on = block_num
      OBVIOUS
    <2>1. hash # 0
      BY <1>1, <1>3
    <2>2. block_num > 0
      BY <1>2, <1>3, <2>1 DEF HashInv, StringsNotified
    <2> QED
      BY <1>1, <1>3, <2>2 DEF HashInv, HashFresh, HashSettled
  <1>6. timing.unanswered < 2 => on \in 1 .. block_num
    BY <1>1, <1>2 DEF HashInv, HashesShared, HashesLive, StringsNotified
  <1> QED
    BY <1>4, <1>5, <1>6

LEMMA RecordedIsCurrent ==
  ASSUME ValidatorInv, UsersTracked, NEW share \in Share,
         NEW slot_was_stale \in BOOLEAN, SubmitRecorded(share, slot_was_stale),
         share.block = block_num,
         share.settled = (HashSettled /\ timing.orderly),
         share.kept_up = timing.kept_up, share.fits = NoncesFit(share.root),
         sent' = sent, NEW taken, taken = Marked(share, slot_was_stale)
  PROVE  /\ UsersTracked'
         /\ \/ Candidates' \subseteq Candidates
            \/ /\ Candidates' \subseteq Candidates \union {taken}
               /\ ServedTo(taken) /\ (HashInv => OnBlock(taken))
  <1> DEFINE root == share.root
             work == Lookup(root)
             recorded == RecordNonce(work, share.nonce)
             hash == IF recorded.possible_stale = 0 THEN block_hash
                                                    ELSE block_hash_prev
             stale == slot_was_stale \/ work.possible_stale # 0
             job == [share |-> taken, stale |-> stale]
             pushed == /\ UserMatches(work, share.user)
                       /\ TRUE \in HashMatches(hash, share.on)
                       /\ pool' = Append(pool, job) /\ verdicts' = verdicts
  <1>a. /\ ValidatorTypeOK /\ TablesOK /\ TablesFollowBlocks
        /\ pool \in Seq(JobOK)
    BY TypeFacts DEF ValidatorInv
  <1>1. /\ Known(root) /\ Update(root, recorded)
        /\ Refused(share, "user") \/ Refused(share, "block") \/ pushed
    BY DEF SubmitRecorded
  <1>2. /\ work \in TrackedWork
        /\ root \in DOMAIN work_by_merkle_root => work = work_by_merkle_root[root]
        /\ root \notin DOMAIN work_by_merkle_root => work.possible_stale = 1
    BY <1>1, <1>a, LookupFacts
  <1>3. /\ recorded \in TrackedWork
        /\ recorded.user = work.user
        /\ recorded.possible_stale =
             IF Len(work.nonces) = NonceMax THEN share.nonce
                                            ELSE work.possible_stale
    <2>1. share.nonce \in Nonce
      BY DEF Share
    <2>2. recorded.user = work.user
      BY <1>2 DEF RecordNonce, TrackedWork
    <2> QED
      BY <1>2, <2>1, <2>2, RecordNonceFacts
  <1>b. stale \in BOOLEAN /\ job \in JobOK
        /\ job.share = taken /\ job.stale = stale
        /\ taken.root = root /\ taken.user = share.user
        /\ taken.on = share.on /\ taken.block = share.block
        /\ taken.settled = share.settled /\ taken.kept_up = share.kept_up
        /\ taken.fits = share.fits
    BY MarkedFacts DEF JobOK
  <1>c. hash \in {block_hash, block_hash_prev}
        /\ (recorded.possible_stale = 0 => hash = block_hash)
        /\ (~ stale => work.possible_stale = 0)
    OBVIOUS
  <1> HIDE DEF work, recorded, stale, job, hash
  <1>4. UsersTracked'
    <2>1. /\ DOMAIN work_by_merkle_root' = DOMAIN work_by_merkle_root
          /\ \A r \in DOMAIN work_by_merkle_root :
               work_by_merkle_root'[r] = IF r = root THEN recorded
                                         ELSE work_by_merkle_root[r]
      BY <1>1, <1>3, <1>a, UpdateFacts
    <2> QED
      BY <1>2, <1>3, <2>1 DEF UsersTracked
  <1>5. CASE Refused(share, "user") \/ Refused(share, "block")
    <2>1. {"user", "block"} \subseteq Verdict \ {"success"}
      BY DEF Verdict
    <2> QED
      BY <1>4, <1>5, <2>1, RefusedFacts
  <1>6. CASE pushed
    <2>1. Accepted' = Accepted
      BY <1>6 DEF Accepted
    <2>2. /\ stale => Underway' \subseteq Underway
          /\ Underway' \subseteq Underway \union {taken}
      BY <1>6, <1>a, <1>b, NewJob
    <2>3. CASE stale
      BY <1>4, <2>1, <2>2, <2>3 DEF Candidates
    <2>4. CASE ~ stale
      <3>1. work.possible_stale = 0 /\ root \in DOMAIN work_by_merkle_root
            /\ work = work_by_merkle_root[root]
        BY <1>2, <1>c, <2>4
      <3>2. root \in DOMAIN sent /\ sent[root].block = share.block
        BY <3>1, <1>a DEF TablesFollowBlocks
      <3>3. sent[root].user = share.user
        BY <1>6, <3>1 DEF UsersTracked, UserMatches
      <3>4. sent[root] = [user |-> share.user, block |-> share.block]
        <4>1. sent[root] \in [user : User, block : Blocks]
          BY <1>a, <3>2 DEF ValidatorTypeOK
        <4> QED
          BY <3>2, <3>3, <4>1
      <3>5. HashInv =>
              /\ timing.kept_up => share.on \in {block_num, block_num - 1}
              /\ HashSettled /\ timing.orderly /\ hash = block_hash =>
                   share.on = block_num
              /\ timing.unanswered < 2 => share.on \in 1 .. block_num
        BY <1>6, <1>a, <1>c, TypeFacts, HashCompared
      <3>6. share.fits => hash = block_hash
        <4>1. Len(work.nonces) \in Nat
          BY <1>2, LenProperties DEF TrackedWork
        <4>2. share.fits => Len(work.nonces) < NonceMax
          BY <1>1 DEF NoncesFit, work
        <4> QED
          BY <1>3, <1>c, <3>1, <4>1, <4>2, ValidatorAssumption
      <3>7. ServedTo(taken)
        BY <1>b, <3>2, <3>4 DEF ServedTo
      <3>8. HashInv => OnBlock(taken)
        <4>1. block_num \in Nat
          BY <1>a, TypeFacts
        <4>2. HashInv /\ timing.unanswered < 2 => share.on <= block_num
          BY <3>5, <4>1
        <4>3. HashInv => (taken.kept_up => taken.on \in {taken.block, taken.block - 1})
          BY <1>b, <3>5
        <4>4. HashInv => (taken.settled /\ taken.fits => taken.on = taken.block)
          BY <1>b, <3>5, <3>6
        <4> QED
          BY <1>b, <4>2, <4>3, <4>4 DEF OnBlock
      <3> QED
        BY <1>4, <2>1, <2>2, <3>7, <3>8 DEF Candidates
    <2> QED
      BY <2>3, <2>4
  <1> QED
    BY <1>1, <1>5, <1>6

LEMMA AcceptSubmit ==
  ASSUME ValidatorInv, AcceptInv, NEW root \in Root, NEW nonce \in Nonce,
         NEW user \in User, NEW on \in Blocks, NEW intact \in BOOLEAN,
         NEW slot_was_stale \in BOOLEAN,
         Submit(root, nonce, user, on, intact, slot_was_stale)
  PROVE  AcceptInv' /\ StaysOnBlock
  <1> DEFINE share == Handed(root, nonce, user, on, FALSE)
             taken == Marked(share, slot_was_stale)
  <1>1. /\ UNCHANGED <<hashVars, sent>>
        /\ \/ SubmitUnknown(share)
           \/ SubmitHeaderMismatch(share)
           \/ SubmitRepeated(share)
           \/ SubmitRecorded(share, slot_was_stale)
    BY DEF Submit, Handed
  <1>2. share \in Share
    BY HandedFacts DEF Submit, ValidatorInv
  <1>3. /\ share.block = block_num
        /\ share.settled = (HashSettled /\ timing.orderly)
        /\ share.kept_up = timing.kept_up
        /\ share.fits = NoncesFit(share.root)
    BY DEF Handed
  <1> HIDE DEF share
  <1>4. SentKept
    BY <1>1 DEF SentKept
  <1>b. timing' = timing
    BY <1>1 DEF hashVars
  <1>5. ASSUME NEW verdict \in Verdict \ {"success"}, Refused(share, verdict),
               \/ UNCHANGED tableVars
               \/ Known(share.root) /\ Update(share.root, Lookup(share.root))
        PROVE  AcceptInv' /\ StaysOnBlock
    <2>1. /\ DOMAIN work_by_merkle_root' = DOMAIN work_by_merkle_root
          /\ \A r \in DOMAIN work_by_merkle_root :
               work_by_merkle_root'[r] = work_by_merkle_root[r]
      <3>1. CASE UNCHANGED tableVars
        BY <3>1 DEF tableVars
      <3>2. CASE Known(share.root) /\ Update(share.root, Lookup(share.root))
        BY <3>2, LookupFacts, UpdateFacts, TypeFacts DEF ValidatorInv
      <3> QED
        BY <1>5, <3>1, <3>2
    <2>2. UsersTracked'
      BY <1>1, <2>1 DEF AcceptInv, UsersTracked
    <2> QED
      BY <1>2, <1>4, <1>5, <1>b, <2>2, RefusedFacts, CurrentKept DEF AcceptInv
  <1>6. {"unknown", "header", "duplicate"} \subseteq Verdict \ {"success"}
    BY DEF Verdict
  <1>7. CASE SubmitUnknown(share)
    BY <1>5, <1>6, <1>7 DEF SubmitUnknown
  <1>8. CASE SubmitHeaderMismatch(share)
    BY <1>5, <1>6, <1>8 DEF SubmitHeaderMismatch
  <1>9. CASE SubmitRepeated(share)
    BY <1>5, <1>6, <1>9 DEF SubmitRepeated
  <1>10. CASE SubmitRecorded(share, slot_was_stale)
    <2>1. UsersTracked /\ CandidatesServed /\ sent' = sent
      BY <1>1 DEF AcceptInv
    <2>2. /\ UsersTracked'
          /\ \/ Candidates' \subseteq Candidates
             \/ /\ Candidates' \subseteq Candidates \union {taken}
                /\ ServedTo(taken) /\ (HashInv => OnBlock(taken))
      BY <1>2, <1>3, <1>10, <2>1, RecordedIsCurrent
    <2> HIDE DEF taken
    <2>3. \A s : ServedTo(s) => ServedTo(s)'
      BY <2>1 DEF ServedTo
    <2>4. CandidatesServed'
      BY <2>1, <2>2, <2>3 DEF CandidatesServed
    <2>5. \A s : OnBlock(s) => OnBlock(s)'
      BY <1>b DEF OnBlock
    <2>6. StaysOnBlock
      BY <2>2, <2>5 DEF StaysOnBlock, CandidatesOnBlock
    <2> QED
      BY <2>2, <2>4, <2>6 DEF AcceptInv
  <1> QED
    BY <1>1, <1>7, <1>8, <1>9, <1>10

LEMMA AcceptThread ==
  ASSUME ValidatorInv, AcceptInv, ThreadStep
  PROVE  AcceptInv' /\ StaysOnBlock
  <1>a. pool \in Seq(JobOK)
    BY TypeFacts DEF ValidatorInv
  <1> PICK i \in DOMAIN pool, meets_target \in BOOLEAN :
             ValidateInThread(i, meets_target)
    BY DEF ThreadStep
  <1> DEFINE job == pool[i]
             verdict == IF ~ meets_target THEN "target"
                        ELSE IF job.stale THEN "stale" ELSE "success"
  <1>1. /\ verdicts' = verdicts \union {[share |-> job.share, verdict |-> verdict]}
        /\ pool' = PoolWithout(i)
        /\ UNCHANGED <<tableVars, hashVars, sent>>
    BY DEF ValidateInThread
  <1>2. Underway' \subseteq Underway
    BY <1>a, <1>1, JobDone DEF PoolWithout
  <1>3. verdict = "success" => job.share \in Underway
    BY DEF Underway
  <1> HIDE DEF job, verdict
  <1>4. Accepted' \subseteq Accepted \union Underway
    BY <1>1, <1>3 DEF Accepted
  <1>5. Candidates' \subseteq Candidates
    BY <1>2, <1>4 DEF Candidates
  <1>6. UsersTracked' /\ SentKept
    BY <1>1 DEF AcceptInv, UsersTracked, tableVars, SentKept
  <1>7. timing' = timing
    BY <1>1 DEF hashVars
  <1> QED
    BY <1>5, <1>6, <1>7, CurrentKept DEF AcceptInv

LEMMA AcceptStep ==
  ASSUME ValidatorInv, AcceptInv, [ValidatorNext]_validatorVars
  PROVE  AcceptInv' /\ StaysOnBlock
  <1>a. ValidatorTypeOK
    BY DEF ValidatorInv
  <1>1. ASSUME UNCHANGED <<verdicts, pool>>, SentKept,
               timing'.unanswered < 2 => timing.unanswered < 2
        PROVE  CandidatesServed' /\ StaysOnBlock
    <2>1. Candidates' = Candidates
      BY <1>1 DEF Candidates, Accepted, Underway
    <2> QED
      BY <1>1, <2>1, CurrentKept DEF AcceptInv
  <1>2. ASSUME UNCHANGED <<verdicts, pool, tableVars, sent>>,
               timing'.unanswered < 2 => timing.unanswered < 2
        PROVE  AcceptInv' /\ StaysOnBlock
    <2>1. SentKept /\ UsersTracked'
      BY <1>2 DEF SentKept, AcceptInv, UsersTracked, tableVars
    <2> QED
      BY <1>1, <1>2, <2>1 DEF AcceptInv
  <1>3. ASSUME NEW root \in Root, NEW user \in User, TrackWorkSent(root, user)
        PROVE  AcceptInv' /\ StaysOnBlock
    <2>1. /\ root \notin DOMAIN sent
          /\ UNCHANGED <<verdicts, pool, timing>>
      BY <1>3 DEF TrackWorkSent, shareVars, hashVars
    <2>2. /\ DOMAIN sent' = DOMAIN sent \union {root}
          /\ \A r \in DOMAIN sent : sent'[r] = sent[r]
          /\ sent'[root].user = user
      BY <1>3, <2>1 DEF TrackWorkSent, Inserted
    <2>3. /\ DOMAIN work_by_merkle_root' = DOMAIN work_by_merkle_root \union {root}
          /\ work_by_merkle_root'[root].user = user
          /\ \A r \in DOMAIN work_by_merkle_root : r # root =>
               work_by_merkle_root'[r] = work_by_merkle_root[r]
      BY <1>3 DEF TrackWorkSent, Inserted
    <2>4. DOMAIN work_by_merkle_root \subseteq DOMAIN sent
      BY DEF ValidatorInv, TablesFollowBlocks
    <2>5. UsersTracked' /\ SentKept
      BY <2>1, <2>2, <2>3, <2>4 DEF AcceptInv, UsersTracked, SentKept
    <2> QED
      BY <1>1, <2>1, <2>5 DEF AcceptInv
  <1>4. CASE ValidatorNewBlock
    <2>1. /\ work_by_merkle_root' = <<>>
          /\ UNCHANGED <<verdicts, pool, sent>>
      BY <1>4 DEF ValidatorNewBlock, TableAfterBlock, shareVars
    <2>2. UsersTracked' /\ SentKept
      BY <2>1 DEF UsersTracked, SentKept
    <2> QED
      BY <1>1, <1>4, <1>a, <2>1, <2>2, OvertakenStays DEF AcceptInv
  <1>5. CASE HashAnswer
    BY <1>2, <1>5, <1>a, OvertakenStays
    DEF HashAnswer, OnBlockHash, OnBlockHashFailed, shareVars
  <1>6. CASE UNCHANGED validatorVars
    BY <1>2, <1>6, <1>a, OvertakenStays DEF validatorVars, shareVars
  <1> QED
    BY <1>3, <1>4, <1>5, <1>6, AcceptThread, AcceptSubmit DEF ValidatorNext

LEMMA AcceptInit ==
  ValidatorInit => AcceptInv /\ CandidatesOnBlock
  <1> SUFFICES ASSUME ValidatorInit PROVE AcceptInv /\ CandidatesOnBlock
    OBVIOUS
  <1>1. Candidates = {}
    BY DEF ValidatorInit, Candidates, Accepted, Underway
  <1> QED
    BY <1>1 DEF ValidatorInit, AcceptInv, UsersTracked, CandidatesServed,
                CandidatesOnBlock

LEMMA AcceptInvariant == ValidatorSafety => []AcceptInv
  BY AcceptInit, AcceptStep, ValidatorInvariant, PTL DEF ValidatorSafety

LEMMA OnBlockInvariant == ValidatorSafety => []CandidatesOnBlock
  <1>1. /\ ValidatorInv /\ HashInv /\ AcceptInv /\ CandidatesOnBlock
        /\ [ValidatorNext]_validatorVars
        => CandidatesOnBlock'
    BY AcceptStep DEF StaysOnBlock
  <1> QED
    BY <1>1, AcceptInit, AcceptInvariant, ValidatorInvariant, HashInvariant, PTL
    DEF ValidatorSafety

LEMMA AcceptedFacts == AcceptInv /\ CandidatesOnBlock => AcceptedIsCurrent
  <1> SUFFICES ASSUME AcceptInv, CandidatesOnBlock,
                      NEW v \in verdicts, v.verdict = "success"
               PROVE  ServedTo(v.share) /\ OnBlock(v.share)
    BY DEF AcceptedIsCurrent, ServedTo, OnBlock
  <1> QED
    BY DEF AcceptInv, CandidatesServed, CandidatesOnBlock, Candidates, Accepted

(* What is accepted answers an item sent to that very miner since the last   *)
(* block, and builds on that block once every answer came, in order, and as  *)
(* long as the array of nonces has room; on it or on the one before when the *)
(* pool knew the hash of that one as the last block came.                    *)
THEOREM AcceptedAreCurrent == ValidatorSafety => []AcceptedIsCurrent
  BY AcceptedFacts, AcceptInvariant, OnBlockInvariant, PTL

-----------------------------------------------------------------------------
(* The ledger.  Each result has an id of its own and is in one place: in the *)
(* thread pool, once, or decided.                                            *)

OnePlaceEach ==
  /\ \A s \in Submissions : s \in Share /\ s.id \in 1 .. shares
  /\ \A s, t \in Submissions : s.id = t.id => s = t
  /\ \A i, j \in DOMAIN pool : pool[i].share.id = pool[j].share.id => i = j
  /\ \A i \in DOMAIN pool, v \in verdicts : pool[i].share.id # v.share.id

AcceptedIds == IdsDecided({"success"})
RefusedIds == IdsDecided(Verdict \ {"success"})

LEMMA LedgerHandIn ==
  ASSUME OnePlaceEach, shares \in Nat, NEW share \in Share, share.id = shares + 1,
         Submissions' = Submissions \union {share}, AcceptedIds' = AcceptedIds,
         RefusedIds' \in {RefusedIds, RefusedIds \union {share.id}}
  PROVE  Ledger!LedgerNext
  <1>1. share.id \in 1 .. MaxShares /\ <<share.root, share.nonce>> \in Root \X Nonce
    BY DEF Share
  <1>2. \A s \in Submissions : s.id # share.id
    BY DEF OnePlaceEach
  <1>3. \A r \in {Receipt(s) : s \in Submissions} : r.id # share.id
    BY <1>2 DEF Receipt
  <1>4. {Receipt(s) : s \in Submissions'} =
          {Receipt(s) : s \in Submissions} \union {Receipt(share)}
    BY ONLY Submissions' = Submissions \union {share}
  <1>5. Ledger!HandIn(share.id, <<share.root, share.nonce>>)
    BY <1>3, <1>4 DEF Ledger!HandIn, Receipt, AcceptedIds, RefusedIds
  <1> QED
    BY <1>1, <1>5 DEF Ledger!LedgerNext

(* A result accepted by a thread is the only candidate for what it answers. *)
LEMMA LedgerDecide ==
  ASSUME ValidatorInv, OnePlaceEach, NEW i \in DOMAIN pool, NEW accept \in BOOLEAN,
         accept => ~ pool[i].stale,
         Submissions' = Submissions,
         AcceptedIds' = IF accept THEN AcceptedIds \union {pool[i].share.id}
                                  ELSE AcceptedIds,
         RefusedIds' = IF accept THEN RefusedIds
                                 ELSE RefusedIds \union {pool[i].share.id}
  PROVE  Ledger!LedgerNext
  <1> DEFINE s == pool[i].share
             r == Receipt(s)
  <1>1. s \in Submissions
    BY DEF Submissions
  <1>2. s.id \in 1 .. MaxShares /\ r \in {Receipt(t) : t \in Submissions}
        /\ r.id = s.id /\ r.item = <<s.root, s.nonce>>
    BY <1>1 DEF OnePlaceEach, Share, Receipt
  <1>3. s.id \notin AcceptedIds \union RefusedIds
    BY DEF OnePlaceEach, AcceptedIds, RefusedIds, IdsDecided
  <1>4. {Receipt(t) : t \in Submissions'} = {Receipt(t) : t \in Submissions}
    OBVIOUS
  <1>5. Ledger!Undecided(r)
    BY <1>2, <1>3 DEF Ledger!Undecided, AcceptedIds, RefusedIds
  <1>6. CASE ~ accept
    <2>1. Ledger!Refuse(r)
      BY <1>2, <1>4, <1>5, <1>6 DEF Ledger!Refuse, AcceptedIds, RefusedIds
    <2> QED
      BY <1>2, <2>1 DEF Ledger!LedgerNext, Ledger!Decide
  <1>7. CASE accept
    <2>1. s \in Candidates
      BY <1>7 DEF Candidates, Underway
    <2>2. ASSUME NEW t \in Submissions, t.root = s.root, t.nonce = s.nonce,
                 t.id \in AcceptedIds
          PROVE  FALSE
      <3>1. PICK v \in verdicts : v.verdict = "success" /\ v.share.id = t.id
        BY <2>2 DEF AcceptedIds, IdsDecided
      <3>2. v.share \in Submissions /\ v.share \in Candidates
        BY <3>1 DEF Submissions, Candidates, Accepted
      <3>3. v.share = t
        BY <3>1, <3>2 DEF OnePlaceEach
      <3>4. t.id = s.id
        BY <2>1, <2>2, <3>2, <3>3 DEF ValidatorInv, CandidatesOnce
      <3> QED
        BY <1>3, <2>2, <3>4
    <2>3. \A t \in Submissions :
            Receipt(t).item = r.item => Receipt(t).id \notin AcceptedIds
      BY <1>2, <2>2 DEF Receipt
    <2>4. Ledger!Accept(r)
      BY <1>2, <1>4, <1>5, <1>7, <2>3 DEF Ledger!Accept, AcceptedIds, RefusedIds
    <2> QED
      BY <1>2, <2>4 DEF Ledger!LedgerNext, Ledger!Decide
  <1> QED
    BY <1>6, <1>7

LEMMA LedgerSubmit ==
  ASSUME ValidatorInv, OnePlaceEach, NEW root \in Root, NEW nonce \in Nonce,
         NEW user \in User, NEW on \in Blocks, NEW intact \in BOOLEAN,
         NEW slot_was_stale \in BOOLEAN,
         Submit(root, nonce, user, on, intact, slot_was_stale)
  PROVE  /\ OnePlaceEach' /\ Ledger!LedgerNext
         /\ \E marked \in BOOLEAN :
              Submissions' = Submissions
                \union {Handed(root, nonce, user, on, marked)}
  <1> DEFINE share == Handed(root, nonce, user, on, FALSE)
             taken == Handed(root, nonce, user, on, slot_was_stale)
             Conclusion(s) == /\ OnePlaceEach' /\ Ledger!LedgerNext
                              /\ Submissions' = Submissions \union {s}
  <1>a. shares \in Nat /\ pool \in Seq(JobOK) /\ shares' = shares + 1
    BY TypeFacts DEF ValidatorInv, Submit
  <1>1. \/ SubmitUnknown(share)
        \/ SubmitHeaderMismatch(share)
        \/ SubmitRepeated(share)
        \/ SubmitRecorded(share, slot_was_stale)
    BY DEF Submit, Handed
  <1>b. taken = Marked(share, slot_was_stale)
    BY HandedFacts DEF Submit, ValidatorInv
  <1>2. /\ share \in Share /\ share.id = shares + 1
        /\ taken \in Share /\ taken.id = shares + 1
    BY <1>b, HandedFacts, MarkedFacts DEF Handed, Submit, ValidatorInv
  <1> HIDE DEF share, taken
  <1>3. \A s \in Submissions : s.id # share.id /\ s.id # taken.id
    BY <1>2, <1>a DEF OnePlaceEach
  <1>4. ASSUME NEW verdict \in Verdict \ {"success"}, Refused(share, verdict)
        PROVE  Conclusion(share)
    <2> DEFINE entry == [share |-> share, verdict |-> verdict]
    <2>1. pool' = pool /\ verdicts' = verdicts \union {entry}
      BY <1>4 DEF Refused
    <2>a. entry.share = share /\ entry.verdict = verdict /\ verdict # "success"
      OBVIOUS
    <2> HIDE DEF entry
    <2>2. Submissions' = Submissions \union {share}
      <3>1. {v.share : v \in verdicts'} = {v.share : v \in verdicts} \union {share}
        BY <2>1, <2>a
      <3> QED
        BY <2>1, <3>1 DEF Submissions
    <2>3. AcceptedIds' = AcceptedIds /\ RefusedIds' = RefusedIds \union {share.id}
      BY <2>1, <2>a DEF AcceptedIds, RefusedIds, IdsDecided
    <2>4. \A i \in DOMAIN pool : pool[i].share \in Submissions
      BY DEF Submissions
    <2>5. OnePlaceEach'
      BY <1>2, <1>3, <1>a, <2>1, <2>2, <2>4, <2>a DEF OnePlaceEach
    <2> QED
      BY <1>2, <1>a, <2>2, <2>3, <2>5, LedgerHandIn
  <1>5. ASSUME NEW job \in JobOK, job.share = taken,
               pool' = Append(pool, job), verdicts' = verdicts
        PROVE  Conclusion(taken)
    <2>1. /\ Len(pool) \in Nat /\ DOMAIN pool = 1 .. Len(pool)
          /\ DOMAIN pool' = 1 .. Len(pool) + 1
          /\ \A i \in 1 .. Len(pool) : pool'[i] = pool[i]
          /\ pool'[Len(pool) + 1] = job
      <3>1. pool' \in Seq(JobOK)
        BY <1>5, <1>a, AppendProperties
      <3> QED
        BY <1>5, <1>a, <3>1, AppendProperties, LenProperties
    <2>2. Submissions' = Submissions \union {taken}
      <3>1. {pool'[i].share : i \in DOMAIN pool'} =
              {pool[i].share : i \in DOMAIN pool} \union {taken}
        BY <1>5, <2>1
      <3> QED
        BY <1>5, <3>1 DEF Submissions
    <2>3. AcceptedIds' = AcceptedIds /\ RefusedIds' = RefusedIds
      BY <1>5 DEF AcceptedIds, RefusedIds, IdsDecided
    <2>4. /\ \A i \in DOMAIN pool : pool[i].share.id # taken.id
          /\ \A v \in verdicts : v.share.id # taken.id
      BY <1>3 DEF Submissions
    <2>5. OnePlaceEach'
      <3>1. /\ \A s \in Submissions' : s \in Share /\ s.id \in 1 .. shares'
            /\ \A s, t \in Submissions' : s.id = t.id => s = t
        BY <1>2, <1>3, <1>a, <2>2 DEF OnePlaceEach
      <3>2. \A i, j \in DOMAIN pool' :
              pool'[i].share.id = pool'[j].share.id => i = j
        BY <1>5, <2>1, <2>4 DEF OnePlaceEach
      <3>3. \A i \in DOMAIN pool', v \in verdicts' :
              pool'[i].share.id # v.share.id
        BY <1>5, <2>1, <2>4 DEF OnePlaceEach
      <3> QED
        BY <3>1, <3>2, <3>3 DEF OnePlaceEach
    <2> QED
      BY <1>2, <1>a, <2>2, <2>3, <2>5, LedgerHandIn
  <1>6. {"unknown", "header", "duplicate", "user", "block"}
          \subseteq Verdict \ {"success"}
    BY DEF Verdict
  <1>7. ASSUME SubmitUnknown(share)
        PROVE  Conclusion(share)
    BY <1>4, <1>6, <1>7 DEF SubmitUnknown
  <1>8. ASSUME SubmitHeaderMismatch(share)
        PROVE  Conclusion(share)
    BY <1>4, <1>6, <1>8 DEF SubmitHeaderMismatch
  <1>9. ASSUME SubmitRepeated(share)
        PROVE  Conclusion(share)
    BY <1>4, <1>6, <1>9 DEF SubmitRepeated
  <1>10. ASSUME SubmitRecorded(share, slot_was_stale)
         PROVE  Conclusion(share) \/ Conclusion(taken)
    <2> DEFINE stale == slot_was_stale \/ Lookup(share.root).possible_stale # 0
               job == [share |-> taken, stale |-> stale]
    <2>1. \/ Refused(share, "user")
          \/ Refused(share, "block")
          \/ pool' = Append(pool, job) /\ verdicts' = verdicts
      BY <1>10, <1>b DEF SubmitRecorded
    <2>2. job \in JobOK /\ job.share = taken
      BY <1>2 DEF JobOK
    <2> HIDE DEF job
    <2> QED
      BY <1>4, <1>5, <1>6, <2>1, <2>2
  <1> QED
    BY <1>1, <1>7, <1>8, <1>9, <1>10 DEF share, taken

LEMMA LedgerThread ==
  ASSUME ValidatorInv, OnePlaceEach, ThreadStep
  PROVE  OnePlaceEach' /\ Ledger!LedgerNext /\ Submissions' = Submissions
  <1>a. pool \in Seq(JobOK)
    BY TypeFacts DEF ValidatorInv
  <1> PICK i \in DOMAIN pool, meets_target \in BOOLEAN :
             ValidateInThread(i, meets_target)
    BY DEF ThreadStep
  <1> DEFINE job == pool[i]
             verdict == IF ~ meets_target THEN "target"
                        ELSE IF job.stale THEN "stale" ELSE "success"
             accept == verdict = "success"
             entry == [share |-> job.share, verdict |-> verdict]
  <1>1. /\ verdicts' = verdicts \union {entry}
        /\ pool' = RemoveAt(pool, i)
        /\ shares' = shares
    BY DEF ValidateInThread, PoolWithout
  <1>2. /\ verdict \in Verdict /\ accept \in BOOLEAN
        /\ accept => ~ job.stale
    BY DEF Verdict
  <1>b. i \in 1 .. Len(pool)
    BY <1>a, LenProperties
  <1>3. /\ \A j \in DOMAIN pool' :
             \E k \in DOMAIN pool : k # i /\ pool'[j] = pool[k]
        /\ \A k \in DOMAIN pool : k # i =>
             \E j \in DOMAIN pool' : pool'[j] = pool[k]
        /\ \A j1, j2 \in DOMAIN pool' : j1 # j2 =>
             \E k1, k2 \in DOMAIN pool :
               k1 # k2 /\ pool'[j1] = pool[k1] /\ pool'[j2] = pool[k2]
    BY ONLY <1>a, <1>b, <1>1, RemoveAtFacts
  <1>c. job = pool[i]
    OBVIOUS
  <1>d. accept <=> verdict = "success"
    OBVIOUS
  <1>e. entry.share = job.share /\ entry.verdict = verdict
    OBVIOUS
  <1> HIDE DEF job, verdict, accept, entry
  <1>4. Submissions' = Submissions
    <2>1. {v.share : v \in verdicts'} = {v.share : v \in verdicts} \union {job.share}
      BY <1>1, <1>e
    <2>2. {pool'[j].share : j \in DOMAIN pool'} \subseteq
            {pool[k].share : k \in DOMAIN pool}
      BY <1>3
    <2>3. {pool[k].share : k \in DOMAIN pool} \subseteq
            {pool'[j].share : j \in DOMAIN pool'} \union {job.share}
      BY <1>3, <1>c
    <2>4. job.share \in {pool[k].share : k \in DOMAIN pool}
      BY <1>c
    <2> QED
      BY <2>1, <2>2, <2>3, <2>4 DEF Submissions
  <1>5. /\ AcceptedIds' = IF accept THEN AcceptedIds \union {job.share.id}
                                    ELSE AcceptedIds
        /\ RefusedIds' = IF accept THEN RefusedIds
                                   ELSE RefusedIds \union {job.share.id}
    BY <1>1, <1>2, <1>d, <1>e DEF AcceptedIds, RefusedIds, IdsDecided
  <1>6. OnePlaceEach'
    <2>1. \A j1, j2 \in DOMAIN pool' :
            pool'[j1].share.id = pool'[j2].share.id => j1 = j2
      BY <1>3 DEF OnePlaceEach
    <2>2. \A j \in DOMAIN pool', v \in verdicts' : pool'[j].share.id # v.share.id
      BY <1>1, <1>3, <1>c, <1>e DEF OnePlaceEach
    <2> QED
      BY <1>1, <1>4, <2>1, <2>2 DEF OnePlaceEach
  <1> QED
    BY <1>2, <1>4, <1>5, <1>6, <1>c, LedgerDecide

LEMMA LedgerStep ==
  ASSUME ValidatorInv, OnePlaceEach, [ValidatorNext]_validatorVars
  PROVE  OnePlaceEach' /\ [Ledger!LedgerNext]_(Ledger!ledgerVars)
  <1>1. ASSUME UNCHANGED shareVars
        PROVE  OnePlaceEach' /\ UNCHANGED Ledger!ledgerVars
    <2>1. UNCHANGED <<shares, pool, verdicts>>
      BY <1>1 DEF shareVars
    <2>2. Submissions' = Submissions
      BY <2>1 DEF Submissions
    <2> QED
      BY <2>1, <2>2 DEF OnePlaceEach, Ledger!ledgerVars, IdsDecided
  <1>2. \A root, user : TrackWorkSent(root, user) => UNCHANGED shareVars
    BY DEF TrackWorkSent
  <1>3. ValidatorNewBlock => UNCHANGED shareVars
    BY DEF ValidatorNewBlock
  <1>4. HashAnswer => UNCHANGED shareVars
    BY DEF HashAnswer, OnBlockHash, OnBlockHashFailed
  <1>5. UNCHANGED validatorVars => UNCHANGED shareVars
    BY DEF validatorVars
  <1> QED
    BY <1>1, <1>2, <1>3, <1>4, <1>5, LedgerSubmit, LedgerThread DEF ValidatorNext

LEMMA LedgerInit ==
  ValidatorInit => OnePlaceEach /\ Ledger!LedgerInit
  <1> SUFFICES ASSUME ValidatorInit PROVE OnePlaceEach /\ Ledger!LedgerInit
    OBVIOUS
  <1>1. Submissions = {} /\ verdicts = {} /\ DOMAIN pool = {}
    BY DEF ValidatorInit, Submissions
  <1> QED
    BY <1>1 DEF OnePlaceEach, Ledger!LedgerInit, IdsDecided

LEMMA LedgerInvariant == ValidatorSafety => []OnePlaceEach
  BY LedgerInit, LedgerStep, ValidatorInvariant, PTL DEF ValidatorSafety

(* No result is lost on its way: each that was submitted is in its place.    *)
AllPlaced == \A i \in 1 .. shares : \E s \in Submissions : s.id = i

LEMMA PlacedStep ==
  ASSUME ValidatorInv, OnePlaceEach, AllPlaced, [ValidatorNext]_validatorVars
  PROVE  AllPlaced'
  <1>1. ASSUME UNCHANGED shares, Submissions' = Submissions
        PROVE  AllPlaced'
    BY <1>1 DEF AllPlaced
  <1>2. ASSUME UNCHANGED shareVars
        PROVE  AllPlaced'
    <2>1. UNCHANGED <<shares, pool, verdicts>>
      BY <1>2 DEF shareVars
    <2> QED
      BY <1>1, <2>1 DEF Submissions
  <1>3. ASSUME NEW root \in Root, NEW nonce \in Nonce, NEW user \in User,
               NEW on \in Blocks, NEW intact \in BOOLEAN,
               NEW slot_was_stale \in BOOLEAN,
               Submit(root, nonce, user, on, intact, slot_was_stale)
        PROVE  AllPlaced'
    <2>0. PICK marked \in BOOLEAN : Submissions' =
             Submissions \union {Handed(root, nonce, user, on, marked)}
      BY <1>3, LedgerSubmit
    <2> DEFINE share == Handed(root, nonce, user, on, marked)
    <2>1. Submissions' = Submissions \union {share}
      BY <2>0
    <2>2. shares \in Nat /\ shares' = shares + 1 /\ share.id = shares + 1
      BY <1>3, TypeFacts DEF ValidatorInv, Submit, Handed
    <2> HIDE DEF share
    <2>3. \A i \in 1 .. shares' : i \in 1 .. shares \/ i = share.id
      BY <2>2
    <2> QED
      BY <2>1, <2>3 DEF AllPlaced
  <1>4. CASE ThreadStep
    <2>1. UNCHANGED shares
      BY <1>4 DEF ThreadStep, ValidateInThread
    <2> QED
      BY <1>1, <1>4, <2>1, LedgerThread
  <1>5. \A root, user : TrackWorkSent(root, user) => UNCHANGED shareVars
    BY DEF TrackWorkSent
  <1>6. ValidatorNewBlock \/ HashAnswer \/ UNCHANGED validatorVars
          => UNCHANGED shareVars
    BY DEF ValidatorNewBlock, HashAnswer, OnBlockHash, OnBlockHashFailed,
           validatorVars
  <1> QED
    BY <1>2, <1>3, <1>4, <1>5, <1>6 DEF ValidatorNext

LEMMA PlacedInvariant == ValidatorSafety => []AllPlaced
  <1>1. ValidatorInit => AllPlaced
    BY DEF ValidatorInit, AllPlaced
  <1> QED
    BY <1>1, PlacedStep, ValidatorInvariant, LedgerInvariant, PTL
    DEF ValidatorSafety

(* The validator implements ShareLedger: a result is accepted or refused at  *)
(* most once, and what it answers is accepted for it alone.                  *)
THEOREM LedgerIsKept == ValidatorSafety => KeepsLedger
  BY LedgerInit, LedgerStep, ValidatorInvariant, LedgerInvariant, PTL
  DEF ValidatorSafety, KeepsLedger, Ledger!LedgerSpec

-----------------------------------------------------------------------------

(* The header a result is hashed with names the block it was compared with.  *)
THEOREM HeadersNameBlocks == ValidatorSpec => []HeaderNamesBlock
  <1> DEFINE S == Nat
             first == Positions(101, 108)
             reordered == BlockHashReordered(SampleAnswer)
             last == Positions(109, 196)
  <1>1. /\ \A N \in Nat : \A f \in [1 .. N -> S] : f \in Seq(S) /\ Len(f) = N
        /\ \A s \in Seq(S), t \in Seq(S) :
             s \o t \in Seq(S) /\ Len(s \o t) = Len(s) + Len(t)
    <2> HIDE DEF S
    <2> QED BY ConcatProperties
  <1>2. SampleAnswer \in [1 .. 64 -> S]
    BY DEF SampleAnswer, Positions, DigitsOf, HashBytes
  <1>3. first \in [1 .. 8 -> S] /\ last \in [1 .. 88 -> S]
    BY DEF Positions
  <1>4. reordered \in [1 .. 64 -> S]
    <2>1. \A p \in 1 .. 64 :
            64 - 8 - (p - 1 - ((p - 1) % 8)) + ((p - 1) % 8) + 1 \in 1 .. 64
      <3> TAKE p \in 1 .. 64
      <3>1. p - 1 = 8 * ((p - 1) \div 8) + ((p - 1) % 8)
            /\ (p - 1) \div 8 \in 0 .. 7 /\ (p - 1) % 8 \in 0 .. 7
        OBVIOUS
      <3> QED BY <3>1
    <2>2. reordered =
            [p \in 1 .. 64 |->
               SampleAnswer[64 - 8 - (p - 1 - ((p - 1) % 8)) + ((p - 1) % 8) + 1]]
      <3>1. Len(SampleAnswer) = 64
        BY <1>1, <1>2
      <3> QED BY <1>2, <3>1 DEF BlockHashReordered
    <2> HIDE DEF reordered, S
    <2> QED BY <1>2, <2>1, <2>2
  <1>5. SampleHeader = (first \o reordered) \o last
    BY DEF SampleHeader, DigitsOf, HeaderBytes, HashBytes
  <1>6. /\ SampleHeader \in Seq(S) /\ Len(SampleHeader) = 160
        /\ SampleAnswer \in Seq(S) /\ Len(SampleAnswer) = 64
    <2> HIDE DEF first, reordered, last, S
    <2>1. /\ first \in Seq(S) /\ Len(first) = 8
          /\ last \in Seq(S) /\ Len(last) = 88
          /\ reordered \in Seq(S) /\ Len(reordered) = 64
          /\ SampleAnswer \in Seq(S) /\ Len(SampleAnswer) = 64
      BY <1>1, <1>2, <1>3, <1>4
    <2>2. /\ first \o reordered \in Seq(S)
          /\ Len(first \o reordered) = Len(first) + Len(reordered)
      <3>1. first \in Seq(S) /\ reordered \in Seq(S)
        BY <2>1
      <3> QED BY <3>1, ConcatProperties
    <2>3. /\ SampleHeader \in Seq(S)
          /\ Len(SampleHeader) = Len(first \o reordered) + Len(last)
      BY <1>1, <1>5, <2>1, <2>2, Zenon
    <2> QED BY <2>1, <2>2, <2>3
  <1>7. NamesBlock(SampleHeader, SampleAnswer)
    BY <1>6, HashedHeaderNamesBlock DEF DigitsOf, HeaderBytes, HashBytes
  <1> QED BY <1>7, PTL DEF HeaderNamesBlock

(* A digest is refused just when the number it is exceeds the target.        *)
THEOREM TargetsAreNumbers == ValidatorSpec => []TargetComparedAsNumber
  <1>1. ASSUME NEW digest \in SampleDigests, NEW target \in SampleTargets
        PROVE  ComparesNumbers(digest, target)
    <2>1. digest \in Bytes(3) /\ target \in [1 .. 2 * 3 -> Hex]
      BY DEF SampleDigests, SampleTargets, SampleBytes, Bytes, DigitsOf, Hex
    <2> QED BY <2>1, ComparedAsNumbers
  <1>2. TargetComparedAsNumber
    BY <1>1 DEF TargetComparedAsNumber
  <1> QED BY <1>2, PTL
=============================================================================
