--------------------------- MODULE WorkValidator ---------------------------
(***************************************************************************)
(* The validation of the miners' results (pool-dance/work-validator.c and  *)
(* the result object of work-result.c).                                    *)
(*                                                                         *)
(* Every item of work sent to a miner is tracked by its merkle root: those *)
(* sent since the last block in one table, those of the block before in    *)
(* another.  A result is first checked on the main thread against the      *)
(* tracked item, its nonces and the hash of the block it builds on, then   *)
(* hashed in a pool of threads.  The hash of a new block is asked of the   *)
(* node, and until the answer arrives results are checked against the old  *)
(* one.                                                                    *)
(*                                                                         *)
(* A block stands for its hash; a string holding a hash is a number, the   *)
(* index in strings of what it holds, since the program shares, frees and  *)
(* overwrites pointers to them.  WorkHeader says how a hash is compared and *)
(* computed on.                                                            *)
(***************************************************************************)
EXTENDS WorkHeader

CONSTANTS
  Root,          \* merkle roots of the items of work
  User,          \* names of the miners
  NonceMax,      \* TRACK_NONCE_MAX
  Nonce,         \* values of the nonce that are submitted
  Threads,       \* threads of the pool
  MaxBlocks,     \* bound on the blocks
  MaxShares,     \* bound on the results submitted
  MaxHashFailures \* bound on the getblockhash calls failing in a row

ASSUME ValidatorAssumption ==
  /\ NonceMax \in Nat \ {0}
  /\ Nonce \subseteq Nat
  /\ Threads \in Nat \ {0}
  /\ MaxBlocks \in Nat
  /\ MaxShares \in Nat
  /\ MaxHashFailures \in Nat

VARIABLES
  work_by_merkle_root,       \* items sent since the last block
  work_by_merkle_root_prev,  \* items sent during the block before
  block_num,                 \* the last block notified, 0 before the first
  strings,                   \* the block each hash string allocated is of
  freed,                     \* strings given back
  block_hash,                \* the string of the current block, 0 for NULL
  block_hash_prev,           \* the string of the block before, 0 for NULL
  hash_calls,                \* getblockhash calls in flight, per block
  failures,                  \* getblockhash calls that failed in a row
  timing,                    \* history: when the answers came, and the blocks
  shares,                    \* results submitted
  pool,                      \* results pushed to the thread pool, in order
  sent,                      \* history: to whom and when an item was sent
  verdicts                   \* history: the results decided

hashVars == <<block_num, strings, freed, block_hash, block_hash_prev,
              hash_calls, failures, timing>>
tableVars == <<work_by_merkle_root, work_by_merkle_root_prev>>
shareVars == <<shares, pool, verdicts>>
validatorVars == <<tableVars, hashVars, shareVars, sent>>

Blocks == 0 .. MaxBlocks

(* possible_stale is a C integer, used as a truth value. *)
TrackedWork ==
  [user : User, nonces : Seq(Nonce), possible_stale : Nonce \union {0, 1}]

(* "unknown", "header", "user", "block" and "target" are the reasons of      *)
(* WORK_VALIDATOR_ERROR_INVALID.                                             *)
Verdict == {"success", "stale", "duplicate",
            "unknown", "header", "user", "block", "target"}

(* A result as it was submitted: the item it answers, its nonce, who sends   *)
(* it and the block its header builds on; with them, as history, the block   *)
(* the pool was at, whether it had that block's hash, whether it had had the *)
(* hash of the block before, whether the item's nonces still fit in their    *)
(* array, and whether it went to the threads in memory that was marked.      *)
Share == [id : 1 .. MaxShares, root : Root, nonce : Nonce, user : User,
          on : Blocks, block : Blocks, settled : BOOLEAN, kept_up : BOOLEAN,
          fits : BOOLEAN, marked : BOOLEAN]

(* What properties say of the answers to getblockhash: none came after the   *)
(* answer for a later block; when the last block came the hash of the block  *)
(* before was known; how many blocks have come since a hash was set, 2 for   *)
(* good.  No action reads it.                                                *)
Timing == [orderly : BOOLEAN, kept_up : BOOLEAN, unanswered : 0 .. 2]

TablesOK ==
  /\ DOMAIN work_by_merkle_root \subseteq Root
  /\ DOMAIN work_by_merkle_root_prev \subseteq Root
  /\ \A r \in DOMAIN work_by_merkle_root :
       work_by_merkle_root[r] \in TrackedWork
  /\ \A r \in DOMAIN work_by_merkle_root_prev :
       work_by_merkle_root_prev[r] \in TrackedWork

ValidatorTypeOK ==
  /\ TablesOK
  /\ block_num \in Blocks
  /\ strings \in Seq(Blocks)
  /\ freed \subseteq DOMAIN strings
  /\ {block_hash, block_hash_prev} \subseteq {0} \union DOMAIN strings
  /\ hash_calls \in [Blocks -> Nat]
  /\ failures \in 0 .. MaxHashFailures
  /\ timing \in Timing
  /\ shares \in 0 .. MaxShares
  /\ pool \in Seq([share : Share, stale : BOOLEAN])
  /\ DOMAIN sent \subseteq Root
  /\ \A r \in DOMAIN sent : sent[r] \in [user : User, block : Blocks]
  /\ verdicts \subseteq [share : Share, verdict : Verdict]

ValidatorInit ==
  /\ work_by_merkle_root = <<>>
  /\ work_by_merkle_root_prev = <<>>
  /\ block_num = 0
  /\ strings = <<>>
  /\ freed = {}
  /\ block_hash = 0
  /\ block_hash_prev = 0
  /\ hash_calls = [b \in Blocks |-> 0]
  /\ failures = 0
  /\ timing = [orderly |-> TRUE, kept_up |-> TRUE, unanswered |-> 0]
  /\ shares = 0
  /\ pool = <<>>
  /\ sent = <<>>
  /\ verdicts = {}

-----------------------------------------------------------------------------

(* g_hash_table_insert *)
Inserted(table, key, value) ==
  [k \in DOMAIN table \union {key} |-> IF k = key THEN value ELSE table[k]]

(* work_validator_track_work_sent.  There is no work before the first block, *)
(* and the node makes up each item with a merkle root of its own.            *)
TrackWorkSent(root, user) ==
  /\ block_num > 0
  /\ root \notin DOMAIN sent
  /\ work_by_merkle_root' =
       Inserted(work_by_merkle_root, root,
                [user |-> user, nonces |-> <<>>, possible_stale |-> 0])
  /\ sent' = Inserted(sent, root, [user |-> user, block |-> block_num])
  /\ UNCHANGED <<work_by_merkle_root_prev, hashVars, shareVars>>

(* resolve_current_block_hash, with the calls c in flight. *)
ResolveCurrentBlockHash(c, block) ==
  hash_calls' = [c EXCEPT ![block] = @ + 1]

(* Mutations: the table is kept over a block, the wrong string is freed. *)
FreedByBlockCurrent == {block_hash} \ {0}
TableAfterBlockKept == work_by_merkle_root

(* A new block starts a new table. *)
TableAfterBlock == <<>>

(* g_free (self->block_hash_prev) *)
FreedByBlock == {block_hash_prev} \ {0}

HashSettled == \A b \in Blocks : hash_calls[b] = 0

(* The history of timing over a block, and over the answer for block b.      *)
TimingOfBlock ==
  timing' = [orderly    |-> timing.orderly,
             kept_up    |-> HashSettled /\ timing.orderly,
             unanswered |-> IF block_hash = 0 \/ timing.unanswered = 2
                            THEN timing.unanswered ELSE timing.unanswered + 1]
TimingOfAnswer(b) ==
  timing' = [orderly    |-> /\ timing.orderly
                            /\ block_hash # 0 => strings[block_hash] <= b,
             kept_up    |-> timing.kept_up,
             unanswered |-> IF timing.unanswered = 2 THEN 2 ELSE 0]

(* work_validator_notify_new_block.  block_hash keeps the old string, which  *)
(* block_hash_prev now shares, until the answer arrives.  Freeing a string   *)
(* a second time is undefined and ends the model.                            *)
ValidatorNewBlock ==
  /\ block_num < MaxBlocks
  /\ block_hash_prev \notin freed
  /\ block_num' = block_num + 1
  /\ freed' = freed \union FreedByBlock
  /\ block_hash_prev' = block_hash
  /\ work_by_merkle_root_prev' = work_by_merkle_root
  /\ work_by_merkle_root' = TableAfterBlock
  /\ ResolveCurrentBlockHash(hash_calls, block_num')
  /\ TimingOfBlock
  /\ UNCHANGED <<strings, block_hash, failures, shareVars, sent>>

(* Mutations: a call completes twice, a hash once known is kept. *)
OnBlockHashTwice(b) ==
  /\ hash_calls[b] > 0
  /\ hash_calls' = [hash_calls EXCEPT ![b] = @ - 2]
  /\ strings' = Append(strings, b)
  /\ block_hash' = Len(strings')
  /\ failures' = 0
  /\ TimingOfAnswer(b)
  /\ UNCHANGED <<block_num, freed, block_hash_prev, tableVars, shareVars, sent>>
OnBlockHashKept(b) ==
  /\ hash_calls[b] > 0
  /\ hash_calls' = [hash_calls EXCEPT ![b] = @ - 1]
  /\ strings' = Append(strings, b)
  /\ block_hash' = IF block_hash = 0 THEN Len(strings') ELSE block_hash
  /\ failures' = 0
  /\ TimingOfAnswer(b)
  /\ UNCHANGED <<block_num, freed, block_hash_prev, tableVars, shareVars, sent>>

(* on_block_hash, answered for block b: a new string, whichever answer came  *)
(* before.                                                                   *)
OnBlockHash(b) ==
  /\ hash_calls[b] > 0
  /\ hash_calls' = [hash_calls EXCEPT ![b] = @ - 1]
  /\ strings' = Append(strings, b)
  /\ block_hash' = Len(strings')
  /\ failures' = 0
  /\ TimingOfAnswer(b)
  /\ UNCHANGED <<block_num, freed, block_hash_prev, tableVars, shareVars, sent>>

(* Mutation: a failed call is not repeated. *)
BlockToRetryNone(b) == {}

(* The retry asks for the block of the moment. *)
BlockToRetry(b) == {block_num}

(* on_block_hash, failed *)
OnBlockHashFailed(b) ==
  /\ hash_calls[b] > 0
  /\ failures < MaxHashFailures
  /\ failures' = failures + 1
  /\ LET rest == [hash_calls EXCEPT ![b] = @ - 1]
     IN  hash_calls' = [c \in Blocks |->
                          IF c \in BlockToRetry(b) THEN rest[c] + 1 ELSE rest[c]]
  /\ UNCHANGED <<block_num, strings, freed, block_hash, block_hash_prev,
                 timing, tableVars, shareVars, sent>>

-----------------------------------------------------------------------------

(* Mutation: the table of the block before is not searched. *)
KnownSinceBlock(root) == root \in DOMAIN work_by_merkle_root

Known(root) ==
  root \in DOMAIN work_by_merkle_root \union DOMAIN work_by_merkle_root_prev

(* get_tracked_work_by_data: an item of the table of the block before is     *)
(* marked for good.                                                          *)
Lookup(root) ==
  IF root \in DOMAIN work_by_merkle_root THEN work_by_merkle_root[root]
  ELSE [work_by_merkle_root_prev[root] EXCEPT !.possible_stale = 1]

(* The tracked item is written back where it was found. *)
Update(root, work) ==
  IF root \in DOMAIN work_by_merkle_root
  THEN /\ work_by_merkle_root' = [work_by_merkle_root EXCEPT ![root] = work]
       /\ UNCHANGED work_by_merkle_root_prev
  ELSE /\ work_by_merkle_root_prev' =
            [work_by_merkle_root_prev EXCEPT ![root] = work]
       /\ UNCHANGED work_by_merkle_root

(* The nonces as memory has them: nonces is not bounds-checked and           *)
(* possible_stale is the word after it.                                      *)
NonceAt(work, i) ==
  IF i = NonceMax + 1 THEN work.possible_stale ELSE work.nonces[i]

(* check_merkle_root_and_nonce_is_unique, the search *)
Repeated(work, nonce) ==
  \E i \in DOMAIN work.nonces : NonceAt(work, i) = nonce

(* Mutation: nonces are not recorded. *)
RecordNonceNot(work, nonce) == work

(* check_merkle_root_and_nonce_is_unique, the assignments *)
RecordNonce(work, nonce) ==
  [work EXCEPT !.nonces = Append(@, nonce),
               !.possible_stale =
                 IF Len(work.nonces) = NonceMax THEN nonce ELSE @]

(* Mutation: the block is not looked at. *)
HashMatchesAny(string, block) == {TRUE}

(* check_previous_block_hash_matches: what comparing may yield.  A string    *)
(* that was freed may hold anything.                                         *)
HashMatches(string, block) ==
  IF string \in freed THEN BOOLEAN
  ELSE {string # 0 /\ strings[string] = block}

(* Mutation: the user is not compared. *)
UserMatchesAny(work, user) == TRUE

UserMatches(work, user) == work.user = user

(* Mutation: a refused result is dropped without an answer. *)
RefusedSilently(share, verdict) == UNCHANGED <<verdicts, pool>>

(* prevalidate_work_result and the rest of work_validator_validate: decided  *)
(* at once when refused, pushed to the thread pool otherwise.                *)
Refused(share, verdict) ==
  /\ verdicts' = verdicts \union {[share |-> share, verdict |-> verdict]}
  /\ UNCHANGED pool

(* Wrong length, or a merkle root never sent to a miner. *)
SubmitUnknown(share) ==
  /\ Refused(share, "unknown")
  /\ UNCHANGED tableVars

(* Another version or timestamp than those sent. *)
SubmitHeaderMismatch(share) ==
  /\ Known(share.root)
  /\ Update(share.root, Lookup(share.root))
  /\ Refused(share, "header")

SubmitRepeated(share) ==
  /\ Known(share.root)
  /\ Repeated(Lookup(share.root), share.nonce)
  /\ Update(share.root, Lookup(share.root))
  /\ Refused(share, "duplicate")

(* A result goes to the threads with the mark its memory came with.          *)
Marked(share, slot_was_stale) == [share EXCEPT !.marked = slot_was_stale]

(* The nonces that can be written before they leave the block TrackedWork is *)
(* allocated in; what one more would do is undefined, and not modelled.      *)
RoomForNonces == NonceMax + 3

(* The nonce is recorded before the user and the block are looked at.        *)
SubmitRecorded(share, slot_was_stale) ==
  /\ Known(share.root)
  /\ Len(Lookup(share.root).nonces) < RoomForNonces
  /\ LET work     == Lookup(share.root)
         recorded == RecordNonce(work, share.nonce)
         hash     == IF recorded.possible_stale = 0 THEN block_hash
                                                    ELSE block_hash_prev
         stale    == slot_was_stale \/ work.possible_stale # 0
     IN  /\ ~ Repeated(work, share.nonce)
         /\ Update(share.root, recorded)
         /\ \/ /\ ~ UserMatches(work, share.user)
               /\ Refused(share, "user")
            \/ /\ UserMatches(work, share.user)
               /\ FALSE \in HashMatches(hash, share.on)
               /\ Refused(share, "block")
            \/ /\ UserMatches(work, share.user)
               /\ TRUE \in HashMatches(hash, share.on)
               /\ pool' = Append(pool, [share |-> Marked(share, slot_was_stale),
                                        stale |-> stale])
               /\ UNCHANGED verdicts

(* nonces has room for one more. *)
NoncesFit(root) == Known(root) => Len(Lookup(root).nonces) < NonceMax

(* A result arrives, intact when it has the length, the version and the      *)
(* timestamp of the item.  work_result_new does not initialise stale: a      *)
(* result may start with what the memory held before (slot_was_stale).       *)
Submit(root, nonce, user, on, intact, slot_was_stale) ==
  LET share == [id |-> shares + 1, root |-> root, nonce |-> nonce,
                user |-> user, on |-> on, block |-> block_num,
                settled |-> HashSettled /\ timing.orderly,
                kept_up |-> timing.kept_up, fits |-> NoncesFit(root),
                marked |-> FALSE]
  IN  /\ shares < MaxShares
      /\ shares' = shares + 1
      /\ \/ ~ (intact /\ Known(root)) /\ SubmitUnknown(share)
         \/ ~ intact /\ SubmitHeaderMismatch(share)
         \/ intact /\ SubmitRepeated(share)
         \/ intact /\ SubmitRecorded(share, slot_was_stale)
      /\ UNCHANGED <<hashVars, sent>>

(* Mutation: the oldest result leaves the pool, whichever was hashed. *)
PoolWithoutOldest(i) == Tail(pool)

PoolWithout(i) == RemoveAt(pool, i)

(* validate_work_result_in_thread of the i-th result in the pool, one of     *)
(* those the threads have taken: the header's hash meets the target or not.  *)
(* A header hex_to_bin cannot read is refused with the same error as one     *)
(* that does not meet it.                                                    *)
ValidateInThread(i, meets_target) ==
  LET job == pool[i]
      verdict == IF ~ meets_target THEN "target"
                 ELSE IF job.stale THEN "stale" ELSE "success"
  IN  /\ i <= Threads
      /\ verdicts' = verdicts \union {[share |-> job.share, verdict |-> verdict]}
      /\ pool' = PoolWithout(i)
      /\ UNCHANGED <<shares, tableVars, hashVars, sent>>

ThreadStep ==
  \E i \in DOMAIN pool, meets_target \in BOOLEAN :
    ValidateInThread(i, meets_target)

HashAnswer == \E b \in Blocks : OnBlockHash(b) \/ OnBlockHashFailed(b)

(* The results submitted: nothing looks at the block of one that is not      *)
(* intact, so the block of the moment stands for all.                        *)
OneBlockIfBroken(on, intact) == intact \/ on = block_num

ValidatorNext ==
  \/ \E root \in Root, user \in User : TrackWorkSent(root, user)
  \/ ValidatorNewBlock
  \/ HashAnswer
  \/ \E root \in Root, nonce \in Nonce, user \in User, on \in Blocks \ {0},
        intact \in BOOLEAN, slot_was_stale \in BOOLEAN :
       /\ OneBlockIfBroken(on, intact)
       /\ Submit(root, nonce, user, on, intact, slot_was_stale)
  \/ ThreadStep

(* The node answers, and the threads run.                                    *)
ValidatorFairness ==
  /\ WF_validatorVars(HashAnswer)
  /\ WF_validatorVars(ThreadStep)

ValidatorSafety == ValidatorInit /\ [][ValidatorNext]_validatorVars

ValidatorSpec == ValidatorSafety /\ ValidatorFairness

-----------------------------------------------------------------------------

(* The same nonce of the same item is never accepted twice: not when the two *)
(* results are in the thread pool together, nor with a block between them,   *)
(* nor with more nonces than TRACK_NONCE_MAX.                                *)
NoDoubleAccept ==
  \A v, w \in verdicts :
    /\ v.verdict = "success" /\ w.verdict = "success"
    /\ v.share.root = w.share.root /\ v.share.nonce = w.share.nonce
    => v.share.id = w.share.id

(* What is accepted answers an item sent to that very miner since the last   *)
(* block.  When the hash of the block before was known as the last block     *)
(* came, it builds on one of the two; and once every hash was answered, in   *)
(* order, and as long as the nonces fit, on the current one.                 *)
AcceptedIsCurrent ==
  \A v \in verdicts :
    v.verdict = "success" =>
      /\ v.share.root \in DOMAIN sent
      /\ sent[v.share.root] = [user |-> v.share.user, block |-> v.share.block]
      /\ v.share.kept_up => v.share.on \in {v.share.block, v.share.block - 1}
      /\ v.share.settled /\ v.share.fits => v.share.on = v.share.block

(* What is accepted with the hash of the block known builds on that block.   *)
AcceptedOnBlock ==
  \A v \in verdicts :
    v.verdict = "success" /\ v.share.settled => v.share.on = v.share.block

(* With every getblockhash call answered, results are checked against the    *)
(* hash of the current block, whatever calls failed on the way and however   *)
(* late the answers came, even after further blocks, as long as none was     *)
(* overtaken by the answer for a later block (on_block_hash keeps the last   *)
(* to come).                                                                 *)
HashIsCurrent ==
  HashSettled /\ timing.orderly /\ block_num > 0 =>
    block_hash # 0 /\ strings[block_hash] = block_num

(* Neither hash that check_previous_block_hash_matches compares results with *)
(* has been freed.                                                           *)
HashesLive == {block_hash, block_hash_prev} \intersect freed = {}

(* That is so as long as no two blocks have come before one answer, and then *)
(* never again: later answers do not mend it.                                *)
LiveUntilOvertaken == HashesLive <=> timing.unanswered < 2

(* The header a result is hashed with names the block its previous block     *)
(* was compared with: the words on_block_hash moves, and the bytes           *)
(* validate_work_result_in_thread moves, give the order of the network.      *)
(* Nothing of it depends on the state: a run looks at it in the initial one. *)
HeaderNamesBlock == ValidatorInit => NamesBlock(SampleHeader, SampleAnswer)

(* A digest is refused just when the number it is exceeds the target of the  *)
(* configuration (hex_to_bin, compare_inverted_hashes).                      *)
TargetComparedAsNumber ==
  ValidatorInit =>
    \A digest \in SampleDigests, target \in SampleTargets :
      ComparesNumbers(digest, target)

(* The two tables are always those of the current block and of the one       *)
(* before: what a lookup takes for current or for possibly stale is so.      *)
TablesFollowBlocks ==
  /\ \A r \in DOMAIN work_by_merkle_root :
       r \in DOMAIN sent /\ sent[r].block = block_num
  /\ \A r \in DOMAIN work_by_merkle_root_prev :
       r \in DOMAIN sent /\ sent[r].block = block_num - 1

(* Every getblockhash call is answered in the end, failed ones repeated for  *)
(* the block of the moment, and the pool then knows the hash of its block;   *)
(* after each block anew.                                                    *)
HashIsResolved == []<>(HashSettled /\ HashIsCurrent)

(* Every result submitted is decided. *)
EveryShareDecided ==
  \A i \in 1 .. MaxShares :
    shares >= i ~> \E v \in verdicts : v.share.id = i

(* The results submitted, those decided and those the threads have.          *)
Submissions ==
  {v.share : v \in verdicts} \union {pool[i].share : i \in DOMAIN pool}

IdsDecided(verdict) ==
  {v.share.id : v \in {w \in verdicts : w.verdict \in verdict}}

Receipt(s) == [id |-> s.id, item |-> <<s.root, s.nonce>>]

Ledger == INSTANCE ShareLedger WITH
  Id        <- 1 .. MaxShares,
  Item      <- Root \X Nonce,
  submitted <- {Receipt(s) : s \in Submissions},
  accepted  <- IdsDecided({"success"}),
  refused   <- IdsDecided(Verdict \ {"success"})

(* The validator keeps the ledger: whatever the threads and the blocks do in *)
(* between, a result is decided once, and once decided stays so.             *)
KeepsLedger == Ledger!LedgerSpec
=============================================================================
