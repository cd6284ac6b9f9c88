# pool-dance: a TLA+ model

pool-dance is a bitcoin mining pool server written in C on GLib and EventDance.
Miners ask it for work over HTTP/JSON-RPC ("getwork"); the pool takes work from a
bitcoin node in advance, hands it out, checks what the miners send back, passes
good results to the node and logs every judged share, accepted or rejected, to a
*round file*, which is copied aside and truncated when a block is found.

Almost everything runs in one thread, as callbacks of a GLib main loop; only the
hashing of results runs in a pool of threads. The hard part is therefore not
locking but *order*: answers of the node that arrive after the block they were
asked for, miners that leave while their request is queued, a second block found
while a round is being closed, a crash between the copy and the truncation, a
result that is judged, answered, logged and submitted after the block it was
made for.

The modules below are translated from `src/pool-dance/*.c`; line numbers of each
definition are in `PROJECT.json` under `map`.

## 1. Inventory

| Component | Source | State | Operations |
|---|---|---|---|
| upstream service | `upstream-service.c` | `work_queue` (cached work), `work_requests` (unsigned count of calls in flight) | new block, call answered, call failed, get work |
| pool server | `pool-server.c` | `getwork_queue`, `lp_conns`, references and "close" handlers on connections | getwork, long poll, putwork, close, new block, send work, respond to putwork |
| main program | `main.c` | the `serve_work` sources of the main loop, `current_block` | serve work, new block, putwork, validated, submitted |
| work validator | `work-validator.c` | two tables of tracked work, `block_hash`, `block_hash_prev`, calls in flight, thread pool | track work, new block, hash answered/failed, validate, validate in thread |
| work result | `work-result.c` | `stale`, reference count, submitted data | new, ref/unref, set stale |
| block monitor | `block-monitor.c` | `currentBlock`, `started`, `src_id`, calls in flight | start, stop, timeout, answered, failed |
| file logger | `file-logger.c` | `queue`, `write_all_string`, pending stream operation, `flushing`, `async_result`, `frozen` | log, flush, freeze, thaw, copy and truncate |
| round manager | `round-manager.c` | the round file's logger | share validated, block found, start |
| event dispatcher | `event-dispatcher.c` | a logger | formats events, logs them and emits them as signals |

How they interact. The block monitor's `block_change_cb` makes `main.c` call, in
this order, the validator's, the upstream service's and the pool server's
`notify_new_block`. The upstream service's `has_work_cb` and the pool server's
`getwork_callback` each add a timeout of 0 ms that runs `serve_work`, which takes
an item from the one and a request from the other and has the item tracked by the
validator once it was sent. A submitted result goes from the pool server to the
validator, is reported as submitted, and comes back, from the pre-validation or
through the thread pool, to `work_validator_on_validate` in `main.c`. There it is
reported, answered and, when it is good, submitted to the node with a reference
of its own; the node's answer makes it a block found or nothing. The event
dispatcher's signals take judged shares and blocks found to the round manager.

What is hard, component by component, and what makes each correct:

* **upstream service.** A new block zeroes the counter of calls without
  cancelling the calls, so the unsigned counter wraps below zero when their
  answers come. Correct: the wrapped sum still decides the refill rightly
  (`CounterBalanced`) and the cache grows only by late answers and shrinks only by
  failures (`CacheConserved`).
* **pool server and main, serving.** Connections are moved between two lists, with
  references and handlers taken by hand, while their miners may leave at any
  time. Correct: a waiting miner is held exactly once and nobody else at all
  (`HeldOnce`), references and handlers follow the lists (`HandlersFollowLists`),
  and a request and an item never sit there with no source to bring them together
  (`NoLostWakeup`, `QueuedIsServed`).
* **work validator.** Results are compared with the hash of a block that is still
  being asked for; strings are shared and freed; a C array is not bounds-checked;
  pre-validation and hashing are separated by a queue. Correct: no nonce is
  accepted twice (`NoDoubleAccept`), what is accepted is current
  (`AcceptedIsCurrent`, `TablesFollowBlocks`), hashes are current and resolved
  (`HashIsCurrent`, `HashIsResolved`) and live (`HashesLive`, which the code does not
  keep; `LiveUntilOvertaken` says when it does), and every result is decided, once
  and for good (`EveryShareDecided`, `KeepsLedger`).
* **main, judging.** The node may be a block ahead of the pool when it makes an
  item up, when it judges a result and when it answers; the cache holds items of
  the block before. Correct: a miner that does as it is told is refused only for a
  hash above the target or one of a short list of reasons, each with the condition
  it is given under (`HonestIsJudged`), a result lives as long as it is used
  (`ResultIsAlive`), the log says what became of it (`ResultStory`) and credits a miner
  only with what it was served, once (`CreditIsEarned`), a block found is named
  rightly or late (`FoundIsNamed`), and the miner is answered
  (`WaitingMinerIsOwed`, `EveryPutworkAnswered`).
* **file logger and round manager.** Writing, flushing, freezing, copying and
  truncating overlap with each other, with new entries, with faults and with a
  crash. Correct: no entry is lost, doubled or reordered (`LogConserved`,
  `KeepsPromise`), a round closed at rest is copied whole (`QuietRoundCopied`), and
  when rounds do not overlap nothing waits in the queue with nobody at work on it
  (`NothingIsStranded`), so that entries reach the file and rounds their copy
  (`SpacedIsLogged`, `SpacedIsArchived`).
* **block monitor.** One call or timeout has to keep itself alive
  (`OneChain`, `BlockIsNoticed`).

`PROJECT.json` lists every hazard at its line, with the properties that would
catch it, or the reason why none does.

## 2. Modules

`UpstreamService` — the work cache. An item is only "fresh" (asked for since the
last block) or "late". `work_requests` is an integer modulo `UintMod`, the width
of a `guint`. `FillWorkQueue` is the loop of `fill_work_queue`, which every
operation that changes the cache ends with. `GetworkFailed` keeps the early return
of `rpc_on_getwork`. `failed` and `late_answered` are history variables.

`PoolServer` — connections of miners in `getwork_queue` and `lp_conns`, with the
references (`refs`) and the two kinds of close handler. `Close` runs the handlers
that are attached; `lp_connection_on_close` stays attached, as it asks to be
disconnected with the wrong user data. A request whose answer cannot be sent is
gone from the queue and its client `unanswered`. A connection carries one
request at a time, and is not closed from within the sending of its answer.
`RpcPutwork` and `RespondPutwork` are the two ends of a submission.

`WorkServing` — EXTENDS both and adds the `serve_work` sources of `main.c`. An
action is one turn of the main loop: each callback is joined with what `main.c`
does in it (`OnGetwork`, `OnHasWork`, `ServeWork`, `BlockChange`).

`WorkValidator` — the two tables, the hash strings and the thread pool. A block
stands for its hash; a *string* holding a hash is a number, so that sharing and
freeing pointers can be expressed. `NonceAt` and `RecordNonce` follow the memory
layout of `TrackedWork`: the word after `nonces` is `possible_stale`. Reading an
uninitialised `stale` is a free choice (`slot_was_stale`), and so is comparing with
freed memory (`HashMatches`); a second free of a string ends the model. The order
of `prevalidate_work_result` is kept: the nonce is recorded before the user and the
block are looked at. Computing and
comparing the hash itself is abstracted to whether it meets the target. Beyond
`RoomForNonces` results of one item the writes would leave the memory block the
item is allocated in (104 bytes in a slice of 112, in a 64-bit build), where the
model ends. Nothing holds a block back while a hash is being asked for: answers
come before or after the next blocks, in any order. What the properties need to
know of that is recorded and read by no action: `timing` (was an answer overtaken
by that for a later block, was the hash of the block before known when the last
block came, how many blocks have come since a hash was set), and in each result
what held when it was submitted (`settled`, `kept_up`, `fits`) and whether its memory
came marked as stale (`marked`). A result that is not intact is submitted with one
block only (`OneBlockIfBroken`), as nothing looks at the block of such a one.

`WorkHeader` — the validator's functions on strings of hexadecimal digits: where
`swap_hex_bytes2`, the loop over the header and the loop of `on_block_hash` move each
character, what `hex_to_bin` makes of two characters (`strtoul` also takes a blank or
a sign before a single digit), and `compare_inverted_hashes`. The moves do not look
at the characters, so one string with all characters different shows them for
every string; `WorkHeaderProofs` does without that argument. The loop over the
words of a header and the value of a string of bytes are recursive functions. Nothing
of the module reaches the state: `WorkValidator` extends it to state
`HeaderNamesBlock` and `TargetComparedAsNumber` about the strings a run looks at.

`ShareLedger` — what a validator promises, with none of its tables: results are
handed in, each is accepted or refused at most once and for good, and no nonce of
an item is accepted twice. `WorkValidator`'s `KeepsLedger` is the refinement.

`PoolDance` — EXTENDS `WorkServing` and `WorkValidator`: the whole pool around one
node. An item is an element of the cache *and* builds on a block (`cached_on`,
`built_on`); serving tracks it, a new block empties cache and tables in one turn,
a miner's request slot becomes a submission (`put`), and `results` has for each
result the fields of the `WorkResult` object that matter after validation, the
references and where the object is, with the events logged of it as a history.
The node (`chain`) grows by itself or by a result submitted; the pool hears of a
block (`NoticeBlock`) before the next one comes, whether somebody else's
(`NodeGrows`) or one of the pool's (`NodeJudges`), which is the monitor's polling
seen from here. `MaxBlocks` bounds its height. An item that arrives builds on any
block since the call could have been made; for a late one that is any block,
which includes more than the node could answer.

`FileLogger` — one logger as a record, each function as an operator that returns
the record after the call, so that handlers making several calls compose them
(`CloseRound` is `CopyAndTruncate` after `Log`, as in `on_block_found`). The unit of
writing is an entry; `Written(l, n)` is the completion of a write that took `n`
entries, `n = 0` a failed one.

`RoundManager` — the state machine around one such logger: the round file, the
copies, the timeouts of `copy_and_truncate_on_timeout`, stream completions, faults,
and the process killed at any moment (`Killed`) or right between the copy and the
truncation (`KilledInCopy`) and started again. `logged`, `truncated` and `quiet` are
history variables.

`RoundLog` — the abstract log: one sequence of entries, how much of it is on file
and how much was taken away with rounds, and the copies, each of which is what was
on file of its round. `RoundManager`'s `KeepsPromise` is the refinement; the sequence
is mapped to the round manager's *real* contents (truncated, file, string,
queue), not to a history of what was logged.

`BlockMonitor` — the chain of `getblockcount` calls and timeouts, against a node
whose chain grows.

`MC*` are the instances for TLC; `*Proofs` hold the theorems; `DataTheorems` has the
facts about wrapped counters and sequences, and an induction over the natural
numbers the provers can use. Operators marked "Mutation" above a definition are
plausible bugs of it: for each property of a passing run, replacing the definition
by the mutation makes TLC find the property violated. Where a specification is
used in a theorem about another, its safety part has a name of its own
(`WorkServingSafety`, `ValidatorSafety`): the composition implements the safety of its
parts, and states its own fairness.

## 3. Runs

| Run | Expects | What it shows | Bounds |
|---|---|---|---|
| `work_serving` | pass | All properties of cache, pool server and `serve_work`, safety and liveness in one composition | 3 connections, cache of 2, counter of 8 values, 2 sources, 1 failure per block |
| `round_safety` | pass | The log is conserved and keeps its promise with overlapping rounds, short writes, a failed copy and a restart; when rounds do not overlap, nothing is stranded in the queue, entries reach the file and, on a file the pool found, rounds their copy | 2 shares, 2 blocks, 2 short writes, 1 failed copy, 1 restart, 2 overlaps; on a round file the pool made or found |
| `validator_results` | pass | What is accepted, and once; the ledger is implemented; the header hashed names the block compared with, and the target is compared as a number | 1 item, 2 miners, 2 nonces for an array of 1, 3 results, 2 blocks, 2 threads, 1 failed call in a row; digests and targets of 3 bytes, out of 5 bytes and 3 digits |
| `block_monitor` | pass | The polling chain and its liveness | 4 blocks, 3 failures |
| `pool_dance` | pass | The composition: honest miners, references, the story of each result, credit only where it is earned, nobody waiting for a result that is lost | 1 connection, 2 miners, 1 item, 2 results of one nonce for an array of 2, 2 blocks |
| `pool_blocks` | pass | The composition over more blocks: forgotten items, hashes that are current and, until two blocks come before one answer, live; named blocks | 1 connection, 1 item, 1 result, 3 blocks, 1 failed getblockhash in a row |
| `pool_answers` | pass | The composition with calls in flight over a block: honest results of late items, everybody answered, every hash resolved | 1 connection, 1 item, 1 result, 2 getwork calls, 2 blocks, 1 failed getblockhash in a row |
| `upstream_leak` | violation of `CacheProvisioned` | A failed getwork loses its place in the cache until the next block | cache of 3, 3 failures |
| `round_overlap` | violation of `EventuallyLogged` | A block found in the second before the truncation stops the log for ever | 1 share, 2 blocks, no faults |
| `round_copy` | violation of `RoundCopied` | A block found during a write is logged in the next round's file | 1 share, 1 block, no faults |
| `validator_freed` | violation of `HashesLive` | Two blocks before one answer free the hash results are compared with | 3 blocks |
| `validator_overflow` | violation of `AcceptedOnBlock` | The nonce after `TRACK_NONCE_MAX` gets a result of the old block accepted | 2 results, array of 1 |

Why the bounds are enough. The cache of 2 with 2 late calls is the smallest in
which late answers take the counter below zero, and a counter of 8 values is the
smallest that tells a wrap from a small number. `MaxFailures` is below the cache
size in `work_serving` because `QueuedIsServed` is false otherwise; that is the
finding of `upstream_leak`. `MaxSources` holds back new requests and blocks,
never answers, while two sources are pending: two are enough for one to find
nothing to do. `NonceMax = 1` with three results is the smallest array that is
overrun and then searched again. Two blocks give a copy that fails or is refused
and one that succeeds after it; two short writes are one more than a flush
tolerates. In `pool_dance` two results of one item is what duplicates, shared
nonce arrays and a block found while another result is under way take, and two
miners are what it takes for one to burn the other's nonce or to claim its item.
In `pool_blocks` three blocks is what an item takes to be forgotten, and a live
string to be freed: the hash of the first block is shared by the second and freed
by the third. In `pool_answers` the second getwork call (`MaxCalls` is above
`WorkQueueMin`) lets a block come with a call in flight, whose item is then late.
With one connection the last clause of `WaitingMinerIsOwed` has nothing to say in
the run; `WaitingAreOwed` proves it for every set of connections. An item builds on
block 1 or later: before the first block the pool asks for no work.

The counters bounded by constants bound the run only, except the failures of
`getblockhash`: they are bounded *in a row*, as the call is repeated for ever and
nothing would be resolved if it always failed.

In the `RoundManager`, `WorkValidator`, `PoolDance` and `BlockMonitor` runs a deadlock
is the end of the bounded input, so it is not checked; in `work_serving` and
`upstream_leak` it is.

**Fairness.** `WorkServing`: the main loop dispatches its sources, and each call
made for the current block completes, with an item or an error (the HTTP client
has a time limit). `RoundManager`: each stream operation completes, well or not,
and timeouts fire. `WorkValidator`: the node answers, and GLib's threads run what
was pushed. `BlockMonitor`: calls complete and timeouts fire. `PoolDance`
(`DanceFairness`): the node answers `getblockhash`, the threads run, and the main loop
runs the callback of a result that was judged; nothing is assumed of the cache,
the miners or the submissions to the node, as nothing waits for them. All are weak;
none is assumed of miners, of the node's chain or of the shares found.
`QueuedIsServed` supposes that blocks eventually leave the pool time to work, since
each block empties the cache.

What keeps `NoLostWakeup` true is that a block empties the cache in the same turn
in which it makes requests of the parked connections: with the cache kept it fails.
That a `serve_work` source stays while it can serve once more is not needed for it;
every request and every item brings a source of its own, so one-shot sources would
do. Likewise `on_block_found` depends on logging its BLOCK entry first: on a logger
at rest that entry is what makes the flush, and so the copy, happen at all.

**Environment assumptions.** Of when the node answers `getblockhash` nothing is
assumed. Where a property holds only for some orders of the answers, the condition
is part of the property, stated of the history (`timing`, and `settled` and `kept_up`
of a result): `HashIsCurrent` of answers none of which was overtaken by that for a
later block, since `on_block_hash` keeps the last to come; `LiveUntilOvertaken` and
`FoundIsNamed` until two blocks have come before one answer; `AcceptedIsCurrent` and
`HonestIsJudged` of what was known when the result was submitted. `MaxOverlaps` is a
constant: how many blocks are found while a round is being closed; `SpacedIsLogged`
and `SpacedIsArchived` are about the behaviours with none, `round_overlap` shows what
one does, and every other property of `round_safety` holds with any number. Part of
`PoolDance` itself: the node is at most one block ahead of the block the pool has
noticed.

## 4. Findings

Each is shown by a run that expects a violation.

1. `upstream-service.c:157`: a failed getwork returns before the counter is
   decremented, so its place in the cache is lost until the next block.
2. `file-logger.c:354`: a flush asked for with nothing to write never completes;
   a second block in the second before the truncation stops the log.
3. `round-manager.c:226`: a BLOCK entry still queued when the round is closed goes to
   the file of the next round.
4. `work-validator.c:615`: a second block before the hash of the first is known
   frees the string that both hash fields still name; results are compared with
   freed memory, and the block after frees it again.
5. `work-validator.c:262`: the array of nonces is written past its end, into
   `possible_stale`.

Smaller disagreements met on the way, without a run: `stale` is never initialised
(`work-result.c:41`), so that a result of the current block may be refused as stale
(`marked` in `HonestIsJudged`); a nonce is recorded before the user is looked at
(`work-validator.c:336`), so that a miner who sends another's item burns the nonce
for its owner (`Recorded` there); the very first run has a logger without a file
name (`round-manager.c:163`), and no round of it is ever closed (`SpacedIsArchived`
is about the others); results of a new block are
refused until its hash is known (`settled` in `HonestIsJudged`); late items are
pushed to the head of the cache and served first, and their honest results are
then refused as invalid, not as stale (`built_on` there); two short writes in one
flush leave the tail out of the copy (`QuietRoundCopied` allows it); a block found
that the node reports after the pool has noticed the next one is named by the
later block (`FoundIsNamed`); `main.c:269` reads the log level from the key
`log-file`.

## 5. Proofs

The theorems hold for every value of the constants allowed by the named
assumptions (`UpstreamAssumption`, `WorkServingAssumption`, `RoundManagerAssumption`,
`NoCopyIsNoBlock`, `ValidatorAssumption`, `MonitorAssumption`), which TLC evaluates in
the runs. They assume nothing else: where a property depends on when the node
answers, the condition is in the property.

* **`UpstreamServiceProofs`**: `UpstreamTypes`, `CounterIsBalanced`, `CacheIsConserved`.
  `UpstreamInv` adds `QuietBeforeFirstBlock` to the three properties: before the first
  block nothing is asked for, so no call can be answered or fail while the
  accounts are not yet open. `FillLemma` is the core: one run of the refill loop
  brings the wrapped sum to the cache size; it rests on `DataTheorems`, the laws of the
  remainder that say that wrapping an operand first changes nothing. The accounts
  need no bound on the cache's growth by late answers.
* **`WorkServingProofs`**: `WorkServingTypes`, `NoWakeupIsLost`, `WaitingIsHeldOnce`,
  `HandlersFollow`. `NoLostWakeup` with `serve_sources \in Nat` is
  inductive; the argument is that arrivals bring a source, that a source leaves only
  after having seen that it is not needed, and that a block, which makes requests
  without a source, leaves no item. The two lists are proved about through
  `PoolInv`: each connection has at most one place in the two lists together, that
  place agrees with what its miner is doing, and references and handlers count
  places; each list operation (park, queue, take out by index, turn all parked into
  requests) has a lemma on places. `ServingUsesTheCache` proves that the
  composition implements `UpstreamSpec`, step by step, which carries the cache's
  invariants over to it.
* **`RoundManagerProofs`**: `RoundTypes`, `LogIsConserved`, `RoundLogImplemented`,
  `QuietRoundsCopied`, `NoneIsStranded`. `RoundInv` adds `FlushIsForCopy` (the
  stream is flushed only with a copy waiting), needed for the type of the timeouts.
  Each `FileLogger` operator has a lemma that says what it does to `Unwritten`, the
  string being written followed by the queue: moves it, appends to it, or takes the
  written part off its front; the actions then follow by associativity. The
  refinement of `RoundLog` rests on `LogConserved`, which says that the mapped sequence
  is the one logged, and on where its parts begin and end. `QuietRoundCopied` needs
  `CopyInv`, which follows the BLOCK entry: it is the last of the string when the
  write is begun, of the file when that write or its retry has ended and the stream
  is flushed, and stays so while a copy is scheduled, since the logger is then
  frozen with nothing to write. `TimersHold` and `FlushHolds` say so for one short
  write at most; a flush that waits for ever (finding 2) is in it as the case of a
  logger that is asked and does nothing. `NothingIsStranded` excludes just that case
  while no two rounds overlap: `SpacedInv` says that a flush asked for has the stream
  at work, that a copy scheduled is the only one and the logger frozen for it, that
  a logger not frozen is writing unless it has nothing to write, and that each round
  was archived or has somebody who will do it. `WriteAllMoves`, `WrittenMoves` and
  `ThawMoves` say of the logger's operations that they never stop with a queue.
* **`WorkValidatorProofs`**: `ValidatorTypes`, `TablesFollow`, `NothingIsAcceptedTwice`,
  `HashesAreCurrent`, `HashesAreLive`, `AcceptedAreCurrent`, `LedgerIsKept`,
  `HeadersNameBlocks`, `TargetsAreNumbers`.
  `NoDoubleAccept` is not inductive alone. Its strengthening speaks of *candidates*,
  the results accepted and those in the thread pool that may yet be: each has its
  nonce recorded as long as its item is current (`CandidatesRecorded`), two of the
  same nonce are the same result (`CandidatesOnce`), and the word after the array holds
  the nonce written there (`SlotHoldsNonce`), which makes the search see it although it
  is `possible_stale`. Items of the block before make no new candidates, since
  looking them up marks them. The hashes (`HashInv`): calls and strings are of blocks
  that were notified (`CallsNotified`, `StringsNotified`); once the call for the last
  block is answered `block_hash` is a string of its own, and of that block unless an
  answer was overtaken (`HashFresh`); the two fields share a string just between a
  block and the next answer, and a second block in that time frees it for good
  (`HashesShared`); when the hash of the block before was known as the last block
  came, the two fields are of these two blocks (`KeptUp`). `AcceptedIsCurrent` then
  follows with two clauses on the candidates: that they were served to their miner
  at their block (`CandidatesServed`), and that they build on it under the conditions
  they carry (`CandidatesOnBlock`), which needs the hashes. The refinement of `ShareLedger`
  adds that a result is in one place, queued or decided (`OnePlaceEach`), and
  `AllPlaced` that each has one.
* **`WorkHeaderProofs`**: `HashedHeaderNamesBlock` and `ComparedAsNumbers`, of which the
  last two above are instances. The first is about every header and every answer of
  a node, whatever their characters: `HashedHeaderSwaps` follows the loop word by word, and the
  twin of a position under it is worked out once (`TwinFacts`). The second is about
  digests and targets of any length: two strings of bytes that agree from a place on
  differ as numbers the way they differ there. Both recursions are shown to have a
  value and are followed by `NatSetInduction`, induction stated of a set and proved
  from the well-foundedness of the order, since the library's own theorem takes an
  operator the provers cannot instantiate.
* **`BlockMonitorProofs`**: `MonitorTypes`, `ChainIsOne`, with `QuietBeforeStart`.
* **`PoolDanceProofs`**: `PoolServes` and `PoolValidates` prove that the composition
  implements its two parts, so that all their invariants hold in it and are used
  below. `ResultsAreAlive` and `StoriesAreTrue` are one induction over the phases of
  a result (`ResultInv`: what each phase says of its references, its events and its
  place in the chain, which only grows). `FoundAreNamed` adds when things happened
  (`TimeInv`): until two blocks come before one answer, a result submitted to the node builds on no
  block later than the pool's, and the node makes a block of it only while the pool
  is still there. `DanceTypes` closes with the shape of
  cache, items and connections (`PutOK`, `ItemsOK`, `MadeOf`).
  `HonestAreJudged` is the theorem about the miners. `TrackInv`
  turns `TablesFollowBlocks` around: every item sent since the block before *is* in
  the table of its block (`TablesComplete`), with its miner's name and no nonce but
  recorded ones (`EntriesTrue`), not taken for possibly stale before its array is full
  (`SlotClear`), and a result in the threads is stale only for its item or its memory
  (`JobsTrue`). `Fair` is what then holds of each verdict on a result that says truly
  what it was made of, `HonestInv` that honest results do, from putwork until they
  are judged. That a comparison comes out right for them is `RightHash`, from
  `HashFresh` for an item of the current block and `KeptUp` for one of the block before.
  `CreditsAreEarned` joins the two halves of the pool: an event in the log that
  credits a miner stands for a verdict, a verdict for a candidate of the validator,
  and a candidate was served; `ChainPaid` follows the credit into the node's chain.
  Nothing is assumed of when the node answers: an item's owner does not depend on
  the hashes. For `WaitingAreOwed`, `WaitInv` says that a connection waits only
  for a result `main.c` has not looked at yet, and that no other waits for the same,
  and `AllPlaced` that the result is somewhere. Two refinements of `ShareLedger`:
  `PoolKeepsLedger`, by the verdicts, carried over from the validator, and
  `LogKeepsLedger`, by what the log tells (`ToldLedger`), which decides a result a
  callback later than the validator; its acceptance is allowed because the
  candidates of one nonce are one result, and nothing is ever told twice.

Only model-checked: all liveness (`QueuedIsServed`, `SpacedIsLogged`,
`SpacedIsArchived`, `HashIsResolved`, `EveryShareDecided`, `EveryPutworkAnswered`,
`BlockIsNoticed`), which needs fairness and ENABLED and is out of the prover's reach.
The safety that four of them rest on is proved: a state in which something waits
always has somebody to end the waiting (`NoLostWakeup`, `NothingIsStranded`,
`WaitingMinerIsOwed`, `OneChain`). Every safety property a passing run checks has its
theorem. `LogKeepsLedger` is proved only: as a property of `pool_dance` it holds as
well, but takes nearly half as long again.

## 6. Not modelled

* A reorganisation of the node's chain, at the same height or a lower one: the chain
  only grows, as the monitor compares heights alone and would not see one.
* Entries torn by a crash or a short write: a write is cut between entries.
* Start-up and shutdown, configuration, command line, daemonising: code run once,
  before or after the main loop. Shutdown has hazards of its own
  (`work-validator.c:158` and `:164`, and a monitor freed with a call in flight:
  freeing what is in use, or a shared string twice); they have no property, as the
  model ends where the main loop does.
* The text of the event dispatcher's entries, and those of its events that are
  only text (work requested, work sent, current block). What it says of results,
  and in which order, is `ResultStory`; its own logger is a `FileLogger` like the round
  manager's.
* The double hash of the validator: a result's digest meets the target or does
  not. What an unreadable target in the configuration leaves in `target`
  (`work_validator_set_target` ignores the error).
* The names of the copies of rounds: `PoolDance` says which number a block found
  gets, `RoundManager` numbers the blocks one by one.
* HTTP, JSON-RPC, GIO and the bitcoin node are external: their callbacks are actions
  of the environment.

## 7. Plan

Done: the components and their composition, the validator's functions, the two
abstract specifications and their refinements, and a theorem for each safety
property a passing run checks. Left, in this order:

1. `RoundManager` under `PoolDance`, so that the order of shares and blocks in the
   round file is that of the pool's results. Each of the two alone is near the
   limit of what TLC can enumerate; the theorems would be the way.
2. Shutdown as an action of `PoolDance`, with what is freed and what is in flight.
