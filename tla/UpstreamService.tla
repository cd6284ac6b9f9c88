-------------------------- MODULE UpstreamService --------------------------
(***************************************************************************)
(* The cache of getwork items kept in front of the upstream bitcoin node   *)
(* (pool-dance/upstream-service.c).                                        *)
(*                                                                         *)
(* The service wants work_queue_min items either cached in work_queue or   *)
(* asked for; work_requests, an unsigned C integer, counts the calls it    *)
(* believes are in flight.  A new block empties the cache and zeroes the   *)
(* counter while calls made for the previous block are still in flight:    *)
(* their answers arrive later, enter the cache, and take the counter       *)
(* below zero.  An item is abstracted to the one fact the rest of the pool *)
(* depends on: whether its call was made for the current block ("fresh")   *)
(* or before it ("late").                                                  *)
(***************************************************************************)
EXTENDS Integers, Sequences

CONSTANTS WorkQueueMin,  \* work_queue_min, the configured work-cache-size
          UintMod,       \* number of values of a guint: 2^32 in the build
          MaxCalls,      \* bound on the calls in flight when a block arrives
          MaxFailures    \* bound on the failed calls of one block

ASSUME UpstreamAssumption ==
  /\ WorkQueueMin \in Nat \ {0}      \* 0 selects the default
  /\ UintMod \in Nat
  /\ WorkQueueMin < UintMod
  /\ MaxCalls \in Nat
  /\ MaxFailures \in Nat

VARIABLES
  allocated,      \* work_queue # NULL: some block has been notified
  work_queue,     \* cached items, head first
  work_requests,  \* the counter of calls in flight, modulo UintMod
  calls,          \* calls really in flight, fresh and late
  failed,         \* history: fresh calls that failed since the last block
  late_answered   \* history: late calls answered since the last block

upstreamVars ==
  <<allocated, work_queue, work_requests, calls, failed, late_answered>>

Age == {"fresh", "late"}

UpstreamTypeOK ==
  /\ allocated \in BOOLEAN
  /\ work_queue \in Seq(Age)
  /\ work_requests \in 0 .. UintMod - 1
  /\ calls \in [Age -> Nat]
  /\ failed \in Nat
  /\ late_answered \in Nat

UpstreamInit ==
  /\ allocated = FALSE
  /\ work_queue = <<>>
  /\ work_requests = 0
  /\ calls = [a \in Age |-> 0]
  /\ failed = 0
  /\ late_answered = 0

-----------------------------------------------------------------------------

(* g_queue_get_length (NULL) is 0: nothing is cached before the first block. *)
HasWork == work_queue # <<>>

(* Mutations of the counter: signed, or stopping at zero.                    *)
WrapSigned(n) == n
WrapSaturating(n) == IF n < 0 THEN 0 ELSE n % UintMod

Wrap(n) == n % UintMod

(* Mutations: a loop that asks for one more; further down, an item handed    *)
(* out without asking for the next.                                          *)
ShortfallOneMore(requests, cached) ==
  LET have == Wrap(requests + cached)
  IN  IF have <= WorkQueueMin THEN WorkQueueMin + 1 - have ELSE 0

(* How often the loop of fill_work_queue runs: the sum it compares is a      *)
(* guint, each turn adds one call.                                           *)
Shortfall(requests, cached) ==
  LET have == Wrap(requests + cached)
  IN  IF have < WorkQueueMin THEN WorkQueueMin - have ELSE 0

(* fill_work_queue, run on the queue q, with r in the counter and c calls in *)
(* flight.                                                                   *)
FillWorkQueue(q, r, c) ==
  LET asked == Shortfall(r, Len(q))
  IN  /\ work_queue' = q
      /\ work_requests' = Wrap(r + asked)
      /\ calls' = [c EXCEPT !["fresh"] = @ + asked]

(* Mutation: a new block keeps the cache. *)
UpstreamNewBlockCacheKept ==
  /\ calls["fresh"] + calls["late"] + WorkQueueMin <= MaxCalls
  /\ allocated' = TRUE
  /\ FillWorkQueue(work_queue, 0,
       [fresh |-> 0, late |-> calls["late"] + calls["fresh"]])
  /\ failed' = 0
  /\ late_answered' = 0

(* upstream_service_notify_new_block: drop the cache, forget the calls in    *)
(* flight (they are not cancelled) and ask again.                            *)
UpstreamNewBlock ==
  /\ calls["fresh"] + calls["late"] + WorkQueueMin <= MaxCalls
  /\ allocated' = TRUE
  /\ FillWorkQueue(<<>>, 0,
       [fresh |-> 0, late |-> calls["late"] + calls["fresh"]])
  /\ failed' = 0
  /\ late_answered' = 0

(* rpc_on_getwork, the call succeeded: the item goes to the head.  The       *)
(* caller of the module adds what has_work_cb does.                          *)
GetworkAnswered(age) ==
  /\ calls[age] > 0
  /\ FillWorkQueue(<<age>> \o work_queue, Wrap(work_requests - 1),
                   [calls EXCEPT ![age] = @ - 1])
  /\ late_answered' = IF age = "late" THEN late_answered + 1
                                      ELSE late_answered
  /\ UNCHANGED <<allocated, failed>>

(* rpc_on_getwork, the call failed: an early return, before the counter is   *)
(* decremented and the queue filled.                                         *)
GetworkFailed(age) ==
  /\ calls[age] > 0
  /\ age = "fresh" => failed < MaxFailures
  /\ calls' = [calls EXCEPT ![age] = @ - 1]
  /\ failed' = IF age = "fresh" THEN failed + 1 ELSE failed
  /\ UNCHANGED <<allocated, work_queue, work_requests, late_answered>>

GetWorkNoRefill ==
  /\ HasWork
  /\ work_queue' = Tail(work_queue)
  /\ UNCHANGED <<allocated, work_requests, calls, failed, late_answered>>

(* upstream_service_get_work: pop the head and ask for another item.         *)
GetWork ==
  /\ HasWork
  /\ FillWorkQueue(Tail(work_queue), work_requests, calls)
  /\ UNCHANGED <<allocated, failed, late_answered>>

UpstreamNext ==
  \/ UpstreamNewBlock
  \/ \E age \in Age : GetworkAnswered(age)
  \/ \E age \in Age : GetworkFailed(age)
  \/ GetWork

UpstreamSpec == UpstreamInit /\ [][UpstreamNext]_upstreamVars

-----------------------------------------------------------------------------

(* The unsigned sum that fill_work_queue compares is exactly the configured  *)
(* cache size in every state after the first block, whatever late answers    *)
(* have done to the counter: wrapping below zero neither stops the refill    *)
(* nor makes it run away.                                                    *)
CounterBalanced ==
  allocated => Wrap(work_requests + Len(work_queue)) = WorkQueueMin

(* What the counter stands for, in true numbers: the items held and the      *)
(* calls made for this block, with the failed ones, exceed the cache size by *)
(* exactly the late answers received.  So the cache outgrows its size only   *)
(* by late answers, and runs dry only through failures.                      *)
CacheConserved ==
  allocated =>
    Len(work_queue) + calls["fresh"] + failed = WorkQueueMin + late_answered

(* The cache is kept provisioned at its configured size: an item is held or  *)
(* asked for at each of its places.                                          *)
CacheProvisioned ==
  allocated =>
    Len(work_queue) + calls["fresh"] + calls["late"] >= WorkQueueMin
=============================================================================
