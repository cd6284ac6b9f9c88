---------------------------- MODULE BlockMonitor ----------------------------
(***************************************************************************)
(* How the pool notices new blocks (pool-dance/block-monitor.c): it asks   *)
(* the node for its block count, waits for the answer, waits latency       *)
(* milliseconds and asks again.  The chain of call and timeout carries     *)
(* itself: were it to break once, the pool would serve work of the same    *)
(* block for ever.                                                         *)
(***************************************************************************)
EXTENDS Naturals, SequencesExt

CONSTANTS MaxHeight,    \* bound on the blocks of the node
          MaxFailures   \* bound on the getblockcount calls that fail

ASSUME MonitorAssumption == MaxHeight \in Nat /\ MaxFailures \in Nat

VARIABLES
  height,        \* the block count of the node
  currentBlock,  \* the largest count seen
  started,
  src_id,        \* a timeout for checkBlock is set (src_id # 0)
  asked,         \* per call in flight, the block count when it was made
  failures,      \* calls that failed
  ran            \* main has called block_monitor_start

monitorVars ==
  <<height, currentBlock, started, src_id, asked, failures, ran>>

MonitorTypeOK ==
  /\ height \in 0 .. MaxHeight
  /\ currentBlock \in 0 .. MaxHeight
  /\ started \in BOOLEAN
  /\ src_id \in BOOLEAN
  /\ asked \in Seq(0 .. MaxHeight)
  /\ failures \in 0 .. MaxFailures
  /\ ran \in BOOLEAN

MonitorInit ==
  /\ height \in 0 .. MaxHeight
  /\ currentBlock = 0
  /\ started = FALSE
  /\ src_id = FALSE
  /\ asked = <<>>
  /\ failures = 0
  /\ ran = FALSE

-----------------------------------------------------------------------------

(* The node adds a block to its chain. *)
NodeGrows ==
  /\ height < MaxHeight
  /\ height' = height + 1
  /\ UNCHANGED <<currentBlock, started, src_id, asked, failures, ran>>

(* checkBlock makes the call. *)
AskBlockCount == asked' = Append(asked, height)

(* checkBlock, from its timeout *)
CheckBlock ==
  /\ src_id
  /\ src_id' = FALSE
  /\ AskBlockCount
  /\ UNCHANGED <<height, currentBlock, started, failures, ran>>

(* block_monitor_start, which main calls once. *)
Start ==
  /\ ~ ran
  /\ ran' = TRUE
  /\ started' = TRUE
  /\ src_id' = FALSE
  /\ AskBlockCount
  /\ UNCHANGED <<height, currentBlock, failures>>

(* block_monitor_stop: a call in flight is left to complete. *)
Stop ==
  /\ started
  /\ started' = FALSE
  /\ src_id' = FALSE
  /\ UNCHANGED <<height, currentBlock, asked, failures, ran>>

(* Mutations: only a success sets the next timeout; every answer does, even  *)
(* one that comes after the end.                                             *)
RearmedOnSuccess(succeeded) == started /\ succeeded
RearmedAlways(succeeded) == TRUE

(* on_block_count sets the next timeout after a success and after a failure. *)
Rearmed(succeeded) == started

(* Mutation: the count is taken for the number of the next block. *)
SeenNext(block) == block + 1

(* The count only ever grows, whatever the node says. *)
Seen(block) == IF block > currentBlock THEN block ELSE currentBlock

(* on_block_count, answered: the count is one the node had since the call.   *)
(* The caller of the module adds block_change_cb, which runs when the count  *)
(* is a new one.                                                             *)
OnBlockCount(i, block) ==
  /\ block \in asked[i] .. height
  /\ asked' = RemoveAt(asked, i)
  /\ currentBlock' = Seen(block)
  /\ src_id' = Rearmed(TRUE)
  /\ UNCHANGED <<height, started, failures, ran>>

(* on_block_count, failed *)
OnBlockCountFailed(i) ==
  /\ failures < MaxFailures
  /\ failures' = failures + 1
  /\ asked' = RemoveAt(asked, i)
  /\ src_id' = Rearmed(FALSE)
  /\ UNCHANGED <<height, currentBlock, started, ran>>

BlockCountEnds ==
  \E i \in DOMAIN asked :
    \/ OnBlockCountFailed(i)
    \/ \E block \in 0 .. MaxHeight : OnBlockCount(i, block)

MonitorNext ==
  \/ NodeGrows
  \/ Start
  \/ Stop
  \/ CheckBlock
  \/ BlockCountEnds

(* Calls complete and timeouts fire.                                         *)
MonitorFairness ==
  /\ WF_monitorVars(CheckBlock)
  /\ WF_monitorVars(BlockCountEnds)

MonitorSpec == MonitorInit /\ [][MonitorNext]_monitorVars /\ MonitorFairness

-----------------------------------------------------------------------------

(* While the monitor runs there is exactly one call or one timeout, never    *)
(* both and never none, and once it is stopped at most the last call: no     *)
(* timeout fires into a monitor that main has freed.                         *)
OneChain ==
  LET timeouts == IF src_id THEN 1 ELSE 0
  IN  IF started THEN Len(asked) + timeouts = 1
                 ELSE Len(asked) <= 1 /\ timeouts = 0

(* Every block of the node is noticed while the monitor runs, or one after   *)
(* it is.                                                                    *)
BlockIsNoticed ==
  \A h \in 0 .. MaxHeight :
    (started /\ height >= h) ~> (currentBlock >= h \/ ~ started)
=============================================================================
