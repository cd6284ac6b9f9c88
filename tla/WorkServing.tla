---------------------------- MODULE WorkServing ----------------------------
(***************************************************************************)
(* How main.c brings the work cache and the waiting miners together: an    *)
(* item that arrives and a request that arrives each add a source that     *)
(* runs serve_work from the main loop, which stays while there are both    *)
(* requests and items.                                                     *)
(*                                                                         *)
(* Everything runs on one thread: an action is one turn of the main loop.  *)
(***************************************************************************)
EXTENDS UpstreamService, PoolServer

CONSTANT MaxSources   \* with so many serve_work sources pending, neither a
                      \* getwork nor a block arrives; answers always do

ASSUME WorkServingAssumption == MaxSources \in Nat \ {0}

VARIABLE serve_sources   \* serve_work sources in the main loop

servingVars == <<upstreamVars, poolVars, serve_sources>>

WorkServingTypeOK ==
  /\ UpstreamTypeOK
  /\ PoolTypeOK
  /\ serve_sources \in Nat

WorkServingInit == UpstreamInit /\ PoolInit /\ serve_sources = 0

-----------------------------------------------------------------------------

(* evd_timeout_add (NULL, 0, ..., serve_work, NULL) *)
AddServeSource == serve_sources' = serve_sources + 1

(* A miner connects, or goes away. *)
MinerConnects(c) == Connect(c) /\ UNCHANGED <<upstreamVars, serve_sources>>

MinerCloses(c) == Close(c) /\ UNCHANGED <<upstreamVars, serve_sources>>

MinerLongPolls(c) == LongPoll(c) /\ UNCHANGED <<upstreamVars, serve_sources>>

(* A miner submits a result, and is told what became of it. *)
MinerPutsWork(c) ==
  RpcPutwork(c) /\ UNCHANGED <<upstreamVars, serve_sources>>

PutworkAnswered(c, sent) ==
  RespondPutwork(c, sent) /\ UNCHANGED <<upstreamVars, serve_sources>>

(* A getwork arrives: pool_server_on_getwork is its callback. *)
OnGetwork(c) ==
  /\ serve_sources < MaxSources
  /\ RpcGetwork(c)
  /\ AddServeSource
  /\ UNCHANGED upstreamVars

(* An item arrives from the node: upstream_service_on_has_work is its        *)
(* callback, run for late answers as well.                                   *)
OnHasWork(age) == GetworkAnswered(age) /\ AddServeSource /\ UNCHANGED poolVars

UpstreamCallFails(age) ==
  GetworkFailed(age) /\ UNCHANGED <<poolVars, serve_sources>>

(* serve_work keeps its source as long as it could serve once more, as seen  *)
(* after this turn.                                                          *)
SourcesLeft ==
  IF NeedWork' /\ HasWork' THEN serve_sources ELSE serve_sources - 1

(* A source runs serve_work with nothing to do and is removed. *)
ServeNothing ==
  /\ serve_sources > 0
  /\ ~ (NeedWork /\ HasWork)
  /\ serve_sources' = serve_sources - 1
  /\ UNCHANGED <<upstreamVars, poolVars>>

(* A source runs serve_work and answers one request with one item.           *)
ServeWork(sent) ==
  /\ serve_sources > 0
  /\ NeedWork
  /\ ServeRequest(sent)
  /\ GetWork
  /\ serve_sources' = SourcesLeft

(* block_monitor_on_block_change *)
BlockChange ==
  /\ serve_sources < MaxSources
  /\ UpstreamNewBlock
  /\ PoolNewBlock
  /\ UNCHANGED serve_sources

ServeTurn == ServeNothing \/ \E sent \in BOOLEAN : ServeWork(sent)

WorkServingNext ==
  \/ \E c \in Conn : MinerConnects(c) \/ MinerCloses(c) \/ MinerLongPolls(c)
                       \/ OnGetwork(c) \/ MinerPutsWork(c)
                       \/ \E sent \in BOOLEAN : PutworkAnswered(c, sent)
  \/ \E age \in Age : OnHasWork(age) \/ UpstreamCallFails(age)
  \/ ServeTurn
  \/ BlockChange

(* The main loop dispatches its sources, and every call made for the current *)
(* block completes, with an item or with an error.                           *)
WorkServingFairness ==
  /\ WF_servingVars(ServeTurn)
  /\ WF_servingVars(OnHasWork("fresh") \/ UpstreamCallFails("fresh"))

WorkServingSafety == WorkServingInit /\ [][WorkServingNext]_servingVars

WorkServingSpec == WorkServingSafety /\ WorkServingFairness

-----------------------------------------------------------------------------

(* Requests and items never wait for each other with nothing scheduled to    *)
(* bring them together.  Long-polling connections join the queue without a   *)
(* source of their own: this holds because a new block empties the cache     *)
(* before it turns them into requests.                                       *)
NoLostWakeup == NeedWork /\ HasWork => serve_sources > 0

(* A miner whose request is in the queue, asked for or parked before a       *)
(* block, gets out of it: it is served or it goes away.  Blocks must leave   *)
(* the pool time to work, and fewer calls of one block fail than the cache   *)
(* has places (MaxFailures < WorkQueueMin).                                  *)
QueuedIsServed ==
  (<>[][~ BlockChange]_servingVars) =>
    \A c \in Conn :
      (allocated /\ QueuedAt(c) # {}) ~> (QueuedAt(c) = {})
=============================================================================
