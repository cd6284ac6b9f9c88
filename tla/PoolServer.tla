----------------------------- MODULE PoolServer -----------------------------
(***************************************************************************)
(* The miners' side of the pool (pool-dance/pool-server.c): the connections *)
(* that wait for work, either in getwork_queue, to be served as soon as    *)
(* there is work, or parked in lp_conns until the next block.              *)
(*                                                                         *)
(* A connection carries one HTTP request at a time.  It is held by the     *)
(* server through references and "close" signal handlers that are taken    *)
(* and dropped by hand along every path.  The HTTP and JSON-RPC libraries  *)
(* are outside: a miner connects, asks, or goes away at any time, and      *)
(* writing an answer may fail.                                             *)
(***************************************************************************)
EXTENDS Naturals, SequencesExt

CONSTANT Conn   \* connections of miners

VARIABLES
  client,         \* what the miner at the other end of a connection is doing
  lp_conns,       \* parked long-polling connections, oldest first
  getwork_queue,  \* work requests to serve, head first
  lp_close,       \* connections with lp_connection_on_close attached
  getwork_close,  \* connections with getwork_connection_on_close attached
  refs            \* references the two lists hold on a connection

poolVars == <<client, lp_conns, getwork_queue, lp_close, getwork_close, refs>>

(* "putwork": a result was submitted and is being validated.                 *)
(* "unanswered": the request was taken off the queue or the result judged,   *)
(* writing the answer failed, and nothing will answer it any more.           *)
ClientState ==
  {"closed", "idle", "getwork", "longpoll", "putwork", "unanswered"}

(* WorkRequest, without the client's data that only the log uses. *)
WorkRequest == [conn : Conn, from_lp : BOOLEAN]

PoolTypeOK ==
  /\ client \in [Conn -> ClientState]
  /\ lp_conns \in Seq(Conn)
  /\ getwork_queue \in Seq(WorkRequest)
  /\ lp_close \in SUBSET Conn
  /\ getwork_close \in SUBSET Conn
  /\ refs \in [Conn -> Nat]

PoolInit ==
  /\ client = [c \in Conn |-> "closed"]
  /\ lp_conns = <<>>
  /\ getwork_queue = <<>>
  /\ lp_close = {}
  /\ getwork_close = {}
  /\ refs = [c \in Conn |-> 0]

-----------------------------------------------------------------------------

(* pool_server_need_work *)
NeedWork == getwork_queue # <<>>

(* A new connection object: nothing is left of an earlier one. *)
Connect(c) ==
  /\ client[c] = "closed"
  /\ client' = [client EXCEPT ![c] = "idle"]
  /\ lp_close' = lp_close \ {c}
  /\ UNCHANGED <<lp_conns, getwork_queue, getwork_close, refs>>

(* rpc_on_method_call with empty params: work_request_new, and the request   *)
(* joins the queue.  The caller of the module adds what getwork_callback does. *)
RpcGetwork(c) ==
  /\ client[c] = "idle"
  /\ client' = [client EXCEPT ![c] = "getwork"]
  /\ getwork_queue' = Append(getwork_queue, [conn |-> c, from_lp |-> FALSE])
  /\ getwork_close' = getwork_close \union {c}
  /\ refs' = [refs EXCEPT ![c] = @ + 1]
  /\ UNCHANGED <<lp_conns, lp_close>>

(* rpc_on_method_call with a result in params: the caller of the module adds *)
(* work_result_new and putwork_callback.                                     *)
RpcPutwork(c) ==
  /\ client[c] = "idle"
  /\ client' = [client EXCEPT ![c] = "putwork"]
  /\ UNCHANGED <<lp_conns, getwork_queue, lp_close, getwork_close, refs>>

(* pool_server_respond_putwork *)
RespondPutwork(c, sent) ==
  /\ client[c] = "putwork"
  /\ client' = [client EXCEPT ![c] = IF sent THEN "idle" ELSE "unanswered"]
  /\ UNCHANGED <<lp_conns, getwork_queue, lp_close, getwork_close, refs>>

(* on_request_headers for the long-polling path. *)
LongPoll(c) ==
  /\ client[c] = "idle"
  /\ client' = [client EXCEPT ![c] = "longpoll"]
  /\ lp_conns' = Append(lp_conns, c)
  /\ lp_close' = lp_close \union {c}
  /\ refs' = [refs EXCEPT ![c] = @ + 1]
  /\ UNCHANGED <<getwork_queue, getwork_close>>

(* Mutation: the parked connections keep their handler. *)
LpHandlersForgotten == lp_close

(* long_polling_conn_to_getwork disconnects the handler of each parked       *)
(* connection before it attaches the other one.                              *)
LpHandlersKept == lp_close \ ToSet(lp_conns)

(* pool_server_notify_new_block: every parked connection becomes a work      *)
(* request; the reference of the list passes to the request.  Nothing is     *)
(* scheduled to serve them.                                                  *)
PoolNewBlock ==
  /\ getwork_queue' = getwork_queue \o
       [i \in DOMAIN lp_conns |-> [conn |-> lp_conns[i], from_lp |-> TRUE]]
  /\ getwork_close' = getwork_close \union ToSet(lp_conns)
  /\ lp_close' = LpHandlersKept
  /\ lp_conns' = <<>>
  /\ UNCHANGED <<client, refs>>

(* pool_server_get_work_request, pool_server_send_work_item and the unref of *)
(* serve_work, which frees the request: its handler and reference go.        *)
ServeRequest(sent) ==
  /\ NeedWork
  /\ LET c == Head(getwork_queue).conn
     IN  /\ client' = [client EXCEPT ![c] = IF sent THEN "idle"
                                                    ELSE "unanswered"]
         /\ getwork_close' = getwork_close \ {c}
         /\ refs' = [refs EXCEPT ![c] = @ - 1]
  /\ getwork_queue' = Tail(getwork_queue)
  /\ UNCHANGED <<lp_conns, lp_close>>

(* Mutation: the request of a closed connection stays in the queue. *)
RequestsNotRemoved(c) == getwork_queue

(* getwork_connection_on_close takes the request out of the queue. *)
RequestsWithout(c) ==
  RemoveFirstMatch(getwork_queue, LAMBDA r : r.conn = c)

(* The connection closes and emits "close" to the handlers it has.           *)
(* lp_connection_on_close takes it out of lp_conns but stays attached, since *)
(* it asks to be disconnected with the wrong user data;                      *)
(* getwork_connection_on_close drops the request, which frees it.            *)
Close(c) ==
  LET parked == c \in lp_close
      asking == c \in getwork_close
  IN  /\ client[c] # "closed"
      /\ client' = [client EXCEPT ![c] = "closed"]
      /\ lp_conns' = IF parked THEN RemoveFirst(lp_conns, c) ELSE lp_conns
      /\ getwork_queue' = IF asking THEN RequestsWithout(c) ELSE getwork_queue
      /\ getwork_close' = getwork_close \ {c}
      /\ refs' = [refs EXCEPT ![c] = @ - (IF parked THEN 1 ELSE 0)
                                       - (IF asking THEN 1 ELSE 0)]
      /\ UNCHANGED lp_close

-----------------------------------------------------------------------------

(* Where the server holds connection c. *)
ParkedAt(c) == {i \in DOMAIN lp_conns : lp_conns[i] = c}
QueuedAt(c) == {i \in DOMAIN getwork_queue : getwork_queue[i].conn = c}

(* A miner that waits is held by the server exactly once, and a connection   *)
(* nobody waits on is not held at all: no request is answered twice, none is *)
(* dropped while its miner waits, and no closed connection is still in a     *)
(* list when the next block or the next item of work arrives.                *)
HeldOnce ==
  \A c \in Conn :
    Cardinality(ParkedAt(c)) + Cardinality(QueuedAt(c))
      = IF client[c] \in {"getwork", "longpoll"} THEN 1 ELSE 0

(* On every path by which a connection enters or leaves a list, the server's *)
(* references and the handler that will take it out of that list when the    *)
(* miner goes away follow: never a freed object, never a leaked one.         *)
HandlersFollowLists ==
  \A c \in Conn :
    /\ refs[c] = Cardinality(ParkedAt(c)) + Cardinality(QueuedAt(c))
    /\ c \in getwork_close <=> QueuedAt(c) # {}
    /\ client[c] # "closed" => (c \in lp_close <=> ParkedAt(c) # {})
=============================================================================
