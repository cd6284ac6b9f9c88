------------------------- MODULE WorkServingProofs -------------------------
(* Proofs that no wakeup of serve_work is lost, that every waiting miner is  *)
(* held just once, for any number of miners, of items and of sources, and    *)
(* that serving work uses the cache as its specification says.               *)
EXTENDS WorkServing, UpstreamServiceProofs, FiniteSetTheorems

SourcesAreCounted == serve_sources \in Nat

WakeupInv == SourcesAreCounted /\ NoLostWakeup

(* Taking a request out of the queue never puts one in. *)
LEMMA NothingToTakeOut ==
  ASSUME NEW c, getwork_queue = <<>>
  PROVE  RequestsWithout(c) = <<>>
  <1>1. 1 .. Len(getwork_queue) = {}
    OBVIOUS
  <1> QED
    BY <1>1 DEF RequestsWithout, RemoveFirstMatch

(* What keeps the source that is needed: a step that brings neither a        *)
(* request nor an item, and takes no source away.                            *)
LEMMA QuietStep ==
  ASSUME WakeupInv, NeedWork' => NeedWork, HasWork' => HasWork,
         serve_sources' = serve_sources
  PROVE  WakeupInv'
  BY DEF WakeupInv, SourcesAreCounted, NoLostWakeup

LEMMA WakeupInit == WorkServingInit => WakeupInv
  BY DEF WorkServingInit, UpstreamInit, WakeupInv, SourcesAreCounted,
         NoLostWakeup, HasWork

LEMMA WakeupStep == WakeupInv /\ [WorkServingNext]_servingVars => WakeupInv'
  <1> SUFFICES ASSUME WakeupInv, [WorkServingNext]_servingVars
               PROVE  WakeupInv'
    OBVIOUS
  <1>a. serve_sources \in Nat
    BY DEF WakeupInv, SourcesAreCounted
  <1>1. ASSUME NEW c \in Conn, MinerConnects(c)
        PROVE  WakeupInv'
    <2>1. NeedWork' = NeedWork /\ HasWork' = HasWork
          /\ serve_sources' = serve_sources
      BY <1>1 DEF MinerConnects, Connect, NeedWork, HasWork, upstreamVars
    <2> QED
      BY <2>1, QuietStep
  <1>2. ASSUME NEW c \in Conn, MinerCloses(c)
        PROVE  WakeupInv'
    <2>1. HasWork' = HasWork /\ serve_sources' = serve_sources
      BY <1>2 DEF MinerCloses, HasWork, upstreamVars
    <2>2. getwork_queue' \in {getwork_queue, RequestsWithout(c)}
      BY <1>2 DEF MinerCloses, Close
    <2>3. NeedWork' => NeedWork
      BY <2>2, NothingToTakeOut DEF NeedWork
    <2> QED
      BY <2>1, <2>3, QuietStep
  <1>3. ASSUME NEW c \in Conn, MinerLongPolls(c)
        PROVE  WakeupInv'
    <2>1. NeedWork' = NeedWork /\ HasWork' = HasWork
          /\ serve_sources' = serve_sources
      BY <1>3 DEF MinerLongPolls, LongPoll, NeedWork, HasWork, upstreamVars
    <2> QED
      BY <2>1, QuietStep
  (* The two arrivals bring a source of their own. *)
  <1>4. ASSUME NEW c \in Conn, OnGetwork(c)
        PROVE  WakeupInv'
    BY <1>4, <1>a
    DEF OnGetwork, AddServeSource, WakeupInv, SourcesAreCounted, NoLostWakeup
  <1>5. ASSUME NEW age \in Age, OnHasWork(age)
        PROVE  WakeupInv'
    BY <1>5, <1>a
    DEF OnHasWork, AddServeSource, WakeupInv, SourcesAreCounted, NoLostWakeup
  <1>6. ASSUME NEW age \in Age, UpstreamCallFails(age)
        PROVE  WakeupInv'
    <2>1. NeedWork' = NeedWork /\ HasWork' = HasWork
          /\ serve_sources' = serve_sources
      BY <1>6
      DEF UpstreamCallFails, GetworkFailed, NeedWork, HasWork, poolVars
    <2> QED
      BY <2>1, QuietStep
  (* A source that leaves has seen that it is not needed. *)
  <1>7. CASE ServeNothing
    <2>1. /\ NeedWork' = NeedWork /\ HasWork' = HasWork
          /\ ~ (NeedWork /\ HasWork)
          /\ serve_sources' = serve_sources - 1 /\ serve_sources > 0
      BY <1>7 DEF ServeNothing, NeedWork, HasWork, upstreamVars, poolVars
    <2> QED
      BY <1>a, <2>1 DEF WakeupInv, SourcesAreCounted, NoLostWakeup
  <1>8. ASSUME NEW sent \in BOOLEAN, ServeWork(sent)
        PROVE  WakeupInv'
    BY <1>8, <1>a
    DEF ServeWork, SourcesLeft, WakeupInv, SourcesAreCounted, NoLostWakeup
  (* A block makes requests, but leaves no item for them. *)
  <1>9. CASE BlockChange
    <2>1. ~ HasWork' /\ serve_sources' = serve_sources
      BY <1>9 DEF BlockChange, UpstreamNewBlock, FillWorkQueue, HasWork
    <2> QED
      BY <2>1, QuietStep, <1>a
      DEF WakeupInv, SourcesAreCounted, NoLostWakeup
  <1>11. ASSUME NEW c \in Conn, NEW sent \in BOOLEAN,
                MinerPutsWork(c) \/ PutworkAnswered(c, sent)
         PROVE  WakeupInv'
    <2>1. NeedWork' = NeedWork /\ HasWork' = HasWork
          /\ serve_sources' = serve_sources
      BY <1>11 DEF MinerPutsWork, RpcPutwork, PutworkAnswered, RespondPutwork,
                   NeedWork, HasWork, upstreamVars
    <2> QED
      BY <2>1, QuietStep
  <1>10. CASE UNCHANGED servingVars
    <2>1. NeedWork' = NeedWork /\ HasWork' = HasWork
          /\ serve_sources' = serve_sources
      BY <1>10 DEF servingVars, upstreamVars, poolVars, NeedWork, HasWork
    <2> QED
      BY <2>1, QuietStep
  <1> QED
    BY <1>1, <1>2, <1>3, <1>4, <1>5, <1>6, <1>7, <1>8, <1>9, <1>10, <1>11
    DEF WorkServingNext, ServeTurn

(* Whenever there is a request and an item, a source that brings them        *)
(* together is in the main loop: whatever the order of blocks, answers,      *)
(* requests, closes and turns of serve_work.                                 *)
THEOREM NoWakeupIsLost == WorkServingSafety => []NoLostWakeup
  <1>1. WakeupInv => NoLostWakeup
    BY DEF WakeupInv
  <1> QED
    BY <1>1, WakeupInit, WakeupStep, PTL DEF WorkServingSafety

-----------------------------------------------------------------------------

(* Each turn of the main loop is one operation on the cache, or none. *)
LEMMA ServingStepIsUpstreamStep ==
  [WorkServingNext]_servingVars => [UpstreamNext]_upstreamVars
  <1> SUFFICES ASSUME [WorkServingNext]_servingVars
               PROVE  [UpstreamNext]_upstreamVars
    OBVIOUS
  <1>1. ASSUME NEW c \in Conn, NEW sent \in BOOLEAN,
               MinerConnects(c) \/ MinerCloses(c) \/ MinerLongPolls(c)
                 \/ OnGetwork(c) \/ MinerPutsWork(c) \/ PutworkAnswered(c, sent)
        PROVE  UNCHANGED upstreamVars
    BY <1>1 DEF MinerConnects, MinerCloses, MinerLongPolls, OnGetwork,
                MinerPutsWork, PutworkAnswered
  <1>2. ASSUME NEW age \in Age, OnHasWork(age) \/ UpstreamCallFails(age)
        PROVE  UpstreamNext
    BY <1>2 DEF OnHasWork, UpstreamCallFails, UpstreamNext
  <1>3. CASE ServeTurn
    BY <1>3 DEF ServeTurn, ServeNothing, ServeWork, UpstreamNext
  <1>4. CASE BlockChange
    BY <1>4 DEF BlockChange, UpstreamNext
  <1>5. CASE UNCHANGED servingVars
    BY <1>5 DEF servingVars
  <1> QED
    BY <1>1, <1>2, <1>3, <1>4, <1>5 DEF WorkServingNext

(* Serving work implements the specification of the cache: main never takes  *)
(* an item or notifies a block other than through its operations.            *)
THEOREM ServingUsesTheCache == WorkServingSafety => UpstreamSpec
  <1>1. WorkServingInit => UpstreamInit
    BY DEF WorkServingInit
  <1> QED
    BY <1>1, ServingStepIsUpstreamStep, PTL DEF WorkServingSafety, UpstreamSpec

(* So the counter of the cache is balanced while work is served. *)
THEOREM CounterIsBalancedWhileServing == WorkServingSafety => []CounterBalanced
  BY ServingUsesTheCache, CounterIsBalanced, PTL

(* And its accounts are. *)
THEOREM CacheIsConservedWhileServing == WorkServingSafety => []CacheConserved
  BY ServingUsesTheCache, CacheIsConserved, PTL

-----------------------------------------------------------------------------
(* The connections held.                                                     *)

Parked(c) == \E i \in DOMAIN lp_conns : lp_conns[i] = c
Queued(c) == \E i \in DOMAIN getwork_queue : getwork_queue[i].conn = c

(* No connection is twice in a list. *)
ParkedOnce ==
  \A i, j \in DOMAIN lp_conns : lp_conns[i] = lp_conns[j] => i = j
QueuedOnce ==
  \A i, j \in DOMAIN getwork_queue :
    getwork_queue[i].conn = getwork_queue[j].conn => i = j

(* It is in one list or in none, and what the server keeps about it follows. *)
ListsFollowed(c) ==
  /\ ~ (Parked(c) /\ Queued(c))
  /\ client[c] \in {"getwork", "longpoll"} <=> Parked(c) \/ Queued(c)
  /\ refs[c] = IF Parked(c) \/ Queued(c) THEN 1 ELSE 0
  /\ c \in getwork_close <=> Queued(c)
  /\ client[c] # "closed" => (c \in lp_close <=> Parked(c))

PoolInv ==
  /\ PoolTypeOK
  /\ ParkedOnce
  /\ QueuedOnce
  /\ \A c \in Conn : ListsFollowed(c)

(* The one element for which a test holds is the one taken out. *)
LEMMA RemoveOnly ==
  ASSUME NEW S, NEW s \in Seq(S), NEW e \in S, NEW i \in DOMAIN s, s[i] = e,
         \A j \in DOMAIN s : s[j] = e => j = i
  PROVE  RemoveFirst(s, e) = RemoveAt(s, i)
  <1>1. DOMAIN s = 1 .. Len(s) /\ Len(s) \in Nat
    BY LenProperties
  <1>2. {k \in 1 .. Len(s) : s[k] = e} = {i}
    BY <1>1
  <1>3. Min({i}) = i
    BY <1>1 DEF Min
  <1>4. SelectInSeq(s, LAMBDA v : v = e) = i
    BY <1>2, <1>3 DEF SelectInSeq
  <1>5. \E k \in 1 .. Len(s) : s[k] = e
    BY <1>1
  <1> QED
    BY <1>4, <1>5 DEF RemoveFirst

LEMMA RemoveOnlyRequest ==
  ASSUME getwork_queue \in Seq(WorkRequest), QueuedOnce, NEW c \in Conn,
         NEW i \in DOMAIN getwork_queue, getwork_queue[i].conn = c
  PROVE  RequestsWithout(c) = RemoveAt(getwork_queue, i)
  <1>1. /\ DOMAIN getwork_queue = 1 .. Len(getwork_queue)
        /\ Len(getwork_queue) \in Nat
    BY LenProperties
  <1>2. {k \in 1 .. Len(getwork_queue) : getwork_queue[k].conn = c} = {i}
    BY <1>1 DEF QueuedOnce
  <1>3. Min({i}) = i
    BY <1>1 DEF Min
  <1>4. SelectInSeq(getwork_queue, LAMBDA r : r.conn = c) = i
    BY <1>2, <1>3 DEF SelectInSeq
  <1>5. \E k \in 1 .. Len(getwork_queue) : getwork_queue[k].conn = c
    BY <1>1
  <1> QED
    BY <1>4, <1>5 DEF RequestsWithout, RemoveFirstMatch

(* What a step does to the two lists.                                        *)
LEMMA ParkStep ==
  ASSUME PoolInv, NEW c \in Conn, ~ Parked(c), lp_conns' = Append(lp_conns, c)
  PROVE  /\ lp_conns' \in Seq(Conn) /\ ParkedOnce'
         /\ \A d \in Conn : Parked(d)' <=> Parked(d) \/ d = c
  <1>1. lp_conns \in Seq(Conn)
    BY DEF PoolInv, PoolTypeOK
  <1>2. /\ DOMAIN lp_conns = 1 .. Len(lp_conns) /\ Len(lp_conns) \in Nat
        /\ lp_conns' \in Seq(Conn)
        /\ DOMAIN lp_conns' = 1 .. Len(lp_conns) + 1
        /\ \A i \in 1 .. Len(lp_conns) : lp_conns'[i] = lp_conns[i]
        /\ lp_conns'[Len(lp_conns) + 1] = c
    BY <1>1, AppendProperties, LenProperties
  <1>3. \A i \in 1 .. Len(lp_conns) : lp_conns[i] # c
    BY <1>2 DEF Parked
  <1>4. ParkedOnce'
    BY <1>2, <1>3 DEF PoolInv, ParkedOnce
  <1>5. \A d \in Conn : Parked(d)' <=> Parked(d) \/ d = c
    BY <1>2 DEF Parked
  <1> QED
    BY <1>2, <1>4, <1>5

LEMMA QueueStep ==
  ASSUME PoolInv, NEW r \in WorkRequest, ~ Queued(r.conn),
         getwork_queue' = Append(getwork_queue, r)
  PROVE  /\ getwork_queue' \in Seq(WorkRequest) /\ QueuedOnce'
         /\ \A d \in Conn : Queued(d)' <=> Queued(d) \/ d = r.conn
  <1>1. getwork_queue \in Seq(WorkRequest)
    BY DEF PoolInv, PoolTypeOK
  <1> DEFINE n == Len(getwork_queue)
  <1>2. /\ DOMAIN getwork_queue = 1 .. n /\ n \in Nat
        /\ getwork_queue' \in Seq(WorkRequest)
        /\ DOMAIN getwork_queue' = 1 .. n + 1
        /\ \A i \in 1 .. n : getwork_queue'[i] = getwork_queue[i]
        /\ getwork_queue'[n + 1] = r
    BY <1>1, AppendProperties, LenProperties
  <1> HIDE DEF n
  <1>3. \A i \in 1 .. n : getwork_queue[i].conn # r.conn
    BY <1>2 DEF Queued
  <1>4. QueuedOnce'
    BY <1>2, <1>3 DEF PoolInv, QueuedOnce
  <1>5. \A d \in Conn : Queued(d)' <=> Queued(d) \/ d = r.conn
    BY <1>2 DEF Queued
  <1> QED
    BY <1>2, <1>4, <1>5

LEMMA UnparkStep ==
  ASSUME PoolInv, NEW c \in Conn, Parked(c),
         lp_conns' = RemoveFirst(lp_conns, c)
  PROVE  /\ lp_conns' \in Seq(Conn) /\ ParkedOnce'
         /\ \A d \in Conn : Parked(d)' <=> Parked(d) /\ d # c
  <1>1. lp_conns \in Seq(Conn) /\ ParkedOnce
    BY DEF PoolInv, PoolTypeOK
  <1>2. PICK i \in DOMAIN lp_conns : lp_conns[i] = c
    BY DEF Parked
  <1>3. lp_conns' = RemoveAt(lp_conns, i)
    BY <1>1, <1>2, RemoveOnly DEF ParkedOnce
  <1>4. i \in 1 .. Len(lp_conns)
    BY <1>1, LenProperties
  <1>5. /\ lp_conns' \in Seq(Conn)
        /\ \A j \in DOMAIN lp_conns' :
             \E k \in DOMAIN lp_conns : k # i /\ lp_conns'[j] = lp_conns[k]
        /\ \A k \in DOMAIN lp_conns : k # i =>
             \E j \in DOMAIN lp_conns' : lp_conns'[j] = lp_conns[k]
        /\ \A j1, j2 \in DOMAIN lp_conns' : j1 # j2 =>
             \E k1, k2 \in DOMAIN lp_conns :
               /\ k1 # k2
               /\ lp_conns'[j1] = lp_conns[k1]
               /\ lp_conns'[j2] = lp_conns[k2]
    BY <1>1, <1>3, <1>4, RemoveAtFacts
  <1>6. ParkedOnce'
    BY <1>1, <1>5 DEF ParkedOnce
  <1>7. \A d \in Conn : Parked(d)' <=> Parked(d) /\ d # c
    BY <1>1, <1>2, <1>5 DEF Parked, ParkedOnce
  <1> QED
    BY <1>5, <1>6, <1>7

(* Taking the head off is taking the first element out. *)
LEMMA TailWithoutHead ==
  ASSUME NEW S, NEW q \in Seq(S), q # <<>>
  PROVE  Tail(q) = RemoveAt(q, 1)
  <1>1. Len(q) \in Nat /\ Len(q) # 0
    BY LenProperties, EmptySeq
  <1>2. /\ Tail(q) \in Seq(S) /\ Len(Tail(q)) = Len(q) - 1
        /\ \A i \in 1 .. Len(q) - 1 : Tail(q)[i] = q[i + 1]
    BY HeadTailProperties
  <1>3. /\ RemoveAt(q, 1) \in Seq(S)
        /\ DOMAIN RemoveAt(q, 1) = 1 .. Len(q) - 1
        /\ \A j \in 1 .. Len(q) - 1 :
             RemoveAt(q, 1)[j] = IF j < 1 THEN q[j] ELSE q[j + 1]
    BY <1>1, RemoveAtElements
  <1>4. Len(RemoveAt(q, 1)) = Len(q) - 1
    BY <1>1, <1>3, LenProperties
  <1>5. \A i \in 1 .. Len(Tail(q)) : Tail(q)[i] = RemoveAt(q, 1)[i]
    BY <1>1, <1>2, <1>3
  <1> QED
    BY <1>2, <1>3, <1>4, <1>5, SeqEqual

LEMMA UnqueueStep ==
  ASSUME PoolInv, NEW i \in DOMAIN getwork_queue,
         getwork_queue' = RemoveAt(getwork_queue, i)
  PROVE  /\ getwork_queue' \in Seq(WorkRequest) /\ QueuedOnce'
         /\ \A d \in Conn :
              Queued(d)' <=> Queued(d) /\ d # getwork_queue[i].conn
  <1>1. getwork_queue \in Seq(WorkRequest) /\ QueuedOnce
    BY DEF PoolInv, PoolTypeOK
  <1>2. i \in 1 .. Len(getwork_queue)
    BY <1>1, LenProperties
  <1>3. /\ getwork_queue' \in Seq(WorkRequest)
        /\ \A j \in DOMAIN getwork_queue' :
             \E k \in DOMAIN getwork_queue :
               k # i /\ getwork_queue'[j] = getwork_queue[k]
        /\ \A k \in DOMAIN getwork_queue : k # i =>
             \E j \in DOMAIN getwork_queue' :
               getwork_queue'[j] = getwork_queue[k]
        /\ \A j1, j2 \in DOMAIN getwork_queue' : j1 # j2 =>
             \E k1, k2 \in DOMAIN getwork_queue :
               /\ k1 # k2
               /\ getwork_queue'[j1] = getwork_queue[k1]
               /\ getwork_queue'[j2] = getwork_queue[k2]
    BY <1>1, <1>2, RemoveAtFacts
  <1>4. QueuedOnce'
    <2>1. ASSUME NEW j1 \in DOMAIN getwork_queue',
                 NEW j2 \in DOMAIN getwork_queue',
                 getwork_queue'[j1].conn = getwork_queue'[j2].conn, j1 # j2
          PROVE  FALSE
      <3>1. PICK k1, k2 \in DOMAIN getwork_queue :
              /\ k1 # k2
              /\ getwork_queue'[j1] = getwork_queue[k1]
              /\ getwork_queue'[j2] = getwork_queue[k2]
        BY <1>3, <2>1
      <3>2. getwork_queue[k1].conn = getwork_queue[k2].conn
        BY <2>1, <3>1
      <3> QED
        BY <1>1, <3>1, <3>2 DEF QueuedOnce
    <2> QED
      BY <2>1 DEF QueuedOnce
  <1>5. ASSUME NEW d \in Conn
        PROVE  Queued(d)' <=> Queued(d) /\ d # getwork_queue[i].conn
    <2>1. ASSUME NEW j \in DOMAIN getwork_queue', getwork_queue'[j].conn = d
          PROVE  Queued(d) /\ d # getwork_queue[i].conn
      <3>1. PICK k \in DOMAIN getwork_queue :
              k # i /\ getwork_queue'[j] = getwork_queue[k]
        BY <1>3
      <3>2. getwork_queue[k].conn = d
        BY <2>1, <3>1
      <3> QED
        BY <1>1, <3>1, <3>2 DEF Queued, QueuedOnce
    <2>2. ASSUME NEW k \in DOMAIN getwork_queue, getwork_queue[k].conn = d,
                 d # getwork_queue[i].conn
          PROVE  Queued(d)'
      <3>1. PICK j \in DOMAIN getwork_queue' : getwork_queue'[j] = getwork_queue[k]
        BY <1>3, <2>2
      <3> QED
        BY <2>2, <3>1 DEF Queued
    <2> QED
      BY <2>1, <2>2 DEF Queued
  <1> QED
    BY <1>3, <1>4, <1>5

(* A block turns the parked connections into requests behind the others.     *)
LEMMA AllQueueStep ==
  ASSUME PoolInv,
         getwork_queue' = getwork_queue \o
           [i \in DOMAIN lp_conns |-> [conn |-> lp_conns[i], from_lp |-> TRUE]]
  PROVE  /\ getwork_queue' \in Seq(WorkRequest) /\ QueuedOnce'
         /\ \A d \in Conn : Queued(d)' <=> Queued(d) \/ Parked(d)
  <1> DEFINE new == [i \in DOMAIN lp_conns |->
                       [conn |-> lp_conns[i], from_lp |-> TRUE]]
             n == Len(getwork_queue)
             m == Len(lp_conns)
  <1>1. /\ lp_conns \in Seq(Conn) /\ ParkedOnce
        /\ getwork_queue \in Seq(WorkRequest) /\ QueuedOnce
    BY DEF PoolInv, PoolTypeOK
  <1>2. /\ DOMAIN getwork_queue = 1 .. n /\ n \in Nat
        /\ DOMAIN lp_conns = 1 .. m /\ m \in Nat
        /\ \A i \in 1 .. m : lp_conns[i] \in Conn
    BY <1>1, LenProperties
  <1>3. new \in Seq(WorkRequest) /\ Len(new) = m
        /\ \A i \in 1 .. m : new[i].conn = lp_conns[i]
    <2>1. new \in [1 .. m -> WorkRequest]
      BY <1>2 DEF WorkRequest
    <2> QED
      BY <1>2, <2>1
  <1> HIDE DEF new
  <1>4. /\ getwork_queue' \in Seq(WorkRequest)
        /\ DOMAIN getwork_queue' = 1 .. n + m
        /\ \A i \in 1 .. n + m :
             getwork_queue'[i] = IF i <= n THEN getwork_queue[i] ELSE new[i - n]
    <2> DEFINE all == getwork_queue \o new
    <2>1. getwork_queue' = all
      BY DEF new
    <2>2. getwork_queue \in Seq(WorkRequest) /\ new \in Seq(WorkRequest)
      BY <1>1, <1>3
    <2>3. /\ all \in Seq(WorkRequest)
          /\ Len(all) = Len(getwork_queue) + Len(new)
          /\ \A i \in 1 .. Len(getwork_queue) + Len(new) :
               all[i] = IF i <= Len(getwork_queue) THEN getwork_queue[i]
                        ELSE new[i - Len(getwork_queue)]
      BY ONLY <2>2, ConcatProperties
    <2> HIDE DEF all
    <2>4. DOMAIN all = 1 .. Len(all)
      BY <2>3, LenProperties
    <2> QED
      BY <1>3, <2>1, <2>3, <2>4
  <1> HIDE DEF n, m
  <1>5. \A i \in 1 .. n + m :
          getwork_queue'[i].conn = IF i <= n THEN getwork_queue[i].conn
                                             ELSE lp_conns[i - n]
    <2> TAKE i \in 1 .. n + m
    <2>1. CASE i <= n
      BY <1>4, <2>1
    <2>2. CASE ~ (i <= n)
      <3>1. i - n \in 1 .. m
        BY <1>2, <2>2
      <3>2. getwork_queue'[i] = new[i - n]
        BY <1>4, <2>2
      <3> QED
        BY <1>3, <2>2, <3>1, <3>2
    <2> QED
      BY <2>1, <2>2
  <1>6. \A i \in 1 .. n, j \in 1 .. m : getwork_queue[i].conn # lp_conns[j]
    <2> TAKE i \in 1 .. n, j \in 1 .. m
    <2>1. ~ (Parked(lp_conns[j]) /\ Queued(lp_conns[j]))
      BY <1>2 DEF PoolInv, ListsFollowed
    <2>2. Parked(lp_conns[j])
      BY <1>2 DEF Parked
    <2> QED
      BY <1>2, <2>1, <2>2 DEF Queued
  <1>7. QueuedOnce'
    BY <1>1, <1>2, <1>4, <1>5, <1>6 DEF QueuedOnce, ParkedOnce
  <1>8. ASSUME NEW d \in Conn
        PROVE  Queued(d)' <=> Queued(d) \/ Parked(d)
    <2>1. Queued(d)' => Queued(d) \/ Parked(d)
      BY <1>2, <1>4, <1>5 DEF Queued, Parked
    <2>2. ASSUME NEW i \in 1 .. n, getwork_queue[i].conn = d
          PROVE  Queued(d)'
      <3>1. i \in 1 .. n + m /\ i <= n
        BY <1>2
      <3>2. getwork_queue'[i].conn = d
        BY <1>5, <2>2, <3>1
      <3> QED
        BY <1>4, <3>1, <3>2 DEF Queued
    <2>3. ASSUME NEW i \in 1 .. m, lp_conns[i] = d
          PROVE  Queued(d)'
      <3>1. i + n \in 1 .. n + m /\ ~ (i + n <= n) /\ (i + n) - n = i
        BY <1>2
      <3>2. getwork_queue'[i + n].conn = d
        BY <1>5, <2>3, <3>1
      <3> QED
        BY <1>4, <3>1, <3>2 DEF Queued
    <2> QED
      BY <1>2, <2>1, <2>2, <2>3 DEF Queued, Parked
  <1> QED
    BY <1>4, <1>7, <1>8

(* Neither list changes. *)
LEMMA ListsAlone ==
  ASSUME UNCHANGED <<lp_conns, getwork_queue>>
  PROVE  /\ ParkedOnce' <=> ParkedOnce
         /\ QueuedOnce' <=> QueuedOnce
         /\ \A d \in Conn : (Parked(d)' <=> Parked(d))
                            /\ (Queued(d)' <=> Queued(d))
  BY DEF ParkedOnce, QueuedOnce, Parked, Queued

LEMMA PoolInitInv == PoolInit => PoolInv
  <1> SUFFICES ASSUME PoolInit PROVE PoolInv
    OBVIOUS
  <1>1. PoolTypeOK
    BY DEF PoolInit, PoolTypeOK, ClientState
  <1>2. DOMAIN lp_conns = {} /\ DOMAIN getwork_queue = {}
    BY DEF PoolInit
  <1> QED
    BY <1>1, <1>2
    DEF PoolInv, PoolInit, ParkedOnce, QueuedOnce, ListsFollowed, Parked, Queued

LEMMA PoolStepInv ==
  ASSUME PoolInv,
         \/ \E c \in Conn : \/ Connect(c) \/ Close(c) \/ LongPoll(c)
                            \/ RpcGetwork(c) \/ RpcPutwork(c)
                            \/ \E sent \in BOOLEAN : RespondPutwork(c, sent)
         \/ PoolNewBlock
         \/ \E sent \in BOOLEAN : ServeRequest(sent)
         \/ UNCHANGED poolVars
  PROVE  PoolInv'
  <1>a. /\ client \in [Conn -> ClientState] /\ refs \in [Conn -> Nat]
        /\ lp_conns \in Seq(Conn) /\ getwork_queue \in Seq(WorkRequest)
        /\ lp_close \in SUBSET Conn /\ getwork_close \in SUBSET Conn
        /\ ParkedOnce /\ QueuedOnce
        /\ \A d \in Conn : ListsFollowed(d)
    BY DEF PoolInv, PoolTypeOK
  <1>b. {"closed", "idle", "getwork", "longpoll", "putwork", "unanswered"}
          \subseteq ClientState
    BY DEF ClientState
  (* A step of connection c that leaves both lists alone. *)
  <1>1. ASSUME NEW c \in Conn,
               \/ Connect(c) \/ RpcPutwork(c)
               \/ \E sent \in BOOLEAN : RespondPutwork(c, sent)
        PROVE  PoolInv'
    <2>1. PICK state \in ClientState \ {"getwork", "longpoll"} :
            /\ client' = [client EXCEPT ![c] = state]
            /\ UNCHANGED <<lp_conns, getwork_queue, getwork_close, refs>>
            /\ client[c] \in {"closed", "idle", "putwork"}
            /\ \/ lp_close' = lp_close /\ client[c] # "closed"
               \/ lp_close' = lp_close \ {c}
      BY <1>1, <1>b DEF Connect, RpcPutwork, RespondPutwork
    <2>2. ~ Parked(c) /\ ~ Queued(c)
      BY <1>a, <2>1 DEF ListsFollowed
    <2>3. \A d \in Conn : ListsFollowed(d)'
      <3> TAKE d \in Conn
      <3>1. (Parked(d)' <=> Parked(d)) /\ (Queued(d)' <=> Queued(d))
        BY <2>1, ListsAlone
      <3>2. ListsFollowed(d)
        BY <1>a
      <3> QED
        BY <1>a, <2>1, <2>2, <3>1, <3>2 DEF ListsFollowed
    <2>4. PoolTypeOK'
      BY <1>a, <2>1 DEF PoolTypeOK
    <2> QED
      BY <1>a, <2>1, <2>3, <2>4, ListsAlone DEF PoolInv
  <1>2. ASSUME NEW c \in Conn, LongPoll(c)
        PROVE  PoolInv'
    <2>1. /\ client[c] = "idle" /\ client' = [client EXCEPT ![c] = "longpoll"]
          /\ lp_conns' = Append(lp_conns, c) /\ lp_close' = lp_close \union {c}
          /\ refs' = [refs EXCEPT ![c] = @ + 1]
          /\ UNCHANGED <<getwork_queue, getwork_close>>
      BY <1>2 DEF LongPoll
    <2>2. ~ Parked(c) /\ ~ Queued(c) /\ refs[c] = 0
      BY <1>a, <2>1 DEF ListsFollowed
    <2>3. /\ lp_conns' \in Seq(Conn) /\ ParkedOnce'
          /\ \A d \in Conn : Parked(d)' <=> Parked(d) \/ d = c
      BY <2>1, <2>2, ParkStep
    <2>4. \A d \in Conn : ListsFollowed(d)'
      <3> TAKE d \in Conn
      <3>1. Queued(d)' <=> Queued(d)
        BY <2>1 DEF Queued
      <3>2. ListsFollowed(d)
        BY <1>a
      <3> QED
        BY <1>a, <2>1, <2>2, <2>3, <3>1, <3>2 DEF ListsFollowed
    <2>5. PoolTypeOK' /\ QueuedOnce'
      BY <1>a, <1>b, <2>1, <2>3 DEF PoolTypeOK, QueuedOnce
    <2> QED
      BY <2>3, <2>4, <2>5 DEF PoolInv
  <1>3. ASSUME NEW c \in Conn, RpcGetwork(c)
        PROVE  PoolInv'
    <2> DEFINE r == [conn |-> c, from_lp |-> FALSE]
    <2>1. /\ client[c] = "idle" /\ client' = [client EXCEPT ![c] = "getwork"]
          /\ getwork_queue' = Append(getwork_queue, r)
          /\ getwork_close' = getwork_close \union {c}
          /\ refs' = [refs EXCEPT ![c] = @ + 1]
          /\ UNCHANGED <<lp_conns, lp_close>>
      BY <1>3 DEF RpcGetwork
    <2>2. ~ Parked(c) /\ ~ Queued(c) /\ refs[c] = 0
      BY <1>a, <2>1 DEF ListsFollowed
    <2>3. r \in WorkRequest /\ r.conn = c
      BY DEF WorkRequest
    <2>4. /\ getwork_queue' \in Seq(WorkRequest) /\ QueuedOnce'
          /\ \A d \in Conn : Queued(d)' <=> Queued(d) \/ d = c
      BY <2>1, <2>2, <2>3, QueueStep
    <2>5. \A d \in Conn : ListsFollowed(d)'
      <3> TAKE d \in Conn
      <3>1. Parked(d)' <=> Parked(d)
        BY <2>1 DEF Parked
      <3>2. ListsFollowed(d)
        BY <1>a
      <3> QED
        BY <1>a, <2>1, <2>2, <2>4, <3>1, <3>2 DEF ListsFollowed
    <2>6. PoolTypeOK' /\ ParkedOnce'
      BY <1>a, <1>b, <2>1, <2>4 DEF PoolTypeOK, ParkedOnce
    <2> QED
      BY <2>4, <2>5, <2>6 DEF PoolInv
  <1>4. CASE PoolNewBlock
    <2>1. /\ getwork_queue' = getwork_queue \o
               [i \in DOMAIN lp_conns |->
                  [conn |-> lp_conns[i], from_lp |-> TRUE]]
          /\ getwork_close' = getwork_close \union ToSet(lp_conns)
          /\ lp_close' = lp_close \ ToSet(lp_conns)
          /\ lp_conns' = <<>>
          /\ UNCHANGED <<client, refs>>
      BY <1>4 DEF PoolNewBlock, LpHandlersKept
    <2>2. /\ getwork_queue' \in Seq(WorkRequest) /\ QueuedOnce'
          /\ \A d \in Conn : Queued(d)' <=> Queued(d) \/ Parked(d)
      BY <2>1, AllQueueStep
    <2>3. \A d \in Conn : d \in ToSet(lp_conns) <=> Parked(d)
      BY DEF ToSet, Parked
    <2>4. ToSet(lp_conns) \subseteq Conn
      BY <1>a, ElementOfSeq, LenProperties DEF ToSet
    <2>5. DOMAIN lp_conns' = {}
      BY <2>1
    <2>6. \A d \in Conn : ~ Parked(d)'
      BY <2>5 DEF Parked
    <2>7. \A d \in Conn : ListsFollowed(d)'
      <3> TAKE d \in Conn
      <3>1. ListsFollowed(d)
        BY <1>a
      <3> QED
        BY <2>1, <2>2, <2>3, <2>6, <3>1 DEF ListsFollowed
    <2>8. PoolTypeOK' /\ ParkedOnce'
      BY <1>a, <2>1, <2>2, <2>4, <2>5 DEF PoolTypeOK, ParkedOnce
    <2> QED
      BY <2>2, <2>7, <2>8 DEF PoolInv
  <1>5. ASSUME NEW sent \in BOOLEAN, ServeRequest(sent)
        PROVE  PoolInv'
    <2> DEFINE c == getwork_queue[1].conn
               state == IF sent THEN "idle" ELSE "unanswered"
    <2>1. /\ DOMAIN getwork_queue = 1 .. Len(getwork_queue)
          /\ Len(getwork_queue) \in Nat /\ 1 \in DOMAIN getwork_queue
      BY <1>5, <1>a, LenProperties, EmptySeq DEF ServeRequest, NeedWork
    <2>2. /\ client' = [client EXCEPT ![c] = state]
          /\ getwork_close' = getwork_close \ {c}
          /\ refs' = [refs EXCEPT ![c] = @ - 1]
          /\ getwork_queue' = Tail(getwork_queue)
          /\ UNCHANGED <<lp_conns, lp_close>>
      BY <1>5, <2>1 DEF ServeRequest
    <2>3. c \in Conn
      <3>1. getwork_queue[1] \in WorkRequest
        BY <1>a, <2>1, ElementOfSeq
      <3> QED
        BY <3>1 DEF WorkRequest
    <2>4. getwork_queue' = RemoveAt(getwork_queue, 1)
      BY <1>a, <2>1, <2>2, TailWithoutHead
    <2>5. /\ getwork_queue' \in Seq(WorkRequest) /\ QueuedOnce'
          /\ \A d \in Conn : Queued(d)' <=> Queued(d) /\ d # c
      BY <2>1, <2>4, UnqueueStep
    <2>6. Queued(c)
      BY <2>1 DEF Queued
    <2> HIDE DEF c
    <2>7. ~ Parked(c) /\ refs[c] = 1 /\ client[c] \in {"getwork", "longpoll"}
      BY <1>a, <2>3, <2>6 DEF ListsFollowed
    <2>8. state \in ClientState \ {"closed", "getwork", "longpoll"}
      BY <1>b
    <2> HIDE DEF state
    <2>9. \A d \in Conn : ListsFollowed(d)'
      <3> TAKE d \in Conn
      <3>1. Parked(d)' <=> Parked(d)
        BY <2>2 DEF Parked
      <3>2. ListsFollowed(d)
        BY <1>a
      <3>3. CASE d = c
        BY <1>a, <2>2, <2>3, <2>5, <2>7, <2>8, <3>1, <3>2, <3>3
        DEF ListsFollowed
      <3>4. CASE d # c
        BY <1>a, <2>2, <2>5, <3>1, <3>2, <3>4 DEF ListsFollowed
      <3> QED
        BY <3>3, <3>4
    <2>10. PoolTypeOK' /\ ParkedOnce'
      BY <1>a, <2>2, <2>3, <2>5, <2>7, <2>8 DEF PoolTypeOK, ParkedOnce
    <2> QED
      BY <2>5, <2>9, <2>10 DEF PoolInv
  <1>6. ASSUME NEW c \in Conn, Close(c)
        PROVE  PoolInv'
    <2>1. /\ client[c] # "closed" /\ client' = [client EXCEPT ![c] = "closed"]
          /\ lp_conns' = IF c \in lp_close THEN RemoveFirst(lp_conns, c)
                                           ELSE lp_conns
          /\ getwork_queue' = IF c \in getwork_close THEN RequestsWithout(c)
                                                     ELSE getwork_queue
          /\ getwork_close' = getwork_close \ {c}
          /\ refs' = [refs EXCEPT ![c] = @ - (IF c \in lp_close THEN 1 ELSE 0)
                                   - (IF c \in getwork_close THEN 1 ELSE 0)]
          /\ UNCHANGED lp_close
      BY <1>6 DEF Close
    <2>2. ListsFollowed(c)
      BY <1>a
    <2>3. (c \in lp_close <=> Parked(c)) /\ (c \in getwork_close <=> Queued(c))
      BY <2>1, <2>2 DEF ListsFollowed
    <2>4. /\ lp_conns' \in Seq(Conn) /\ ParkedOnce'
          /\ \A d \in Conn : Parked(d)' <=> Parked(d) /\ d # c
      <3>1. CASE Parked(c)
        BY <2>1, <2>3, <3>1, UnparkStep
      <3>2. CASE ~ Parked(c)
        <4>1. lp_conns' = lp_conns
          BY <2>1, <2>3, <3>2
        <4> QED
          BY <1>a, <3>2, <4>1 DEF ParkedOnce, Parked
      <3> QED
        BY <3>1, <3>2
    <2>5. /\ getwork_queue' \in Seq(WorkRequest) /\ QueuedOnce'
          /\ \A d \in Conn : Queued(d)' <=> Queued(d) /\ d # c
      <3>1. CASE Queued(c)
        <4>1. PICK i \in DOMAIN getwork_queue : getwork_queue[i].conn = c
          BY <3>1 DEF Queued
        <4>2. getwork_queue' = RemoveAt(getwork_queue, i)
          BY <1>a, <2>1, <2>3, <3>1, <4>1, RemoveOnlyRequest
        <4> QED
          BY <4>1, <4>2, UnqueueStep
      <3>2. CASE ~ Queued(c)
        <4>1. getwork_queue' = getwork_queue
          BY <2>1, <2>3, <3>2
        <4> QED
          BY <1>a, <3>2, <4>1 DEF QueuedOnce, Queued
      <3> QED
        BY <3>1, <3>2
    <2>6. refs' = [refs EXCEPT ![c] = 0]
      <3>1. refs[c] - (IF c \in lp_close THEN 1 ELSE 0)
                    - (IF c \in getwork_close THEN 1 ELSE 0) = 0
        BY <2>2, <2>3 DEF ListsFollowed
      <3> QED
        BY <2>1, <3>1
    <2>7. \A d \in Conn : ListsFollowed(d)'
      <3> TAKE d \in Conn
      <3>1. ListsFollowed(d)
        BY <1>a
      <3>2. CASE d = c
        BY <1>a, <2>1, <2>4, <2>5, <2>6, <3>2 DEF ListsFollowed
      <3>3. CASE d # c
        BY <1>a, <2>1, <2>4, <2>5, <2>6, <3>1, <3>3 DEF ListsFollowed
      <3> QED
        BY <3>2, <3>3
    <2>8. PoolTypeOK'
      BY <1>a, <1>b, <2>1, <2>4, <2>5, <2>6 DEF PoolTypeOK
    <2> QED
      BY <2>4, <2>5, <2>7, <2>8 DEF PoolInv
  <1>7. CASE UNCHANGED poolVars
    BY <1>7 DEF poolVars, PoolInv, PoolTypeOK, ParkedOnce, QueuedOnce,
                ListsFollowed, Parked, Queued
  <1> QED
    BY <1>1, <1>2, <1>3, <1>4, <1>5, <1>6, <1>7

(* The upstream side and the sources leave the connections alone.            *)
LEMMA ServingPoolInvariant == WorkServingSafety => []PoolInv
  <1>1. PoolInv /\ [WorkServingNext]_servingVars => PoolInv'
    <2> SUFFICES ASSUME PoolInv, [WorkServingNext]_servingVars
                 PROVE  PoolInv'
      OBVIOUS
    <2>1. ASSUME NEW c \in Conn, NEW sent \in BOOLEAN,
                 \/ MinerConnects(c) \/ MinerCloses(c) \/ MinerLongPolls(c)
                 \/ OnGetwork(c) \/ MinerPutsWork(c) \/ PutworkAnswered(c, sent)
          PROVE  PoolInv'
      BY <2>1, PoolStepInv
      DEF MinerConnects, MinerCloses, MinerLongPolls, OnGetwork, MinerPutsWork,
          PutworkAnswered
    <2>2. ASSUME NEW age \in Age, OnHasWork(age) \/ UpstreamCallFails(age)
          PROVE  PoolInv'
      BY <2>2, PoolStepInv DEF OnHasWork, UpstreamCallFails
    <2>3. CASE ServeTurn
      BY <2>3, PoolStepInv DEF ServeTurn, ServeNothing, ServeWork
    <2>4. CASE BlockChange
      BY <2>4, PoolStepInv DEF BlockChange
    <2>5. CASE UNCHANGED servingVars
      BY <2>5, PoolStepInv DEF servingVars
    <2> QED
      BY <2>1, <2>2, <2>3, <2>4, <2>5 DEF WorkServingNext
  <1> QED
    BY <1>1, PoolInitInv, PTL DEF WorkServingSafety, WorkServingInit

(* Type correctness of serving work. *)
THEOREM WorkServingTypes == WorkServingSafety => []WorkServingTypeOK
  <1>1. PoolInv /\ UpstreamTypeOK /\ WakeupInv => WorkServingTypeOK
    BY DEF PoolInv, WakeupInv, SourcesAreCounted, WorkServingTypeOK
  <1> QED
    BY <1>1, ServingPoolInvariant, ServingUsesTheCache, UpstreamTypes,
       WakeupInit, WakeupStep, PTL DEF WorkServingSafety

(* How often a connection is in a list, counted.                             *)
LEMMA PlacesCounted ==
  ASSUME PoolInv, NEW c \in Conn
  PROVE  /\ Cardinality(ParkedAt(c)) = IF Parked(c) THEN 1 ELSE 0
         /\ Cardinality(QueuedAt(c)) = IF Queued(c) THEN 1 ELSE 0
         /\ QueuedAt(c) # {} <=> Queued(c)
         /\ ParkedAt(c) # {} <=> Parked(c)
  <1>1. ParkedOnce /\ QueuedOnce
    BY DEF PoolInv
  <1>2. ParkedAt(c) # {} <=> Parked(c)
    BY DEF ParkedAt, Parked
  <1>3. QueuedAt(c) # {} <=> Queued(c)
    BY DEF QueuedAt, Queued
  <1>4. Parked(c) => \E i : ParkedAt(c) = {i}
    BY <1>1 DEF ParkedAt, Parked, ParkedOnce
  <1>5. Queued(c) => \E i : QueuedAt(c) = {i}
    BY <1>1 DEF QueuedAt, Queued, QueuedOnce
  <1> QED
    BY <1>2, <1>3, <1>4, <1>5, FS_Singleton, FS_EmptySet

(* A miner that waits is held just once, and nobody else is: no request is   *)
(* answered twice or dropped while its miner waits, on whatever path a       *)
(* connection enters or leaves the lists.                                    *)
THEOREM WaitingIsHeldOnce == WorkServingSafety => []HeldOnce
  <1>1. PoolInv => HeldOnce
    <2> SUFFICES ASSUME PoolInv, NEW c \in Conn
                 PROVE  Cardinality(ParkedAt(c)) + Cardinality(QueuedAt(c))
                          = IF client[c] \in {"getwork", "longpoll"}
                            THEN 1 ELSE 0
      BY DEF HeldOnce
    <2>1. ListsFollowed(c)
      BY DEF PoolInv
    <2> QED
      BY <2>1, PlacesCounted DEF ListsFollowed
  <1> QED
    BY <1>1, ServingPoolInvariant, PTL

(* References and "close" handlers follow the lists. *)
THEOREM HandlersFollow == WorkServingSafety => []HandlersFollowLists
  <1>1. PoolInv => HandlersFollowLists
    <2> SUFFICES ASSUME PoolInv, NEW c \in Conn
                 PROVE  /\ refs[c] = Cardinality(ParkedAt(c))
                                       + Cardinality(QueuedAt(c))
                        /\ c \in getwork_close <=> QueuedAt(c) # {}
                        /\ client[c] # "closed" =>
                             (c \in lp_close <=> ParkedAt(c) # {})
      BY DEF HandlersFollowLists
    <2>1. ListsFollowed(c)
      BY DEF PoolInv
    <2> QED
      BY <2>1, PlacesCounted DEF ListsFollowed
  <1> QED
    BY <1>1, ServingPoolInvariant, PTL
=============================================================================
