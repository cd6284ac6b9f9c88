----------------------------- MODULE PoolDance -----------------------------
(***************************************************************************)
(* The pool (pool-dance/main.c): the serving of work and the validation of *)
(* results, brought together by the callbacks of main.c around one bitcoin *)
(* node.  An item of work builds on a block of the node's chain; it is     *)
(* cached, served and tracked; its result is validated, answered, reported *)
(* and, when accepted, submitted to the node, which may make it a block.   *)
(*                                                                         *)
(* The node may be a block ahead of what the pool was notified of, and its *)
(* answers to different calls arrive in any order.                         *)
(***************************************************************************)
EXTENDS WorkServing, WorkValidator

VARIABLES
  chain,      \* the node's blocks: the result each was made from, 0 for others
  cached_on,  \* the block each item of work_queue builds on
  built_on,   \* the block each item sent builds on
  put,        \* the result a connection waits to hear of, 0 for none
  results     \* the WorkResult objects, by the id of the result

danceVars == <<chain, cached_on, built_on, put, results>>
poolDanceVars == <<servingVars, validatorVars, danceVars>>

Height == Len(chain)

(* Where a result is: with the validator, with the node, judged by the node  *)
(* with the answer on its way, or done with.                                 *)
Phase == {"validating", "upstream", "found", "refused", "done"}

Event == {"WORK-SUBMITTED", "WORK-ACCEPTED", "WORK-REJECTED", "BLOCK-FOUND"}

(* A result: the block it builds on and its references; as history, whether  *)
(* its miner did as it was told, the events reported of it, the block of the *)
(* pool when it was submitted to the node and the one it was reported for.   *)
Result ==
  [on : Blocks, refs : Nat, phase : Phase, honest : BOOLEAN,
   story : Seq(Event), submitted_at : Blocks, named : Blocks]

DanceTypeOK ==
  /\ WorkServingTypeOK
  /\ ValidatorTypeOK
  /\ chain \in Seq(0 .. MaxShares) /\ block_num \in {Height - 1, Height}
  /\ cached_on \in [DOMAIN work_queue -> Blocks]
  /\ built_on \in [DOMAIN sent -> Blocks]
  /\ put \in [Conn -> 0 .. shares]
  /\ \A c \in Conn : put[c] # 0 <=> client[c] = "putwork"
  /\ results \in [1 .. shares -> Result]

DanceInit ==
  /\ WorkServingInit
  /\ ValidatorInit
  /\ chain = <<0>>
  /\ cached_on = <<>>
  /\ built_on = <<>>
  /\ put = [c \in Conn |-> 0]
  /\ results = <<>>

-----------------------------------------------------------------------------

(* Somebody else's block; the pool hears of the last one before the next. *)
NodeGrows ==
  /\ Height = block_num
  /\ Height < MaxBlocks
  /\ chain' = Append(chain, 0)
  /\ UNCHANGED <<servingVars, validatorVars, cached_on, built_on, put, results>>

(* block_monitor_on_block_change: current_block follows block_num. *)
NoticeBlock ==
  /\ block_num < Height
  /\ BlockChange
  /\ ValidatorNewBlock
  /\ cached_on' = <<>>
  /\ UNCHANGED <<chain, built_on, put, results>>

(* The node makes an item up from its chain, between the call and the answer. *)
ItemArrives(age, on) ==
  /\ on \in (IF age = "fresh" THEN block_num ELSE 1) .. Height
  /\ OnHasWork(age)
  /\ cached_on' = <<on>> \o cached_on
  /\ UNCHANGED <<validatorVars, chain, built_on, put, results>>

(* serve_work: an item is tracked only when it was sent. *)
ServeItem(root, user) ==
  /\ ServeWork(TRUE)
  /\ TrackWorkSent(root, user)
  /\ built_on' = Inserted(built_on, root, Head(cached_on))
  /\ cached_on' = Tail(cached_on)
  /\ UNCHANGED <<chain, put, results>>

ServeItemFails ==
  /\ ServeWork(FALSE)
  /\ cached_on' = Tail(cached_on)
  /\ UNCHANGED <<validatorVars, chain, built_on, put, results>>

(* The turns that are about the miners and their requests alone. *)
MinerTurn ==
  /\ \/ \E c \in Conn : MinerConnects(c) \/ MinerLongPolls(c) \/ OnGetwork(c)
     \/ \E age \in Age : UpstreamCallFails(age)
     \/ ServeNothing
  /\ UNCHANGED <<validatorVars, danceVars>>

MinerLeaves(c) ==
  /\ MinerCloses(c)
  /\ put' = [put EXCEPT ![c] = 0]
  /\ UNCHANGED <<validatorVars, chain, cached_on, built_on, results>>

-----------------------------------------------------------------------------

(* event_dispatcher_notify_work_submitted, _work_validated, _block_found:    *)
(* what each writes about a result.                                          *)
NotifyWorkSubmitted(story) == Append(story, "WORK-SUBMITTED")
NotifyWorkValidated(story, accepted) ==
  Append(story, IF accepted THEN "WORK-ACCEPTED" ELSE "WORK-REJECTED")
NotifyBlockFound(story) == Append(story, "BLOCK-FOUND")

(* Mutation: a result refused at once is reported before validate returns. *)
StoryOnReturnAtOnce ==
  IF verdicts' = verdicts THEN <<>> ELSE NotifyWorkValidated(<<>>, FALSE)

(* What was reported of a result when work_validator_validate returns:       *)
(* nothing, since even what is refused at once completes in an idle source.  *)
StoryOnReturn == <<>>

(* History: the miner submits what it was told to, its item unchanged but    *)
(* for the nonce.                                                            *)
Honest(root, user, on, intact) ==
  /\ intact
  /\ root \in DOMAIN sent
  /\ sent[root].user = user
  /\ built_on[root] = on

(* pool_server_on_putwork: rpc_on_method_call owns one reference, which      *)
(* work_validator_on_validate drops, the validator's result object another.  *)
PutWork(c, root, nonce, user, on, intact, slot_was_stale) ==
  /\ MinerPutsWork(c)
  /\ Submit(root, nonce, user, on, intact, slot_was_stale)
  /\ put' = [put EXCEPT ![c] = shares']
  /\ results' = Append(results,
       [on |-> on, refs |-> 2, phase |-> "validating",
        honest |-> Honest(root, user, on, intact),
        story |-> NotifyWorkSubmitted(StoryOnReturn),
        submitted_at |-> 0, named |-> 0])
  /\ UNCHANGED <<chain, cached_on, built_on>>

(* Mutation: nobody answers. *)
AnswerMinerNot(id) == UNCHANGED <<servingVars, put>>

(* pool_server_respond_putwork finds the miner, or the connection is gone.   *)
AnswerMiner(id) ==
  \/ \E c \in Conn, ok \in BOOLEAN :
       /\ put[c] = id
       /\ PutworkAnswered(c, ok)
       /\ put' = [put EXCEPT ![c] = 0]
  \/ /\ \A c \in Conn : put[c] # id
     /\ UNCHANGED <<servingVars, put>>

(* Mutation: no reference is taken for the submission. *)
RefsOnceAcceptedNone(n) == n - 2

(* work_result_ref for the submission, then the two references go. *)
RefsOnceAccepted(n) == n + 1 - 2

(* work_validator_on_validate, of what the validator decided. *)
OnValidate(v) ==
  LET id == v.share.id
      accepted == v.verdict = "success"
  IN  /\ results[id].phase = "validating"
      /\ results' = [results EXCEPT
           ![id].phase = IF accepted THEN "upstream" ELSE "done",
           ![id].story = NotifyWorkValidated(@, accepted),
           ![id].submitted_at = IF accepted THEN block_num ELSE 0,
           ![id].refs = IF accepted THEN RefsOnceAccepted(@) ELSE @ - 2]
      /\ AnswerMiner(id)
      /\ UNCHANGED <<validatorVars, chain, cached_on, built_on>>

(* The node judges a submission: a block only when it extends the chain,     *)
(* which the pool then knows the last block of, as in NodeGrows.             *)
NodeJudges(id, found) ==
  /\ results[id].phase = "upstream"
  /\ found => results[id].on = Height /\ Height = block_num /\ Height < MaxBlocks
  /\ results' = [results EXCEPT ![id].phase = IF found THEN "found" ELSE "refused"]
  /\ chain' = IF found THEN Append(chain, id) ELSE chain
  /\ UNCHANGED <<servingVars, validatorVars, cached_on, built_on, put>>

(* Mutation: the node's answer is not looked at. *)
IsBlockAlways(phase) == TRUE

(* json_node_get_boolean (json_result) *)
IsBlock(phase) == phase = "found"

(* on_submit_work, answered: a block is named by current_block. *)
OnSubmitWork(id) ==
  /\ results[id].phase \in {"found", "refused"}
  /\ results' = [results EXCEPT
       ![id].phase = "done",
       ![id].story = IF IsBlock(results[id].phase) THEN NotifyBlockFound(@) ELSE @,
       ![id].named = IF IsBlock(results[id].phase) THEN block_num ELSE 0,
       ![id].refs = @ - 1]
  /\ UNCHANGED <<servingVars, validatorVars, chain, cached_on, built_on, put>>

(* on_submit_work, failed: the call or its answer is lost. *)
OnSubmitWorkFailed(id) ==
  /\ results[id].phase \in {"upstream", "found", "refused"}
  /\ results' = [results EXCEPT ![id].phase = "done", ![id].refs = @ - 1]
  /\ UNCHANGED <<servingVars, validatorVars, chain, cached_on, built_on, put>>

ValidatorTurn == HashAnswer \/ ThreadStep

ValidateTurn == \E v \in verdicts : OnValidate(v)

DanceNext ==
  \/ NodeGrows
  \/ NoticeBlock
  \/ \E age \in Age, on \in Blocks : ItemArrives(age, on)
  \/ \E root \in Root, user \in User : ServeItem(root, user)
  \/ ServeItemFails
  \/ MinerTurn
  \/ \E c \in Conn : MinerLeaves(c)
  \/ \E c \in Conn, root \in Root, nonce \in Nonce, user \in User, on \in Blocks \ {0},
        intact \in BOOLEAN, slot_was_stale \in BOOLEAN :
       /\ OneBlockIfBroken(on, intact)
       /\ PutWork(c, root, nonce, user, on, intact, slot_was_stale)
  \/ ValidatorTurn /\ UNCHANGED <<servingVars, danceVars>>
  \/ ValidateTurn
  \/ \E id \in DOMAIN results :
       \/ \E found \in BOOLEAN : NodeJudges(id, found)
       \/ OnSubmitWork(id)
       \/ OnSubmitWorkFailed(id)

(* The node answers, the threads run and the main loop dispatches.           *)
DanceFairness ==
  /\ WF_poolDanceVars(HashAnswer /\ UNCHANGED <<servingVars, danceVars>>)
  /\ WF_poolDanceVars(ThreadStep /\ UNCHANGED <<servingVars, danceVars>>)
  /\ WF_poolDanceVars(ValidateTurn)

DanceSpec == DanceInit /\ [][DanceNext]_poolDanceVars /\ DanceFairness

-----------------------------------------------------------------------------

(* The results whose nonce check_merkle_root_and_nonce_is_unique recorded.   *)
Recorded ==
  {pool[i].share : i \in DOMAIN pool} \union
  {v.share : v \in {w \in verdicts :
                     w.verdict \notin {"unknown", "header", "duplicate"}}}

(* What a miner that does as it is told can be refused for, other than a     *)
(* hash above the target.  Its item is unknown only two blocks after it was  *)
(* sent.  Its nonce is a duplicate only when it was recorded before, be it   *)
(* from the result of another miner, refused for its user.  Its result is    *)
(* stale only when the item was sent before the last block, or the memory of *)
(* the result came marked.  It fails the check of the block only when the    *)
(* item did not build on the block it was served at, or when the hash of     *)
(* that block was not known: to the moment for an item of the current block, *)
(* by the time the last block came for one of the block before.  The nonces  *)
(* are taken to fit in their array.                                          *)
HonestIsJudged ==
  \A v \in verdicts :
    results[v.share.id].honest =>
      LET s          == v.share
          is_current == sent[s.root].block = s.block
      IN
      /\ v.verdict \notin {"header", "user"}
      /\ v.verdict = "unknown" => sent[s.root].block < s.block - 1
      /\ v.verdict = "duplicate" /\ s.fits =>
           \E t \in Recorded :
             t.root = s.root /\ t.nonce = s.nonce /\ t.id < s.id
      /\ v.verdict = "stale" /\ s.fits /\ ~ s.marked => ~ is_current
      /\ v.verdict = "block" /\ s.fits
           /\ (IF is_current THEN s.settled ELSE s.kept_up) =>
           built_on[s.root] # sent[s.root].block

(* A result lives as long as somebody will use it, and no longer: the        *)
(* validator and main, then the submission to the node.                      *)
ResultIsAlive ==
  \A id \in DOMAIN results :
    results[id].refs = CASE results[id].phase = "validating" -> 2
                         [] results[id].phase = "done" -> 0
                         [] OTHER -> 1

(* What the log tells of a result is what became of it: submitted, judged    *)
(* once as the validator decided, and a block only if the node's chain has   *)
(* it.                                                                       *)
ResultStory ==
  \A id \in DOMAIN results :
    LET story == results[id].story
        Judged(verdict) == id \in IdsDecided(verdict)
    IN  \/ story = <<"WORK-SUBMITTED">>
        \/ /\ story = <<"WORK-SUBMITTED", "WORK-REJECTED">>
           /\ Judged(Verdict \ {"success"})
        \/ /\ story = <<"WORK-SUBMITTED", "WORK-ACCEPTED">>
           /\ Judged({"success"})
        \/ /\ story = <<"WORK-SUBMITTED", "WORK-ACCEPTED", "BLOCK-FOUND">>
           /\ Judged({"success"})
           /\ \E h \in DOMAIN chain : chain[h] = id

(* A block found is reported for the block it extends when the node's answer *)
(* is faster than the next block, and for a later one otherwise: the hash    *)
(* check keeps out results that are ahead of the pool, as long as it does    *)
(* not compare with a string that was freed, and the node those behind.      *)
FoundIsNamed ==
  timing.unanswered < 2 =>
  \A id \in DOMAIN results :
    LET r == results[id] IN
    r.named # 0 =>
      IF r.named = r.submitted_at THEN r.named = r.on ELSE r.named > r.on

Tells(id, event) ==
  \E i \in DOMAIN results[id].story : results[id].story[i] = event

Credited(id) == Tells(id, "WORK-ACCEPTED")

(* What is credited to a miner, in the log that pays the shares out, was     *)
(* served to that very miner at the block it was submitted at, and no nonce  *)
(* of an item is credited twice; and the pool's blocks of the chain were all *)
(* credited.                                                                 *)
CreditIsEarned ==
  /\ \A s \in Submissions :
       Credited(s.id) =>
         /\ s.root \in DOMAIN sent
         /\ sent[s.root] = [user |-> s.user, block |-> s.block]
         /\ \A t \in Submissions :
              Credited(t.id) /\ t.root = s.root /\ t.nonce = s.nonce
                => t.id = s.id
  /\ \A h \in DOMAIN chain : chain[h] # 0 => Credited(chain[h])

(* A miner that waits to hear of a result has an answer coming: the threads  *)
(* have the result or it was decided, main has not yet looked at it, and     *)
(* nobody else waits for the same.                                           *)
WaitingMinerIsOwed ==
  \A c \in Conn :
    put[c] # 0 =>
      /\ \E s \in Submissions : s.id = put[c]
      /\ results[put[c]].phase = "validating"
      /\ \A d \in Conn \ {c} : put[d] # put[c]

(* A miner that submitted a result hears of it, or goes away. *)
EveryPutworkAnswered ==
  \A c \in Conn : client[c] = "putwork" ~> client[c] # "putwork"
=============================================================================
