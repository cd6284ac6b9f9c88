-------------------------- MODULE PoolDanceProofs --------------------------
(* Proofs about the pool as a whole: that it implements the serving of work  *)
(* and the validation of results, so that what is proved of them holds of    *)
(* it, and what main.c promises of each result on top of them.               *)
EXTENDS PoolDance, WorkServingProofs, WorkValidatorProofs

(* Every step of the pool serves work by a step of WorkServing, or not at    *)
(* all.                                                                      *)
LEMMA DanceStepServes ==
  [DanceNext]_poolDanceVars => [WorkServingNext]_servingVars
  <1> SUFFICES ASSUME [DanceNext]_poolDanceVars
               PROVE  [WorkServingNext]_servingVars
    OBVIOUS
  <1>1. CASE NoticeBlock
    BY <1>1 DEF NoticeBlock, WorkServingNext
  <1>2. ASSUME NEW age \in Age, NEW on \in Blocks, ItemArrives(age, on)
        PROVE  WorkServingNext
    BY <1>2 DEF ItemArrives, WorkServingNext
  <1>3. ASSUME NEW root \in Root, NEW user \in User, ServeItem(root, user)
        PROVE  WorkServingNext
    BY <1>3 DEF ServeItem, ServeTurn, WorkServingNext
  <1>4. CASE ServeItemFails
    BY <1>4 DEF ServeItemFails, ServeTurn, WorkServingNext
  <1>5. CASE MinerTurn
    BY <1>5 DEF MinerTurn, ServeTurn, WorkServingNext
  <1>6. ASSUME NEW c \in Conn, MinerLeaves(c)
        PROVE  WorkServingNext
    BY <1>6 DEF MinerLeaves, WorkServingNext
  <1>7. ASSUME NEW c \in Conn, NEW root, NEW nonce, NEW user, NEW on, NEW intact,
               NEW slot_was_stale,
               PutWork(c, root, nonce, user, on, intact, slot_was_stale)
        PROVE  WorkServingNext
    BY <1>7 DEF PutWork, WorkServingNext
  <1>8. ASSUME NEW v \in verdicts, OnValidate(v)
        PROVE  WorkServingNext \/ UNCHANGED servingVars
    BY <1>8 DEF OnValidate, AnswerMiner, WorkServingNext
  <1>9. CASE UNCHANGED servingVars
    BY <1>9
  <1>10. UNCHANGED poolDanceVars \/ NodeGrows => UNCHANGED servingVars
    BY DEF poolDanceVars, NodeGrows
  <1>11. ASSUME NEW id \in DOMAIN results
         PROVE  /\ \A found : NodeJudges(id, found) => UNCHANGED servingVars
                /\ OnSubmitWork(id) => UNCHANGED servingVars
                /\ OnSubmitWorkFailed(id) => UNCHANGED servingVars
    BY DEF NodeJudges, OnSubmitWork, OnSubmitWorkFailed
  <1> QED
    BY <1>1, <1>2, <1>3, <1>4, <1>5, <1>6, <1>7, <1>8, <1>9, <1>10, <1>11
    DEF DanceNext, ValidateTurn

(* And it validates results by a step of WorkValidator, or not at all. *)
LEMMA DanceStepValidates ==
  [DanceNext]_poolDanceVars => [ValidatorNext]_validatorVars
  <1> SUFFICES ASSUME [DanceNext]_poolDanceVars
               PROVE  [ValidatorNext]_validatorVars
    OBVIOUS
  <1>1. CASE NoticeBlock
    BY <1>1 DEF NoticeBlock, ValidatorNext
  <1>2. ASSUME NEW root \in Root, NEW user \in User, ServeItem(root, user)
        PROVE  ValidatorNext
    BY <1>2 DEF ServeItem, ValidatorNext
  <1>3. ASSUME NEW c \in Conn, NEW root \in Root, NEW nonce \in Nonce,
               NEW user \in User, NEW on \in Blocks \ {0},
               NEW intact \in BOOLEAN, NEW slot_was_stale \in BOOLEAN,
               OneBlockIfBroken(on, intact),
               PutWork(c, root, nonce, user, on, intact, slot_was_stale)
        PROVE  ValidatorNext
    BY <1>3 DEF PutWork, ValidatorNext
  <1>4. CASE ValidatorTurn
    BY <1>4 DEF ValidatorTurn, ValidatorNext
  <1>5. UNCHANGED poolDanceVars \/ NodeGrows \/ ServeItemFails \/ MinerTurn
          => UNCHANGED validatorVars
    BY DEF poolDanceVars, NodeGrows, ServeItemFails, MinerTurn
  <1>6. \A age, on : ItemArrives(age, on) => UNCHANGED validatorVars
    BY DEF ItemArrives
  <1>7. \A c : MinerLeaves(c) => UNCHANGED validatorVars
    BY DEF MinerLeaves
  <1>8. \A v \in verdicts : OnValidate(v) => UNCHANGED validatorVars
    BY DEF OnValidate
  <1>9. ASSUME NEW id \in DOMAIN results
        PROVE  /\ \A found : NodeJudges(id, found) => UNCHANGED validatorVars
               /\ OnSubmitWork(id) => UNCHANGED validatorVars
               /\ OnSubmitWorkFailed(id) => UNCHANGED validatorVars
    BY DEF NodeJudges, OnSubmitWork, OnSubmitWorkFailed
  <1> QED
    BY <1>1, <1>2, <1>3, <1>4, <1>5, <1>6, <1>7, <1>8, <1>9
    DEF DanceNext, ValidateTurn

(* The pool serves work as WorkServing says. *)
THEOREM PoolServes == DanceSpec => WorkServingSafety
  <1>1. DanceInit => WorkServingInit
    BY DEF DanceInit
  <1> QED
    BY <1>1, DanceStepServes, PTL DEF DanceSpec, WorkServingSafety

(* The pool validates results as WorkValidator says. *)
THEOREM PoolValidates == DanceSpec => ValidatorSafety
  <1>1. DanceInit => ValidatorInit
    BY DEF DanceInit
  <1> QED
    BY <1>1, DanceStepValidates, PTL DEF DanceSpec, ValidatorSafety

-----------------------------------------------------------------------------
(* What becomes of a result.                                                 *)

LEMMA AppendIs ==
  ASSUME NEW S, NEW s \in Seq(S), NEW t \in Seq(S), NEW e \in S,
         Len(t) = Len(s) + 1, t[Len(s) + 1] = e,
         \A i \in 1 .. Len(s) : t[i] = s[i]
  PROVE  Append(s, e) = t
  <1>1. /\ Append(s, e) \in Seq(S) /\ Len(Append(s, e)) = Len(s) + 1
        /\ Append(s, e)[Len(s) + 1] = e
        /\ \A i \in 1 .. Len(s) : Append(s, e)[i] = s[i]
    BY AppendProperties
  <1>2. Len(s) \in Nat
    OBVIOUS
  <1>3. \A i \in 1 .. Len(t) : Append(s, e)[i] = t[i]
    BY <1>1, <1>2
  <1> QED
    BY <1>1, <1>3, SeqEqual

LEMMA AppendTuple ==
  ASSUME NEW S, NEW a \in S, NEW b \in S, NEW c \in S
  PROVE  Append(<<a>>, b) = <<a, b>> /\ Append(<<a, b>>, c) = <<a, b, c>>
  <1>1. /\ <<a>> \in Seq(S) /\ Len(<<a>>) = 1
        /\ <<a, b>> \in Seq(S) /\ Len(<<a, b>>) = 2
        /\ <<a, b, c>> \in Seq(S) /\ Len(<<a, b, c>>) = 3
    OBVIOUS
  <1>2. /\ <<a>>[1] = a /\ <<a, b>>[1] = a /\ <<a, b>>[2] = b
        /\ <<a, b, c>>[1] = a /\ <<a, b, c>>[2] = b /\ <<a, b, c>>[3] = c
    OBVIOUS
  <1> DEFINE s == <<a>>
             t == <<a, b>>
             u == <<a, b, c>>
  <1>3. /\ Len(t) = Len(s) + 1 /\ t[Len(s) + 1] = b
        /\ \A i \in 1 .. Len(s) : t[i] = s[i]
        /\ Len(u) = Len(t) + 1 /\ u[Len(t) + 1] = c
        /\ \A i \in 1 .. Len(t) : u[i] = t[i]
    BY <1>1, <1>2
  <1>4. s \in Seq(S) /\ t \in Seq(S) /\ u \in Seq(S)
    BY <1>1
  <1> HIDE DEF s, t, u
  <1>5. Append(s, b) = t /\ Append(t, c) = u
    BY <1>3, <1>4, AppendIs
  <1> QED
    BY <1>5 DEF s, t, u


ResultsOK == results \in Seq(Result) /\ Len(results) = shares

(* Nothing is reported of a result before it is submitted. *)
LEMMA StoryBegins == NotifyWorkSubmitted(StoryOnReturn) = <<"WORK-SUBMITTED">>
  <1> DEFINE s == <<"WORK-SUBMITTED">>
  <1>1. /\ <<>> \in Seq(Event) /\ s \in Seq(Event) /\ "WORK-SUBMITTED" \in Event
        /\ Len(<<>>) = 0 /\ Len(s) = 1 /\ s[1] = "WORK-SUBMITTED"
    BY DEF Event
  <1>2. Len(s) = Len(<<>>) + 1 /\ s[Len(<<>>) + 1] = "WORK-SUBMITTED"
        /\ \A i \in 1 .. Len(<<>>) : s[i] = <<>>[i]
    BY <1>1
  <1> HIDE DEF s
  <1>3. Append(<<>>, "WORK-SUBMITTED") = s
    BY <1>1, <1>2, AppendIs
  <1> QED
    BY <1>3 DEF s, NotifyWorkSubmitted, StoryOnReturn

Alive(r) ==
  r.refs = CASE r.phase = "validating" -> 2 [] r.phase = "done" -> 0
             [] OTHER -> 1

Submitted == <<"WORK-SUBMITTED">>
Judged(accepted) == NotifyWorkValidated(Submitted, accepted)

IsAccepted(id) == id \in IdsDecided({"success"})
IsRefused(id) == id \in IdsDecided(Verdict \ {"success"})

InChain(id) == \E h \in DOMAIN chain : chain[h] = id

(* The story so far, as the phase has it. *)
Told(id, r) ==
  /\ r.phase = "validating" => r.story = Submitted
  /\ r.phase \in {"upstream", "found", "refused"} =>
       r.story = Judged(TRUE) /\ IsAccepted(id)
  /\ r.phase = "found" => InChain(id)
  /\ r.phase = "done" =>
       \/ r.story = Judged(FALSE) /\ IsRefused(id)
       \/ r.story = Judged(TRUE) /\ IsAccepted(id)
       \/ r.story = NotifyBlockFound(Judged(TRUE)) /\ IsAccepted(id) /\ InChain(id)

ResultInv ==
  /\ ResultsOK
  /\ \A id \in DOMAIN results : Alive(results[id]) /\ Told(id, results[id])

(* One result changes, and what is known of the others stays. *)
LEMMA OneResultChanges ==
  ASSUME ResultInv, shares \in Nat, NEW id \in DOMAIN results, NEW r \in Result,
         results' = [results EXCEPT ![id] = r], shares' = shares,
         verdicts \subseteq verdicts', \A i : InChain(i) => InChain(i)',
         Alive(r), Told(id, r)'
  PROVE  ResultInv'
  <1>1. /\ results' \in Seq(Result) /\ Len(results') = shares'
        /\ DOMAIN results' = DOMAIN results
        /\ results'[id] = r
        /\ \A i \in DOMAIN results : i # id => results'[i] = results[i]
    BY DEF ResultInv, ResultsOK
  <1>2. \A i : /\ IsAccepted(i) => IsAccepted(i)'
               /\ IsRefused(i) => IsRefused(i)'
    BY DEF IsAccepted, IsRefused, IdsDecided
  <1>3. ASSUME NEW i \in DOMAIN results, i # id
        PROVE  Alive(results[i])' /\ Told(i, results[i])'
    <2>1. Alive(results[i]) /\ Told(i, results[i]) /\ results'[i] = results[i]
      BY <1>1, <1>3 DEF ResultInv
    <2> QED
      BY <2>1, <1>2 DEF Alive, Told
  <1>4. Alive(results[id])' /\ Told(id, results[id])'
    BY <1>1 DEF Alive, Told
  <1> QED
    BY <1>1, <1>3, <1>4 DEF ResultInv, ResultsOK

(* A result with another value in one of its fields. *)
LEMMA ResultFields ==
  ASSUME NEW r \in Result
  PROVE  /\ \A n \in Nat : [r EXCEPT !.refs = n] \in Result
         /\ \A p \in Phase : [r EXCEPT !.phase = p] \in Result
         /\ \A s \in Seq(Event) : [r EXCEPT !.story = s] \in Result
         /\ \A b \in Blocks : /\ [r EXCEPT !.submitted_at = b] \in Result
                              /\ [r EXCEPT !.named = b] \in Result
  BY DEF Result

LEMMA ResultsKept ==
  ASSUME ResultInv, UNCHANGED <<results, shares>>, verdicts \subseteq verdicts',
         \A i : InChain(i) => InChain(i)'
  PROVE  ResultInv'
  <1>1. \A i : /\ IsAccepted(i) => IsAccepted(i)'
               /\ IsRefused(i) => IsRefused(i)'
    BY DEF IsAccepted, IsRefused, IdsDecided
  <1>2. ASSUME NEW i \in DOMAIN results
        PROVE  Alive(results[i])' /\ Told(i, results[i])'
    BY <1>1 DEF ResultInv, Alive, Told
  <1> QED
    BY <1>2 DEF ResultInv, ResultsOK

LEMMA VerdictsStay ==
  ASSUME [ValidatorNext]_validatorVars
  PROVE  verdicts \subseteq verdicts'
  <1>1. CASE UNCHANGED validatorVars
    BY <1>1 DEF validatorVars, shareVars
  <1>2. \A root, user : TrackWorkSent(root, user) => UNCHANGED verdicts
    BY DEF TrackWorkSent, shareVars
  <1>3. ValidatorNewBlock => UNCHANGED verdicts
    BY DEF ValidatorNewBlock, shareVars
  <1>4. HashAnswer => UNCHANGED verdicts
    BY DEF HashAnswer, OnBlockHash, OnBlockHashFailed, shareVars
  <1>5. ASSUME NEW share,
               \/ SubmitUnknown(share) \/ SubmitHeaderMismatch(share)
               \/ SubmitRepeated(share)
               \/ \E slot_was_stale \in BOOLEAN :
                    SubmitRecorded(share, slot_was_stale)
        PROVE  verdicts \subseteq verdicts'
    <2>1. \A verdict : Refused(share, verdict) => verdicts \subseteq verdicts'
      BY DEF Refused
    <2>2. CASE SubmitUnknown(share)
      BY <2>1, <2>2 DEF SubmitUnknown
    <2>3. CASE SubmitHeaderMismatch(share)
      BY <2>1, <2>3 DEF SubmitHeaderMismatch
    <2>4. CASE SubmitRepeated(share)
      BY <2>1, <2>4 DEF SubmitRepeated
    <2>5. ASSUME NEW slot_was_stale \in BOOLEAN, SubmitRecorded(share, slot_was_stale)
          PROVE  verdicts \subseteq verdicts'
      BY <2>1, <2>5 DEF SubmitRecorded
    <2> QED
      BY <1>5, <2>2, <2>3, <2>4, <2>5
  <1>6. ASSUME NEW root, NEW nonce, NEW user, NEW on, NEW intact,
               NEW slot_was_stale \in BOOLEAN,
               Submit(root, nonce, user, on, intact, slot_was_stale)
        PROVE  verdicts \subseteq verdicts'
    BY <1>5, <1>6 DEF Submit
  <1>7. ThreadStep => verdicts \subseteq verdicts'
    BY DEF ThreadStep, ValidateInThread
  <1> QED
    BY <1>1, <1>2, <1>3, <1>4, <1>6, <1>7 DEF ValidatorNext

(* The chain of the node only grows. *)
ChainGrows ==
  /\ Height \in Nat /\ Height' \in Nat /\ Height <= Height'
  /\ DOMAIN chain \subseteq DOMAIN chain'
  /\ \A h \in DOMAIN chain : chain'[h] = chain[h]

LEMMA ChainChanges ==
  ASSUME [DanceNext]_poolDanceVars
  PROVE  \/ UNCHANGED chain
         \/ NodeGrows
         \/ \E id \in DOMAIN results, found \in BOOLEAN : NodeJudges(id, found)
  <1>1. UNCHANGED poolDanceVars \/ NoticeBlock \/ ServeItemFails \/ MinerTurn
          => UNCHANGED chain
    BY DEF poolDanceVars, danceVars, NoticeBlock, ServeItemFails, MinerTurn
  <1>2. /\ \A age, on : ItemArrives(age, on) => UNCHANGED chain
        /\ \A root, user : ServeItem(root, user) => UNCHANGED chain
        /\ \A c : MinerLeaves(c) => UNCHANGED chain
    BY DEF ItemArrives, ServeItem, MinerLeaves
  <1>3. \A c, root, nonce, user, on, intact, slot :
          PutWork(c, root, nonce, user, on, intact, slot) => UNCHANGED chain
    BY DEF PutWork
  <1>4. \A v : OnValidate(v) => UNCHANGED chain
    BY DEF OnValidate
  <1>5. \A id : OnSubmitWork(id) \/ OnSubmitWorkFailed(id) => UNCHANGED chain
    BY DEF OnSubmitWork, OnSubmitWorkFailed
  <1>6. ValidatorTurn /\ UNCHANGED <<servingVars, danceVars>> => UNCHANGED chain
    BY DEF danceVars
  <1> QED
    BY <1>1, <1>2, <1>3, <1>4, <1>5, <1>6 DEF DanceNext, ValidateTurn

LEMMA ChainStep ==
  ASSUME ResultsOK, chain \in Seq(Nat), [DanceNext]_poolDanceVars
  PROVE  chain' \in Seq(Nat) /\ ChainGrows
  <1>1. ASSUME NEW b \in Nat, chain' = Append(chain, b)
        PROVE  chain' \in Seq(Nat) /\ ChainGrows
    <2>1. /\ chain' \in Seq(Nat) /\ Len(chain') = Len(chain) + 1
          /\ \A h \in 1 .. Len(chain) : chain'[h] = chain[h]
      BY <1>1, AppendProperties
    <2>2. /\ DOMAIN chain = 1 .. Len(chain) /\ Len(chain) \in Nat
          /\ DOMAIN chain' = 1 .. Len(chain') /\ Len(chain') \in Nat
      BY <2>1
    <2>3. Len(chain) <= Len(chain') /\ 1 .. Len(chain) \subseteq 1 .. Len(chain')
      BY <2>1, <2>2
    <2> QED
      BY <2>1, <2>2, <2>3 DEF ChainGrows, Height
  <1>2. CASE UNCHANGED chain
    <2>1. Len(chain) \in Nat
      OBVIOUS
    <2> QED
      BY <1>2, <2>1 DEF ChainGrows, Height
  <1>3. CASE NodeGrows
    BY <1>1, <1>3 DEF NodeGrows
  <1>4. ASSUME NEW id \in DOMAIN results, NEW found \in BOOLEAN,
               NodeJudges(id, found)
        PROVE  chain' \in Seq(Nat) /\ ChainGrows
    <2>1. id \in Nat
      BY LenProperties DEF ResultsOK
    <2> QED
      BY <1>1, <1>2, <1>4, <2>1 DEF NodeJudges
  <1> QED
    BY <1>2, <1>3, <1>4, ChainChanges

LEMMA ChainKeeps ==
  ASSUME ChainGrows
  PROVE  \A i : InChain(i) => InChain(i)'
  BY DEF ChainGrows, InChain

LEMMA NewResult ==
  ASSUME ValidatorTypeOK, ResultInv, verdicts \subseteq verdicts',
         NEW c, NEW root, NEW nonce, NEW user, NEW on \in Blocks,
         NEW intact \in BOOLEAN, NEW slot_was_stale,
         PutWork(c, root, nonce, user, on, intact, slot_was_stale)
  PROVE  ResultInv'
  <1> DEFINE r == [on |-> on, refs |-> 2, phase |-> "validating",
                   honest |-> Honest(root, user, on, intact),
                   story |-> NotifyWorkSubmitted(StoryOnReturn),
                   submitted_at |-> 0, named |-> 0]
  <1>1. /\ results' = Append(results, r)
        /\ shares' = shares + 1 /\ shares \in Nat
        /\ UNCHANGED chain
    BY TypeFacts DEF PutWork, Submit
  <1>2. /\ r \in Result
        /\ r.phase = "validating" /\ r.refs = 2 /\ r.story = Submitted
    <2>1. /\ Honest(root, user, on, intact) \in BOOLEAN
          /\ Submitted \in Seq(Event)
          /\ 0 \in Blocks
      BY TypeFacts DEF Honest, Submitted, Event, Blocks
    <2>2. NotifyWorkSubmitted(StoryOnReturn) = Submitted
      BY StoryBegins DEF Submitted
    <2> QED
      BY <2>1, <2>2 DEF Result, Phase
  <1> HIDE DEF r
  <1>3. /\ results \in Seq(Result) /\ Len(results) = shares
        /\ DOMAIN results = 1 .. shares
    BY DEF ResultInv, ResultsOK
  <1>4. /\ results' \in Seq(Result) /\ Len(results') = shares'
        /\ DOMAIN results' = 1 .. shares'
        /\ results'[shares'] = r
        /\ \A i \in 1 .. shares : results'[i] = results[i]
    BY <1>1, <1>2, <1>3
  <1>5. \A i : /\ IsAccepted(i) => IsAccepted(i)'
               /\ IsRefused(i) => IsRefused(i)'
               /\ InChain(i) => InChain(i)'
    BY <1>1 DEF IsAccepted, IsRefused, IdsDecided, InChain
  <1>6. ASSUME NEW i \in 1 .. shares
        PROVE  Alive(results[i])' /\ Told(i, results[i])'
    <2>1. Alive(results[i]) /\ Told(i, results[i]) /\ results'[i] = results[i]
      BY <1>3, <1>4 DEF ResultInv
    <2> QED
      BY <2>1, <1>5 DEF Alive, Told
  <1>7. ASSUME NEW i, i = shares'
        PROVE  Alive(results[i])' /\ Told(i, results[i])'
    BY <1>2, <1>4, <1>7 DEF Alive, Told
  <1>8. \A i \in DOMAIN results' : i \in 1 .. shares \/ i = shares'
    BY <1>1, <1>4
  <1> QED
    BY <1>4, <1>6, <1>7, <1>8 DEF ResultInv, ResultsOK

LEMMA ValidatedResult ==
  ASSUME ValidatorTypeOK, OnePlaceEach, ResultInv, NEW v \in verdicts, OnValidate(v)
  PROVE  ResultInv'
  <1> DEFINE id == v.share.id
             old == results[id]
             accepted == v.verdict = "success"
             r == [old EXCEPT
                     !.phase = IF accepted THEN "upstream" ELSE "done",
                     !.story = NotifyWorkValidated(@, accepted),
                     !.submitted_at = IF accepted THEN block_num ELSE 0,
                     !.refs = IF accepted THEN RefsOnceAccepted(@) ELSE @ - 2]
  <1>1. /\ v.share \in Submissions /\ v.verdict \in Verdict
        /\ id \in 1 .. shares /\ shares \in Nat /\ block_num \in Blocks
    BY TypeFacts DEF ValidatorTypeOK, Submissions, OnePlaceEach
  <1>2. /\ results \in Seq(Result) /\ id \in DOMAIN results /\ old \in Result
        /\ Alive(old) /\ Told(id, old)
    BY <1>1 DEF ResultInv, ResultsOK
  <1>3. /\ old.phase = "validating" /\ old.refs = 2 /\ old.story = Submitted
        /\ results' = [results EXCEPT ![id] = r]
        /\ UNCHANGED <<shares, verdicts, chain>>
    BY <1>2 DEF OnValidate, Alive, Told, validatorVars, shareVars
  <1>4. r.phase = IF accepted THEN "upstream" ELSE "done"
    BY <1>2 DEF Result
  <1>5. r.refs = IF accepted THEN 1 ELSE 0
    BY <1>2, <1>3 DEF Result, RefsOnceAccepted
  <1>6. r.story = IF accepted THEN Judged(TRUE) ELSE Judged(FALSE)
    BY <1>2, <1>3 DEF Result, Judged, NotifyWorkValidated
  <1>7. r \in Result
    <2>1. Judged(TRUE) \in Seq(Event) /\ Judged(FALSE) \in Seq(Event)
      BY DEF Judged, NotifyWorkValidated, Submitted, Event
    <2>2. NotifyWorkValidated(old.story, accepted) \in Seq(Event)
      BY <1>3, <2>1 DEF Judged
    <2>3. (IF accepted THEN block_num ELSE 0) \in Blocks
      BY <1>1, TypeFacts DEF Blocks
    <2>4. (IF accepted THEN "upstream" ELSE "done") \in Phase
      BY DEF Phase
    <2>5. /\ RefsOnceAccepted(old.refs) \in Nat /\ old.refs - 2 \in Nat
      BY <1>3 DEF RefsOnceAccepted
    <2> QED
      BY <1>2, <2>2, <2>3, <2>4, <2>5, ResultFields
  <1>8. IF accepted THEN IsAccepted(id) ELSE IsRefused(id)
    BY <1>1 DEF IsAccepted, IsRefused, IdsDecided
  <1> HIDE DEF r, id
  <1>9. Alive(r) /\ Told(id, r)
    BY <1>4, <1>5, <1>6, <1>8 DEF Alive, Told
  <1>10. PICK i, x : i = id /\ x = r
    OBVIOUS
  <1>11. Told(i, x)' /\ \A j : InChain(j) => InChain(j)'
    BY <1>3, <1>9, <1>10 DEF Told, InChain, IsAccepted, IsRefused, IdsDecided
  <1> QED
    BY <1>1, <1>2, <1>3, <1>7, <1>9, <1>10, <1>11, OneResultChanges

LEMMA JudgedResult ==
  ASSUME ValidatorTypeOK, ResultInv, chain \in Seq(Nat), ChainGrows,
         NEW id \in DOMAIN results, NEW found \in BOOLEAN, NodeJudges(id, found)
  PROVE  ResultInv'
  <1> DEFINE old == results[id]
             r == [old EXCEPT !.phase = IF found THEN "found" ELSE "refused"]
  <1>1. /\ results \in Seq(Result) /\ old \in Result
        /\ Alive(old) /\ Told(id, old) /\ shares \in Nat
    BY TypeFacts DEF ResultInv, ResultsOK
  <1>2. /\ old.phase = "upstream"
        /\ results' = [results EXCEPT ![id] = r]
        /\ chain' = IF found THEN Append(chain, id) ELSE chain
        /\ UNCHANGED <<shares, verdicts>>
    BY DEF NodeJudges, validatorVars, shareVars
  <1>3. r \in Result
    <2>1. (IF found THEN "found" ELSE "refused") \in Phase
      BY DEF Phase
    <2> QED
      BY <1>1, <2>1, ResultFields
  <1>4. /\ r.phase = IF found THEN "found" ELSE "refused"
        /\ r.refs = old.refs /\ r.story = old.story
    BY <1>1 DEF Result
  <1>5. found => InChain(id)'
    <2>1. SUFFICES ASSUME found PROVE \E h \in DOMAIN chain' : chain'[h] = id
      BY DEF InChain
    <2>2. /\ id \in Nat
          /\ Len(chain) + 1 \in DOMAIN Append(chain, id)
          /\ Append(chain, id)[Len(chain) + 1] = id
      BY <1>1
    <2> QED
      BY <1>2, <2>1, <2>2
  <1> HIDE DEF r
  <1>6. PICK i, x : i = id /\ x = r
    OBVIOUS
  <1>7. Alive(x)
    BY <1>1, <1>2, <1>4, <1>6 DEF Alive
  <1>8. Told(i, x)'
    BY <1>1, <1>2, <1>4, <1>5, <1>6 DEF Told, IsAccepted, IsRefused, IdsDecided
  <1> QED
    BY <1>1, <1>2, <1>3, <1>6, <1>7, <1>8, OneResultChanges, ChainKeeps

LEMMA DoneResult ==
  ASSUME ValidatorTypeOK, ResultInv, NEW id \in DOMAIN results,
         OnSubmitWork(id) \/ OnSubmitWorkFailed(id)
  PROVE  ResultInv'
  <1> DEFINE old == results[id]
             told == IF IsBlock(old.phase) THEN NotifyBlockFound(old.story)
                                           ELSE old.story
  <1>1. /\ results \in Seq(Result) /\ old \in Result
        /\ Alive(old) /\ Told(id, old) /\ shares \in Nat /\ block_num \in Blocks
    BY TypeFacts DEF ResultInv, ResultsOK
  <1>2. /\ old.phase \in {"upstream", "found", "refused"}
        /\ old.refs = 1 /\ old.story = Judged(TRUE) /\ IsAccepted(id)
        /\ old.phase = "found" => InChain(id)
        /\ UNCHANGED <<shares, verdicts, chain>>
    BY <1>1 DEF OnSubmitWork, OnSubmitWorkFailed, Alive, Told, validatorVars,
                shareVars
  <1>3. PICK x \in Result :
          /\ results' = [results EXCEPT ![id] = x]
          /\ x.phase = "done" /\ x.refs = 0
          /\ x.story \in {old.story, told}
    <2>1. CASE OnSubmitWork(id)
      <3> DEFINE r == [old EXCEPT
                         !.phase = "done",
                         !.story = IF IsBlock(old.phase)
                                   THEN NotifyBlockFound(@) ELSE @,
                         !.named = IF IsBlock(old.phase) THEN block_num ELSE 0,
                         !.refs = @ - 1]
      <3>1. results' = [results EXCEPT ![id] = r]
        BY <2>1 DEF OnSubmitWork
      <3>2. r \in Result
        <4>1. (IF IsBlock(old.phase) THEN block_num ELSE 0) \in Blocks
          BY <1>1, TypeFacts DEF Blocks
        <4>2. /\ NotifyBlockFound(old.story) \in Seq(Event)
              /\ old.story \in Seq(Event)
          BY <1>2 DEF NotifyBlockFound, Judged, NotifyWorkValidated, Submitted,
                      Event
        <4>3. "done" \in Phase /\ old.refs - 1 \in Nat
          BY <1>2 DEF Phase
        <4> QED
          BY <1>1, <4>1, <4>2, <4>3, ResultFields
      <3>3. r.phase = "done" /\ r.refs = old.refs - 1 /\ r.story = told
        BY <1>1 DEF Result
      <3> HIDE DEF r
      <3>4. r.refs = 0 /\ r.story \in {old.story, told}
        BY <1>2, <3>3
      <3> QED
        BY <3>1, <3>2, <3>3, <3>4
    <2>2. CASE OnSubmitWorkFailed(id)
      <3> DEFINE r == [old EXCEPT !.phase = "done", !.refs = @ - 1]
      <3>1. results' = [results EXCEPT ![id] = r]
        BY <2>2 DEF OnSubmitWorkFailed
      <3>2. r \in Result
        <4>1. "done" \in Phase /\ old.refs - 1 \in Nat
          BY <1>2 DEF Phase
        <4> QED
          BY <1>1, <4>1, ResultFields
      <3>3. r.phase = "done" /\ r.refs = old.refs - 1 /\ r.story = old.story
        BY <1>1 DEF Result
      <3> HIDE DEF r
      <3>4. r.refs = 0 /\ r.story \in {old.story, told}
        BY <1>2, <3>3
      <3> QED
        BY <3>1, <3>2, <3>3, <3>4
    <2> QED
      BY <2>1, <2>2
  <1>4. PICK i : i = id
    OBVIOUS
  <1>5. Alive(x)
    BY <1>3 DEF Alive
  <1>6. Told(i, x)' /\ \A j : InChain(j) => InChain(j)'
    <2>1. \/ x.story = Judged(TRUE)
          \/ x.story = NotifyBlockFound(Judged(TRUE)) /\ InChain(id)
      BY <1>2, <1>3 DEF IsBlock
    <2> QED
      BY <1>2, <1>3, <1>4, <2>1
      DEF Told, IsAccepted, IsRefused, IdsDecided, InChain
  <1> QED
    BY <1>1, <1>2, <1>3, <1>4, <1>5, <1>6, OneResultChanges

ChainOK == chain \in Seq(Nat)

LEMMA ResultStep ==
  ASSUME ValidatorTypeOK, OnePlaceEach, ResultInv, ChainOK,
         [DanceNext]_poolDanceVars
  PROVE  ResultInv' /\ ChainOK'
  <1>1. chain' \in Seq(Nat) /\ ChainGrows
    BY ChainStep DEF ResultInv, ChainOK
  <1>2. verdicts \subseteq verdicts'
    BY VerdictsStay, DanceStepValidates
  <1>3. ASSUME UNCHANGED <<results, shares>>
        PROVE  ResultInv'
    <2>1. \A i : InChain(i) => InChain(i)'
      BY <1>1, ChainKeeps
    <2> QED
      BY <1>2, <1>3, <2>1, ResultsKept
  <1>4. ASSUME NEW c \in Conn, NEW root \in Root, NEW nonce \in Nonce,
               NEW user \in User, NEW on \in Blocks, NEW intact \in BOOLEAN,
               NEW slot_was_stale \in BOOLEAN,
               PutWork(c, root, nonce, user, on, intact, slot_was_stale)
        PROVE  ResultInv'
    BY <1>2, <1>4, NewResult
  <1>5. ASSUME NEW v \in verdicts, OnValidate(v)
        PROVE  ResultInv'
    BY <1>5, ValidatedResult
  <1>6. ASSUME NEW id \in DOMAIN results
        PROVE  /\ \A found \in BOOLEAN : NodeJudges(id, found) => ResultInv'
               /\ OnSubmitWork(id) => ResultInv'
               /\ OnSubmitWorkFailed(id) => ResultInv'
    BY <1>1, <1>6, JudgedResult, DoneResult DEF ChainOK
  <1>7. UNCHANGED poolDanceVars \/ NodeGrows \/ NoticeBlock \/ ServeItemFails
          \/ MinerTurn => UNCHANGED <<results, shares>>
    BY DEF poolDanceVars, danceVars, validatorVars, shareVars, NodeGrows,
           NoticeBlock, ValidatorNewBlock, ServeItemFails, MinerTurn
  <1>8. /\ \A age, on : ItemArrives(age, on) => UNCHANGED <<results, shares>>
        /\ \A root, user : ServeItem(root, user) => UNCHANGED <<results, shares>>
        /\ \A c : MinerLeaves(c) => UNCHANGED <<results, shares>>
    BY DEF ItemArrives, ServeItem, TrackWorkSent, MinerLeaves, validatorVars,
           shareVars
  <1>9. ValidatorTurn /\ UNCHANGED <<servingVars, danceVars>>
          => UNCHANGED <<results, shares>>
    BY DEF ValidatorTurn, HashAnswer, OnBlockHash, OnBlockHashFailed, ThreadStep,
           ValidateInThread, danceVars, shareVars
  <1>10. ResultInv'
    BY <1>3, <1>4, <1>5, <1>6, <1>7, <1>8, <1>9 DEF DanceNext, ValidateTurn
  <1> QED
    BY <1>1, <1>10 DEF ChainOK

LEMMA ResultInvariant == DanceSpec => [](ResultInv /\ ChainOK)
  <1>1. DanceInit => ResultInv /\ ChainOK
    <2> SUFFICES ASSUME DanceInit
                 PROVE  ResultInv /\ ChainOK
      OBVIOUS
    <2>1. results = <<>> /\ chain = <<0>> /\ shares = 0
      BY DEF DanceInit, ValidatorInit
    <2>2. chain \in Seq(Nat)
      BY <2>1
    <2>3. DOMAIN results = {} /\ results \in Seq(Result) /\ Len(results) = shares
      BY <2>1
    <2> QED
      BY <2>2, <2>3 DEF ResultInv, ResultsOK, ChainOK
  <1>2. ValidatorInv => ValidatorTypeOK
    BY DEF ValidatorInv
  <1> QED
    BY <1>1, <1>2, ResultStep, PoolValidates, ValidatorInvariant, LedgerInvariant,
       PTL DEF DanceSpec

(* A result has a reference for each that will still use it, and is freed by *)
(* the last.                                                                 *)
THEOREM ResultsAreAlive == DanceSpec => []ResultIsAlive
  <1>1. ResultInv => ResultIsAlive
    BY DEF ResultInv, ResultIsAlive, Alive
  <1> QED
    BY <1>1, ResultInvariant, PTL

LEMMA Stories ==
  /\ Submitted = <<"WORK-SUBMITTED">>
  /\ Judged(FALSE) = <<"WORK-SUBMITTED", "WORK-REJECTED">>
  /\ Judged(TRUE) = <<"WORK-SUBMITTED", "WORK-ACCEPTED">>
  /\ NotifyBlockFound(Judged(TRUE))
       = <<"WORK-SUBMITTED", "WORK-ACCEPTED", "BLOCK-FOUND">>
  <1>1. {"WORK-SUBMITTED", "WORK-ACCEPTED", "WORK-REJECTED", "BLOCK-FOUND"}
          \subseteq Event
    BY DEF Event
  <1> QED
    BY <1>1, AppendTuple
    DEF Judged, NotifyWorkValidated, NotifyBlockFound, Submitted

(* What the log tells of a result is what became of it, in order, and a      *)
(* block is reported only of the result the node made it from.               *)
THEOREM StoriesAreTrue == DanceSpec => []ResultStory
  <1>1. ResultInv => ResultStory
    <2> SUFFICES ASSUME ResultInv, NEW id \in DOMAIN results
                 PROVE  LET story == results[id].story
                            Judged0(verdict) == id \in IdsDecided(verdict)
                        IN  \/ story = <<"WORK-SUBMITTED">>
                            \/ /\ story = <<"WORK-SUBMITTED", "WORK-REJECTED">>
                               /\ Judged0(Verdict \ {"success"})
                            \/ /\ story = <<"WORK-SUBMITTED", "WORK-ACCEPTED">>
                               /\ Judged0({"success"})
                            \/ /\ story = <<"WORK-SUBMITTED", "WORK-ACCEPTED",
                                            "BLOCK-FOUND">>
                               /\ Judged0({"success"})
                               /\ \E h \in DOMAIN chain : chain[h] = id
      BY DEF ResultStory
    <2>1. Told(id, results[id]) /\ results[id] \in Result
      BY DEF ResultInv, ResultsOK
    <2>2. \/ results[id].story = Submitted
          \/ results[id].story = Judged(FALSE) /\ IsRefused(id)
          \/ results[id].story = Judged(TRUE) /\ IsAccepted(id)
          \/ /\ results[id].story = NotifyBlockFound(Judged(TRUE))
             /\ IsAccepted(id) /\ InChain(id)
      BY <2>1 DEF Told, Result, Phase
    <2> QED
      BY <2>2, Stories DEF IsRefused, IsAccepted, InChain
  <1> QED
    BY <1>1, ResultInvariant, PTL

-----------------------------------------------------------------------------
(* When things happen.  As long as no two blocks came before one answer, a   *)
(* result builds on no block later than the one the pool is at when it is    *)
(* submitted to the node, and the node makes a block of it only while the    *)
(* pool is still there.                                                      *)

InStep(r) ==
  /\ r.phase \in {"upstream", "found", "refused"} => r.on <= r.submitted_at
  /\ r.phase = "found" => r.on = r.submitted_at
  /\ r.named # 0 => r.on = r.submitted_at /\ r.submitted_at <= r.named

Times(r) ==
  /\ r.submitted_at <= block_num
  /\ r.phase # "done" => r.named = 0
  /\ timing.unanswered < 2 => InStep(r)

(* Once two blocks came before one answer, they always did. *)
StaysInTime == timing'.unanswered < 2 => timing.unanswered < 2

NodeAhead == block_num <= Height /\ Height <= block_num + 1

(* What the validator has of a result is what was submitted. *)
SubmittedBefore ==
  \A s \in Submissions :
    s.id \in DOMAIN results /\ results[s.id].on = s.on /\ s.block <= block_num

TimeInv ==
  /\ NodeAhead
  /\ SubmittedBefore
  /\ \A id \in DOMAIN results : Times(results[id])

LEMMA Numbers ==
  ASSUME ValidatorTypeOK, ResultsOK, ChainOK
  PROVE  /\ block_num \in Nat /\ Height \in Nat
         /\ \A id \in DOMAIN results :
              /\ results[id] \in Result
              /\ results[id].on \in Nat /\ results[id].named \in Nat
              /\ results[id].submitted_at \in Nat
  <1>1. Blocks \subseteq Nat /\ block_num \in Blocks
    BY TypeFacts DEF Blocks, ValidatorTypeOK
  <1>2. Height \in Nat
    BY LenProperties DEF Height, ChainOK
  <1>3. \A id \in DOMAIN results : results[id] \in Result
    BY DEF ResultsOK
  <1>4. \A r \in Result : r.on \in Blocks /\ r.named \in Blocks
                          /\ r.submitted_at \in Blocks
    BY DEF Result
  <1> QED
    BY <1>1, <1>2, <1>3, <1>4

(* Nothing happens to a result while the pool and the node go on. *)
LEMMA TimePasses ==
  ASSUME ValidatorTypeOK, OnePlaceEach, ResultsOK, ChainOK, TimeInv,
         StaysInTime, UNCHANGED results,
         Submissions' = Submissions, block_num' \in Nat, block_num <= block_num',
         NodeAhead'
  PROVE  TimeInv'
  <1>1. ASSUME NEW id \in DOMAIN results
        PROVE  Times(results[id])'
    <2>1. Times(results[id]) /\ results'[id] = results[id]
      BY DEF TimeInv
    <2>2. results[id].submitted_at \in Nat /\ block_num \in Nat
      BY Numbers
    <2> QED
      BY <2>1, <2>2 DEF Times, InStep, StaysInTime
  <1>2. ASSUME NEW s \in Submissions
        PROVE  s.block <= block_num'
    <2>1. s.block <= block_num /\ s.block \in Nat
      <3>1. s \in Share
        BY DEF OnePlaceEach
      <3> QED
        BY <3>1, TypeFacts DEF Share, Blocks, TimeInv, SubmittedBefore
    <2> QED
      BY <2>1, Numbers
  <1>3. SubmittedBefore'
    BY <1>2 DEF TimeInv, SubmittedBefore
  <1> QED
    BY <1>1, <1>3 DEF TimeInv

(* One result changes, not the block it builds on. *)
LEMMA TimeOfOne ==
  ASSUME ResultsOK, TimeInv, NEW id \in DOMAIN results, NEW r,
         results' = [results EXCEPT ![id] = r], r.on = results[id].on,
         UNCHANGED <<block_num, timing, pool, verdicts>>, NodeAhead', Times(r)
  PROVE  TimeInv'
  <1>1. /\ DOMAIN results' = DOMAIN results
        /\ results'[id] = r
        /\ \A i \in DOMAIN results : i # id => results'[i] = results[i]
    BY DEF ResultsOK
  <1>2. \A i \in DOMAIN results' : Times(results[i])'
    BY <1>1 DEF TimeInv, Times, InStep
  <1>3. SubmittedBefore'
    <2>1. Submissions' = Submissions
      BY DEF Submissions
    <2> QED
      BY <1>1, <2>1 DEF TimeInv, SubmittedBefore
  <1> QED
    BY <1>2, <1>3 DEF TimeInv

LEMMA NewTime ==
  ASSUME ValidatorInv, OnePlaceEach, ResultsOK, ChainOK, TimeInv,
         NEW c, NEW root \in Root, NEW nonce \in Nonce, NEW user \in User,
         NEW on \in Blocks, NEW intact \in BOOLEAN, NEW slot_was_stale \in BOOLEAN,
         PutWork(c, root, nonce, user, on, intact, slot_was_stale)
  PROVE  TimeInv'
  <1> DEFINE r == [on |-> on, refs |-> 2, phase |-> "validating",
                   honest |-> Honest(root, user, on, intact),
                   story |-> NotifyWorkSubmitted(StoryOnReturn),
                   submitted_at |-> 0, named |-> 0]
  <1>1. /\ results' = Append(results, r)
        /\ Submit(root, nonce, user, on, intact, slot_was_stale)
        /\ UNCHANGED <<chain, block_num, timing>>
    BY DEF PutWork, Submit, hashVars
  <1>a. PICK marked \in BOOLEAN :
          Submissions' = Submissions
                           \union {Handed(root, nonce, user, on, marked)}
    BY <1>1, LedgerSubmit
  <1> DEFINE s == Handed(root, nonce, user, on, marked)
  <1>2. Submissions' = Submissions \union {s}
    BY <1>a
  <1>3. /\ s.id = shares + 1 /\ s.on = on /\ s.block = block_num
        /\ r.on = on /\ r.phase = "validating" /\ r.named = 0 /\ r.submitted_at = 0
    BY DEF Handed
  <1>4. block_num \in Nat /\ shares \in Nat
    BY TypeFacts DEF ValidatorInv
  <1> HIDE DEF r, s
  <1>5. /\ DOMAIN results = 1 .. shares /\ DOMAIN results' = 1 .. shares + 1
        /\ results'[shares + 1] = r
        /\ \A i \in 1 .. shares : results'[i] = results[i]
    BY <1>1 DEF ResultsOK
  <1>6. Times(r)
    BY <1>3, <1>4 DEF Times, InStep
  <1>7. \A i \in DOMAIN results' : Times(results[i])'
    <2>1. \A i \in 1 .. shares : Times(results[i])'
      BY <1>1, <1>5 DEF Times, InStep, TimeInv
    <2>2. ASSUME NEW i, i = shares + 1
          PROVE  Times(results[i])'
      BY <1>1, <1>5, <1>6, <2>2 DEF Times, InStep
    <2>3. \A i \in DOMAIN results' : i \in 1 .. shares \/ i = shares + 1
      BY <1>4, <1>5
    <2> QED
      BY <2>1, <2>2, <2>3
  <1>8. SubmittedBefore'
    <2> SUFFICES ASSUME NEW t \in Submissions'
                 PROVE  /\ t.id \in DOMAIN results' /\ results'[t.id].on = t.on
                        /\ t.block <= block_num'
      BY DEF SubmittedBefore
    <2>1. CASE t = s
      BY <1>1, <1>3, <1>4, <1>5, <2>1
    <2>2. CASE t \in Submissions
      <3>1. /\ t.id \in 1 .. shares /\ results[t.id].on = t.on
            /\ t.block <= block_num
        BY <1>5, <2>2 DEF TimeInv, SubmittedBefore
      <3> QED
        BY <1>1, <1>4, <1>5, <3>1
    <2> QED
      BY <1>2, <2>1, <2>2
  <1> QED
    BY <1>1, <1>7, <1>8 DEF TimeInv, NodeAhead, Height

LEMMA ValidatedTime ==
  ASSUME ValidatorTypeOK, OnePlaceEach, CandidatesOnBlock, ResultsOK, ChainOK,
         TimeInv, NEW v \in verdicts, OnValidate(v)
  PROVE  TimeInv'
  <1> DEFINE id == v.share.id
             accepted == v.verdict = "success"
             old == results[id]
             r == [old EXCEPT
                     !.phase = IF accepted THEN "upstream" ELSE "done",
                     !.story = NotifyWorkValidated(@, accepted),
                     !.submitted_at = IF accepted THEN block_num ELSE 0,
                     !.refs = IF accepted THEN RefsOnceAccepted(@) ELSE @ - 2]
  <1>1. /\ v.share \in Submissions /\ v.share \in Share
        /\ id \in DOMAIN results /\ old.on = v.share.on
        /\ v.share.block <= block_num
    BY DEF Submissions, OnePlaceEach, TimeInv, SubmittedBefore
  <1>2. /\ old \in Result /\ old.on \in Nat /\ block_num \in Nat
        /\ v.share.block \in Nat
    BY <1>1, Numbers, TypeFacts DEF Share, Blocks
  <1>3. /\ results' = [results EXCEPT ![id] = r]
        /\ old.phase = "validating"
        /\ UNCHANGED <<chain, block_num, timing, pool, verdicts>>
    BY <1>1 DEF OnValidate, validatorVars, shareVars, hashVars
  <1>4. /\ r.on = old.on /\ r.named = old.named
        /\ r.phase = IF accepted THEN "upstream" ELSE "done"
        /\ r.submitted_at = IF accepted THEN block_num ELSE 0
    BY <1>2 DEF Result
  <1>5. old.named = 0
    BY <1>1, <1>3 DEF TimeInv, Times
  <1>6. accepted /\ timing.unanswered < 2 => old.on <= block_num
    <2> SUFFICES ASSUME accepted, timing.unanswered < 2 PROVE old.on <= block_num
      OBVIOUS
    <2>1. v.share.on <= v.share.block
      BY DEF CandidatesOnBlock, OnBlock, Candidates, Accepted
    <2> QED
      BY <1>1, <1>2, <2>1
  <1> HIDE DEF r, id, accepted
  <1>7. Times(r)
    BY <1>2, <1>4, <1>5, <1>6 DEF Times, InStep
  <1>8. NodeAhead'
    BY <1>3 DEF TimeInv, NodeAhead, Height
  <1> QED
    BY <1>1, <1>3, <1>4, <1>7, <1>8, TimeOfOne

(* The node extends its chain by a result only where its chain ends, and     *)
(* while the pool is at the end of it too.                                   *)
LEMMA JudgedTime ==
  ASSUME ValidatorTypeOK, ResultsOK, ChainOK, TimeInv,
         NEW id \in DOMAIN results, NEW found \in BOOLEAN, NodeJudges(id, found)
  PROVE  TimeInv'
  <1> DEFINE old == results[id]
             r == [old EXCEPT !.phase = IF found THEN "found" ELSE "refused"]
  <1>1. /\ results' = [results EXCEPT ![id] = r]
        /\ old.phase = "upstream"
        /\ found => old.on = Height /\ Height = block_num
        /\ chain' = IF found THEN Append(chain, id) ELSE chain
        /\ UNCHANGED <<block_num, timing, pool, verdicts>>
    BY DEF NodeJudges, validatorVars, shareVars, hashVars
  <1>2. /\ old \in Result /\ old.on \in Nat /\ old.submitted_at \in Nat
        /\ block_num \in Nat /\ Height \in Nat
    BY Numbers
  <1>3. /\ r.on = old.on /\ r.named = old.named
        /\ r.submitted_at = old.submitted_at
        /\ r.phase = IF found THEN "found" ELSE "refused"
    BY <1>2 DEF Result
  <1>4. /\ old.named = 0 /\ old.submitted_at <= block_num
        /\ timing.unanswered < 2 => old.on <= old.submitted_at
        /\ block_num <= Height /\ Height <= block_num + 1
    BY <1>1 DEF TimeInv, Times, InStep, NodeAhead
  <1>5. found => /\ timing.unanswered < 2 => old.on = old.submitted_at
                 /\ Height = block_num
    BY <1>1, <1>2, <1>4
  <1> HIDE DEF r
  <1>6. Times(r)
    BY <1>3, <1>4, <1>5 DEF Times, InStep
  <1>7. NodeAhead'
    <2>1. found => Height' = Height + 1
      <3>1. id \in Nat
        BY LenProperties DEF ResultsOK
      <3> QED
        BY <1>1, <3>1, AppendProperties DEF Height, ChainOK
    <2>2. ~ found => Height' = Height
      BY <1>1 DEF Height
    <2> QED
      BY <1>1, <1>2, <1>4, <1>5, <2>1, <2>2 DEF NodeAhead
  <1> QED
    BY <1>1, <1>3, <1>6, <1>7, TimeOfOne

LEMMA DoneTime ==
  ASSUME ValidatorTypeOK, ResultsOK, ChainOK, TimeInv,
         NEW id \in DOMAIN results, OnSubmitWork(id) \/ OnSubmitWorkFailed(id)
  PROVE  TimeInv'
  <1> DEFINE old == results[id]
  <1>1. /\ old \in Result /\ old.on \in Nat /\ old.submitted_at \in Nat
        /\ block_num \in Nat
    BY Numbers
  <1>2. /\ old.phase \in {"upstream", "found", "refused"}
        /\ UNCHANGED <<chain, block_num, timing, pool, verdicts>>
    BY DEF OnSubmitWork, OnSubmitWorkFailed, validatorVars, shareVars, hashVars
  <1>3. Times(old) /\ old.named = 0
    BY <1>2 DEF TimeInv, Times
  <1>4. NodeAhead'
    BY <1>2 DEF TimeInv, NodeAhead, Height
  <1>5. CASE OnSubmitWork(id)
    <2> DEFINE r == [old EXCEPT
                       !.phase = "done",
                       !.story = IF IsBlock(old.phase)
                                 THEN NotifyBlockFound(@) ELSE @,
                       !.named = IF IsBlock(old.phase) THEN block_num ELSE 0,
                       !.refs = @ - 1]
    <2>1. results' = [results EXCEPT ![id] = r]
      BY <1>5 DEF OnSubmitWork
    <2>2. /\ r.on = old.on /\ r.submitted_at = old.submitted_at
          /\ r.phase = "done"
          /\ r.named = IF old.phase = "found" THEN block_num ELSE 0
      BY <1>1 DEF Result, IsBlock
    <2> HIDE DEF r
    <2>3. Times(r)
      BY <1>1, <1>3, <2>2 DEF Times, InStep
    <2> QED
      BY <1>2, <1>4, <2>1, <2>2, <2>3, TimeOfOne
  <1>6. CASE OnSubmitWorkFailed(id)
    <2> DEFINE r == [old EXCEPT !.phase = "done", !.refs = @ - 1]
    <2>1. results' = [results EXCEPT ![id] = r]
      BY <1>6 DEF OnSubmitWorkFailed
    <2>2. /\ r.on = old.on /\ r.submitted_at = old.submitted_at
          /\ r.phase = "done" /\ r.named = old.named
      BY <1>1 DEF Result
    <2> HIDE DEF r
    <2>3. Times(r)
      BY <1>3, <2>2 DEF Times, InStep
    <2> QED
      BY <1>2, <1>4, <2>1, <2>2, <2>3, TimeOfOne
  <1> QED
    BY <1>5, <1>6

LEMMA InTimeStep ==
  ASSUME ValidatorTypeOK, [ValidatorNext]_validatorVars
  PROVE  StaysInTime
  <1>1. UNCHANGED hashVars => StaysInTime
    BY DEF hashVars, StaysInTime
  <1>2. \A root, user : TrackWorkSent(root, user) => UNCHANGED hashVars
    BY DEF TrackWorkSent
  <1>3. \A root, nonce, user, on, intact, slot_was_stale :
          Submit(root, nonce, user, on, intact, slot_was_stale)
            => UNCHANGED hashVars
    BY DEF Submit
  <1>4. ThreadStep \/ UNCHANGED validatorVars => UNCHANGED hashVars
    BY DEF ThreadStep, ValidateInThread, validatorVars
  <1>5. ValidatorNewBlock \/ HashAnswer => StaysInTime
    BY OvertakenStays DEF StaysInTime
  <1> QED
    BY <1>1, <1>2, <1>3, <1>4, <1>5 DEF ValidatorNext

LEMMA TimeStep ==
  ASSUME ValidatorInv, OnePlaceEach, CandidatesOnBlock, ResultsOK, ChainOK,
         TimeInv, [DanceNext]_poolDanceVars
  PROVE  TimeInv'
  <1>a. ValidatorTypeOK
    BY DEF ValidatorInv
  <1>b. block_num \in Nat /\ Height \in Nat
    BY <1>a, Numbers
  <1>c. StaysInTime
    BY DanceStepValidates, InTimeStep DEF ValidatorInv
  <1>1. ASSUME UNCHANGED <<results, chain, block_num>>, Submissions' = Submissions
        PROVE  TimeInv'
    <2>1. NodeAhead'
      BY <1>1 DEF TimeInv, NodeAhead, Height
    <2> QED
      BY <1>a, <1>b, <1>c, <1>1, <2>1, TimePasses
  <1>2. ASSUME UNCHANGED <<results, chain, block_num, pool, verdicts>>
        PROVE  TimeInv'
    <2>1. Submissions' = Submissions
      BY <1>2 DEF Submissions
    <2> QED
      BY <1>1, <1>2, <2>1
  <1>3. CASE NodeGrows
    <2>1. /\ UNCHANGED <<results, block_num, pool, verdicts>>
          /\ Height = block_num /\ chain' = Append(chain, 0)
      BY <1>3 DEF NodeGrows, validatorVars, shareVars, hashVars
    <2>2. Height' = Height + 1
      BY <2>1, AppendProperties DEF Height, ChainOK
    <2>3. NodeAhead'
      BY <1>b, <2>1, <2>2 DEF NodeAhead
    <2>4. Submissions' = Submissions
      BY <2>1 DEF Submissions
    <2> QED
      BY <1>a, <1>b, <1>c, <2>1, <2>3, <2>4, TimePasses
  <1>4. CASE NoticeBlock
    <2>1. /\ UNCHANGED <<results, chain, pool, verdicts>>
          /\ block_num < Height /\ block_num' = block_num + 1
      BY <1>4 DEF NoticeBlock, ValidatorNewBlock, shareVars
    <2>2. NodeAhead'
      <3>1. Height' = Height
        BY <2>1 DEF Height
      <3> QED
        BY <1>b, <2>1, <3>1 DEF NodeAhead, TimeInv
    <2>3. Submissions' = Submissions
      BY <2>1 DEF Submissions
    <2> QED
      BY <1>a, <1>b, <1>c, <2>1, <2>2, <2>3, TimePasses
  <1>5. \/ UNCHANGED poolDanceVars \/ ServeItemFails \/ MinerTurn
        \/ \E age \in Age, on \in Blocks : ItemArrives(age, on)
        \/ \E root \in Root, user \in User : ServeItem(root, user)
        \/ \E c \in Conn : MinerLeaves(c)
        \/ HashAnswer /\ UNCHANGED <<servingVars, danceVars>>
        => UNCHANGED <<results, chain, block_num, pool, verdicts>>
    BY DEF poolDanceVars, danceVars, validatorVars, shareVars, hashVars,
           ServeItemFails, MinerTurn, ItemArrives, ServeItem, TrackWorkSent,
           MinerLeaves, HashAnswer, OnBlockHash, OnBlockHashFailed
  <1>6. CASE ThreadStep /\ UNCHANGED <<servingVars, danceVars>>
    <2>1. UNCHANGED <<results, chain, block_num>>
      BY <1>6 DEF danceVars, ThreadStep, ValidateInThread, hashVars
    <2>2. Submissions' = Submissions
      BY <1>6, LedgerThread
    <2> QED
      BY <1>1, <2>1, <2>2
  <1>7. ASSUME NEW c \in Conn, NEW root \in Root, NEW nonce \in Nonce,
               NEW user \in User, NEW on \in Blocks, NEW intact \in BOOLEAN,
               NEW slot_was_stale \in BOOLEAN,
               PutWork(c, root, nonce, user, on, intact, slot_was_stale)
        PROVE  TimeInv'
    BY <1>7, NewTime
  <1>8. ASSUME NEW v \in verdicts, OnValidate(v)
        PROVE  TimeInv'
    BY <1>a, <1>8, ValidatedTime
  <1>9. ASSUME NEW id \in DOMAIN results
        PROVE  /\ \A found \in BOOLEAN : NodeJudges(id, found) => TimeInv'
               /\ OnSubmitWork(id) => TimeInv'
               /\ OnSubmitWorkFailed(id) => TimeInv'
    BY <1>a, <1>9, JudgedTime, DoneTime
  <1> QED
    BY <1>2, <1>3, <1>4, <1>5, <1>6, <1>7, <1>8, <1>9
    DEF DanceNext, ValidatorTurn, ValidateTurn

LEMMA TimeInvariant == DanceSpec => []TimeInv
  <1>1. DanceInit => TimeInv
    <2> SUFFICES ASSUME DanceInit
                 PROVE  TimeInv
      OBVIOUS
    <2>1. /\ chain = <<0>> /\ block_num = 0 /\ DOMAIN results = {}
          /\ pool = <<>> /\ verdicts = {}
      BY DEF DanceInit, ValidatorInit
    <2>2. Height = 1 /\ Submissions = {}
      BY <2>1 DEF Height, Submissions
    <2> QED
      BY <2>1, <2>2 DEF TimeInv, NodeAhead, SubmittedBefore
  <1>2. ResultInv => ResultsOK
    BY DEF ResultInv
  <1> QED
    BY <1>1, <1>2, TimeStep, PoolValidates, ValidatorInvariant, LedgerInvariant,
       OnBlockInvariant, ResultInvariant, PTL DEF DanceSpec

(* A block found is reported for the block it extends, or late for a later   *)
(* one, as long as no two blocks came before one answer to getblockhash.     *)
THEOREM FoundAreNamed == DanceSpec => []FoundIsNamed
  <1>1. ValidatorTypeOK /\ ResultsOK /\ ChainOK /\ TimeInv => FoundIsNamed
    BY Numbers DEF TimeInv, Times, InStep, FoundIsNamed
  <1>2. ValidatorInv => ValidatorTypeOK
    BY DEF ValidatorInv
  <1>3. ResultInv => ResultsOK
    BY DEF ResultInv
  <1> QED
    BY <1>1, <1>2, <1>3, TimeInvariant, PoolValidates, ValidatorInvariant,
       ResultInvariant, PTL

-----------------------------------------------------------------------------
(* Credit.  A result is told to be accepted only after the validator said    *)
(* so, once for a nonce of an item and of the miner it was served to; and    *)
(* the node has results only from submissions, which follow that telling.    *)

Paid(r) == r.story \in {Judged(TRUE), NotifyBlockFound(Judged(TRUE))}

ChainPaid ==
  \A h \in DOMAIN chain :
    chain[h] # 0 => chain[h] \in DOMAIN results /\ Paid(results[chain[h]])

LEMMA StoriesTell ==
  /\ \A i \in DOMAIN Submitted : Submitted[i] # "WORK-ACCEPTED"
  /\ \A i \in DOMAIN Judged(FALSE) : Judged(FALSE)[i] # "WORK-ACCEPTED"
  /\ 2 \in DOMAIN Judged(TRUE) /\ Judged(TRUE)[2] = "WORK-ACCEPTED"
  /\ 2 \in DOMAIN NotifyBlockFound(Judged(TRUE))
  /\ NotifyBlockFound(Judged(TRUE))[2] = "WORK-ACCEPTED"
  <1>1. ASSUME NEW s, s = <<"WORK-SUBMITTED">>, NEW i \in DOMAIN s
        PROVE  s[i] # "WORK-ACCEPTED"
    BY <1>1
  <1>2. ASSUME NEW s, s = <<"WORK-SUBMITTED", "WORK-REJECTED">>, NEW i \in DOMAIN s
        PROVE  s[i] # "WORK-ACCEPTED"
    BY <1>2
  <1>3. ASSUME NEW s, s = <<"WORK-SUBMITTED", "WORK-ACCEPTED">>
        PROVE  2 \in DOMAIN s /\ s[2] = "WORK-ACCEPTED"
    BY <1>3
  <1>4. ASSUME NEW s, s = <<"WORK-SUBMITTED", "WORK-ACCEPTED", "BLOCK-FOUND">>
        PROVE  2 \in DOMAIN s /\ s[2] = "WORK-ACCEPTED"
    BY <1>4
  <1> QED
    BY <1>1, <1>2, <1>3, <1>4, Stories, Zenon

LEMMA CreditedFacts ==
  ASSUME ResultInv, NEW id \in DOMAIN results
  PROVE  /\ Credited(id) => IsAccepted(id)
         /\ Paid(results[id]) => Credited(id)
  <1>1. \/ results[id].story = Submitted
        \/ results[id].story = Judged(FALSE)
        \/ IsAccepted(id)
    <2>1. Told(id, results[id]) /\ results[id] \in Result
      BY DEF ResultInv, ResultsOK
    <2> QED
      BY <2>1 DEF Told, Result, Phase
  <1>2. Credited(id) => IsAccepted(id)
    BY <1>1, StoriesTell, Zenon DEF Credited, Tells
  <1>3. Paid(results[id]) => Credited(id)
    BY StoriesTell, Zenon DEF Paid, Credited, Tells
  <1> QED
    BY <1>2, <1>3

LEMMA PaidStays ==
  ASSUME ResultInv, NEW i \in DOMAIN results, Paid(results[i]),
         [DanceNext]_poolDanceVars
  PROVE  i \in DOMAIN results' /\ Paid(results'[i])
  <1>a. results \in Seq(Result) /\ results[i] \in Result /\ Told(i, results[i])
    BY DEF ResultInv, ResultsOK
  <1>1. CASE UNCHANGED results
    BY <1>1
  <1>2. ASSUME NEW c, NEW root, NEW nonce, NEW user, NEW on \in Blocks,
               NEW intact \in BOOLEAN, NEW slot_was_stale,
               PutWork(c, root, nonce, user, on, intact, slot_was_stale)
        PROVE  i \in DOMAIN results' /\ Paid(results'[i])
    <2>1. PICK r : results' = Append(results, r)
      BY <1>2 DEF PutWork
    <2>2. i \in 1 .. Len(results) /\ Len(results) \in Nat
      BY <1>a
    <2>3. DOMAIN results' = 1 .. Len(results) + 1 /\ results'[i] = results[i]
      BY <2>1, <2>2 DEF Append
    <2> QED
      BY <2>2, <2>3
  <1>3. ASSUME NEW v \in verdicts, OnValidate(v)
        PROVE  i \in DOMAIN results' /\ Paid(results'[i])
    <2>1. /\ results[v.share.id].phase = "validating"
          /\ \E r : results' = [results EXCEPT ![v.share.id] = r]
      BY <1>3 DEF OnValidate
    <2>2. i # v.share.id
      <3>1. results[i].phase # "validating"
        BY <1>a, StoriesTell, Zenon DEF Told, Paid
      <3> QED
        BY <2>1, <3>1
    <2> QED
      BY <2>1, <2>2
  <1>4. ASSUME NEW id \in DOMAIN results, NEW found \in BOOLEAN,
               NodeJudges(id, found)
        PROVE  i \in DOMAIN results' /\ Paid(results'[i])
    BY <1>4, <1>a DEF NodeJudges, Paid, Result
  <1>5. ASSUME NEW id \in DOMAIN results, OnSubmitWork(id)
        PROVE  i \in DOMAIN results' /\ Paid(results'[i])
    <2>1. CASE i # id
      BY <1>5, <2>1 DEF OnSubmitWork
    <2>2. CASE i = id
      <3>1. results[i].story = Judged(TRUE)
        BY <1>5, <1>a, <2>2 DEF OnSubmitWork, Told
      <3>2. /\ i \in DOMAIN results'
            /\ results'[i].story \in
                 {results[i].story, NotifyBlockFound(results[i].story)}
        BY <1>5, <1>a, <2>2 DEF OnSubmitWork, Result
      <3> QED
        BY <3>1, <3>2 DEF Paid
    <2> QED
      BY <2>1, <2>2
  <1>6. ASSUME NEW id \in DOMAIN results, OnSubmitWorkFailed(id)
        PROVE  i \in DOMAIN results' /\ Paid(results'[i])
    BY <1>6, <1>a DEF OnSubmitWorkFailed, Paid, Result
  <1>7. UNCHANGED poolDanceVars \/ NodeGrows \/ NoticeBlock \/ ServeItemFails
          \/ MinerTurn \/ (ValidatorTurn /\ UNCHANGED <<servingVars, danceVars>>)
          => UNCHANGED results
    BY DEF poolDanceVars, danceVars, NodeGrows, NoticeBlock, ServeItemFails,
           MinerTurn
  <1>8. /\ \A age, on : ItemArrives(age, on) => UNCHANGED results
        /\ \A root, user : ServeItem(root, user) => UNCHANGED results
        /\ \A c : MinerLeaves(c) => UNCHANGED results
    BY DEF ItemArrives, ServeItem, MinerLeaves
  <1> QED
    BY <1>1, <1>2, <1>3, <1>4, <1>5, <1>6, <1>7, <1>8 DEF DanceNext, ValidateTurn

LEMMA ChainPaidStep ==
  ASSUME ResultInv, ChainOK, ChainPaid, [DanceNext]_poolDanceVars
  PROVE  ChainPaid'
  <1>a. \A i \in DOMAIN results :
          Paid(results[i]) => i \in DOMAIN results' /\ Paid(results'[i])
    BY PaidStays
  <1>1. CASE UNCHANGED chain
    BY <1>a, <1>1 DEF ChainPaid, Paid
  <1>2. ASSUME NEW b, chain' = Append(chain, b),
               b # 0 => b \in DOMAIN results /\ Paid(results[b])
        PROVE  ChainPaid'
    <2>1. /\ DOMAIN chain = 1 .. Len(chain) /\ Len(chain) \in Nat
          /\ DOMAIN chain' = 1 .. Len(chain) + 1
          /\ \A h \in 1 .. Len(chain) : chain'[h] = chain[h]
          /\ chain'[Len(chain) + 1] = b
      BY <1>2 DEF ChainOK
    <2>2. \A h \in DOMAIN chain' : h \in DOMAIN chain \/ h = Len(chain) + 1
      BY <2>1
    <2> QED
      BY <1>a, <1>2, <2>1, <2>2 DEF ChainPaid, Paid
  <1>3. CASE NodeGrows
    BY <1>2, <1>3 DEF NodeGrows
  <1>4. ASSUME NEW id \in DOMAIN results, NEW found \in BOOLEAN,
               NodeJudges(id, found)
        PROVE  ChainPaid'
    <2>1. Paid(results[id])
      BY <1>4 DEF NodeJudges, ResultInv, Told, Paid
    <2> QED
      BY <1>1, <1>2, <1>4, <2>1 DEF NodeJudges
  <1> QED
    BY <1>1, <1>3, <1>4, ChainChanges

(* What the log credits is earned: served to that very miner at the block it *)
(* was submitted at, and credited once; and every block the pool has in the  *)
(* chain was credited.  Nothing is supposed of when the node answers.        *)
THEOREM CreditsAreEarned == DanceSpec => []CreditIsEarned
  <1>1. DanceInit => ChainPaid
    BY DEF DanceInit, ChainPaid
  <1>2. DanceSpec => []ChainPaid
    BY <1>1, ChainPaidStep, ResultInvariant, PTL DEF DanceSpec
  <1>3. ASSUME ValidatorInv, OnePlaceEach, AcceptInv, ResultInv, ChainPaid
        PROVE  CreditIsEarned
    <2>1. ASSUME NEW s \in Submissions, Credited(s.id)
          PROVE  s \in Candidates
      <3>1. s.id \in DOMAIN results
        <4>1. s.id \in 1 .. shares
          BY <1>3 DEF OnePlaceEach
        <4> QED
          BY <1>3, <4>1 DEF ResultInv, ResultsOK
      <3>2. PICK v \in verdicts : v.verdict = "success" /\ v.share.id = s.id
        BY <1>3, <2>1, <3>1, CreditedFacts DEF IsAccepted, IdsDecided
      <3>3. v.share = s
        BY <1>3, <3>2 DEF OnePlaceEach, Submissions
      <3> QED
        BY <3>2, <3>3 DEF Candidates, Accepted
    <2>2. \A s \in Submissions : Credited(s.id) => ServedTo(s)
      BY <1>3, <2>1 DEF AcceptInv, CandidatesServed
    <2>3. \A s, t \in Submissions :
            /\ Credited(s.id) /\ Credited(t.id)
            /\ t.root = s.root /\ t.nonce = s.nonce
            => t.id = s.id
      BY <1>3, <2>1 DEF ValidatorInv, CandidatesOnce
    <2>4. \A h \in DOMAIN chain : chain[h] # 0 => Credited(chain[h])
      BY <1>3, CreditedFacts DEF ChainPaid
    <2> QED
      BY <2>2, <2>3, <2>4 DEF CreditIsEarned, ServedTo
  <1> QED
    BY <1>2, <1>3, PoolValidates, ValidatorInvariant, LedgerInvariant,
       AcceptInvariant, ResultInvariant, PTL

(* The ledger is kept in the pool as a whole: what main.c does with a        *)
(* verdict neither takes one back nor gives another.                         *)
THEOREM PoolKeepsLedger == DanceSpec => KeepsLedger
  BY PoolValidates, LedgerIsKept

(* What the log tells is a ledger of its own, kept a callback after that of  *)
(* the validator.                                                            *)
ToldIds(event) == {id \in DOMAIN results : Tells(id, event)}

ToldLedger == INSTANCE ShareLedger WITH
  Id        <- 1 .. MaxShares,
  Item      <- Root \X Nonce,
  submitted <- {Receipt(s) : s \in Submissions},
  accepted  <- ToldIds("WORK-ACCEPTED"),
  refused   <- ToldIds("WORK-REJECTED")

Deciding == {"WORK-ACCEPTED", "WORK-REJECTED"}

Says(story, event) == \E i \in DOMAIN story : story[i] = event

(* What the four stories say of the decision. *)
LEMMA StoriesSay ==
  ASSUME NEW event \in Deciding
  PROVE  /\ ~ Says(Submitted, event)
         /\ Says(Judged(TRUE), event) <=> event = "WORK-ACCEPTED"
         /\ Says(Judged(FALSE), event) <=> event = "WORK-REJECTED"
         /\ Says(NotifyBlockFound(Judged(TRUE)), event) <=> event = "WORK-ACCEPTED"
  <1>1. ASSUME NEW s, s = <<"WORK-SUBMITTED">>
        PROVE  ~ Says(s, event)
    BY <1>1 DEF Says, Deciding
  <1>2. ASSUME NEW e, NEW s, s = <<"WORK-SUBMITTED", e>>
        PROVE  Says(s, event) <=> event = e
    <2>1. DOMAIN s = {1, 2} /\ s[1] # event /\ s[2] = e
      BY <1>2 DEF Deciding
    <2> QED
      BY <2>1 DEF Says
  <1>3. ASSUME NEW s, s = <<"WORK-SUBMITTED", "WORK-ACCEPTED", "BLOCK-FOUND">>
        PROVE  Says(s, event) <=> event = "WORK-ACCEPTED"
    <2>1. DOMAIN s = {1, 2, 3} /\ s[1] # event /\ s[2] = "WORK-ACCEPTED"
          /\ s[3] # event
      BY <1>3 DEF Deciding
    <2> QED
      BY <2>1 DEF Says
  <1> QED
    BY <1>1, <1>2, <1>3, Stories, Zenon

(* Nothing decided: the log says of each result what it said before. *)
LEMMA NothingTold ==
  ASSUME UNCHANGED <<pool, verdicts>>, DOMAIN results' = DOMAIN results,
         \A i \in DOMAIN results, event \in Deciding :
           Says(results'[i].story, event) <=> Says(results[i].story, event)
  PROVE  UNCHANGED ToldLedger!ledgerVars
  <1>1. Submissions' = Submissions
    BY DEF Submissions
  <1>2. ASSUME NEW event \in Deciding
        PROVE  ToldIds(event)' = ToldIds(event)
    BY <1>2 DEF ToldIds, Tells, Says
  <1>3. ToldIds("WORK-ACCEPTED")' = ToldIds("WORK-ACCEPTED")
    BY <1>2 DEF Deciding
  <1>4. ToldIds("WORK-REJECTED")' = ToldIds("WORK-REJECTED")
    BY <1>2 DEF Deciding
  <1> QED
    BY <1>1, <1>3, <1>4 DEF ToldLedger!ledgerVars

(* A result handed in is not decided in the log, were it refused at once. *)
LEMMA ToldHandIn ==
  ASSUME ValidatorInv, OnePlaceEach, ResultInv, NEW c \in Conn, NEW root \in Root,
         NEW nonce \in Nonce, NEW user \in User, NEW on \in Blocks,
         NEW intact \in BOOLEAN, NEW slot_was_stale \in BOOLEAN,
         PutWork(c, root, nonce, user, on, intact, slot_was_stale)
  PROVE  ToldLedger!LedgerNext
  <1>a. PICK marked \in BOOLEAN :
          Submissions' = Submissions
                           \union {Handed(root, nonce, user, on, marked)}
    BY LedgerSubmit DEF PutWork
  <1> DEFINE s == Handed(root, nonce, user, on, marked)
  <1>1. Submissions' = Submissions \union {s}
    BY <1>a
  <1>2. /\ shares \in Nat /\ shares < MaxShares /\ MaxShares \in Nat
        /\ s.id = shares + 1 /\ s.root = root /\ s.nonce = nonce
    BY TypeFacts, Numbers DEF ValidatorInv, PutWork, Submit, Handed
  <1> HIDE DEF s
  <1>3. \A t \in Submissions : t.id # s.id
    BY <1>2 DEF OnePlaceEach
  <1>4. PICK r : results' = Append(results, r) /\ r.story = Submitted
    BY StoryBegins DEF PutWork, Submitted
  <1>5. /\ results \in Seq(Result) /\ Len(results) \in Nat
        /\ DOMAIN results = 1 .. Len(results)
        /\ DOMAIN results' = 1 .. Len(results) + 1
        /\ results'[Len(results) + 1] = r
        /\ \A i \in 1 .. Len(results) : results'[i] = results[i]
    BY <1>4 DEF ResultInv, ResultsOK
  <1>6. ASSUME NEW event \in Deciding
        PROVE  ToldIds(event)' = ToldIds(event)
    <2>1. ~ Says(results'[Len(results) + 1].story, event)
      BY <1>4, <1>5, StoriesSay
    <2>2. \A i \in DOMAIN results' : i \in DOMAIN results \/ i = Len(results) + 1
      BY <1>5
    <2> QED
      BY <1>5, <2>1, <2>2 DEF ToldIds, Tells, Says
  <1>7. /\ ToldIds("WORK-ACCEPTED")' = ToldIds("WORK-ACCEPTED")
        /\ ToldIds("WORK-REJECTED")' = ToldIds("WORK-REJECTED")
    BY <1>6 DEF Deciding
  <1>8. {Receipt(t) : t \in Submissions'} =
          {Receipt(t) : t \in Submissions}
            \union {[id |-> s.id, item |-> <<root, nonce>>]}
    BY <1>1, <1>2 DEF Receipt
  <1>9. ToldLedger!HandIn(s.id, <<root, nonce>>)
    BY <1>3, <1>7, <1>8 DEF ToldLedger!HandIn, Receipt
  <1>10. s.id \in 1 .. MaxShares /\ <<root, nonce>> \in Root \X Nonce
    BY <1>2
  <1> QED
    BY <1>9, <1>10 DEF ToldLedger!LedgerNext

(* The log follows a verdict: the result was undecided in it, and an item    *)
(* accepted is accepted there for the first time.                            *)
LEMMA ToldDecide ==
  ASSUME ValidatorInv, OnePlaceEach, ResultInv, NEW v \in verdicts, OnValidate(v)
  PROVE  ToldLedger!LedgerNext
  <1> DEFINE s == v.share
             id == s.id
             accepted == v.verdict = "success"
             R == Receipt(s)
  <1>1. s \in Submissions
    BY DEF Submissions
  <1>2. id \in 1 .. MaxShares /\ id \in 1 .. shares
        /\ R \in {Receipt(t) : t \in Submissions}
        /\ R.id = id /\ R.item = <<s.root, s.nonce>>
    BY <1>1 DEF OnePlaceEach, Share, Receipt
  <1>3. /\ results \in Seq(Result) /\ id \in DOMAIN results
        /\ results[id] \in Result /\ results[id].story = Submitted
    <2>1. /\ results \in Seq(Result) /\ id \in DOMAIN results
          /\ results[id] \in Result
      BY <1>2 DEF ResultInv, ResultsOK
    <2>2. Told(id, results[id]) /\ results[id].phase = "validating"
      BY <2>1 DEF ResultInv, OnValidate
    <2> QED
      BY <2>1, <2>2 DEF Told
  <1>4. /\ DOMAIN results' = DOMAIN results
        /\ results'[id].story = Judged(accepted)
        /\ \A i \in DOMAIN results : i # id => results'[i] = results[i]
    BY <1>3 DEF OnValidate, Result, Judged
  <1>5. Submissions' = Submissions
    BY DEF OnValidate, validatorVars, shareVars, Submissions
  <1>6. {Receipt(t) : t \in Submissions'} = {Receipt(t) : t \in Submissions}
    BY <1>5
  <1>7. /\ id \notin ToldIds("WORK-ACCEPTED")
        /\ id \notin ToldIds("WORK-REJECTED")
    BY <1>3, StoriesSay DEF ToldIds, Tells, Says, Deciding
  <1>8. ASSUME NEW event \in Deciding
        PROVE  ToldIds(event)' =
                 IF Says(Judged(accepted), event) THEN ToldIds(event) \union {id}
                                                  ELSE ToldIds(event)
    <2>1. id \notin ToldIds(event)
      BY <1>7 DEF Deciding
    <2> QED
      BY <1>3, <1>4, <2>1 DEF ToldIds, Tells, Says
  <1>9. ToldLedger!Undecided(R)
    BY <1>2, <1>7 DEF ToldLedger!Undecided
  <1>10. CASE ~ accepted
    <2>1. /\ ToldIds("WORK-ACCEPTED")' = ToldIds("WORK-ACCEPTED")
          /\ ToldIds("WORK-REJECTED")' = ToldIds("WORK-REJECTED") \union {id}
      BY <1>8, <1>10, StoriesSay DEF Deciding
    <2>2. ToldLedger!Refuse(R)
      BY <1>2, <1>6, <1>9, <2>1 DEF ToldLedger!Refuse
    <2> QED
      BY <1>2, <2>2 DEF ToldLedger!LedgerNext, ToldLedger!Decide
  <1>11. CASE accepted
    <2>1. /\ ToldIds("WORK-ACCEPTED")' = ToldIds("WORK-ACCEPTED") \union {id}
          /\ ToldIds("WORK-REJECTED")' = ToldIds("WORK-REJECTED")
      BY <1>8, <1>11, StoriesSay DEF Deciding
    <2>2. s \in Candidates
      BY <1>11 DEF Candidates, Accepted
    <2>3. ASSUME NEW t \in Submissions, t.root = s.root, t.nonce = s.nonce,
                 t.id \in ToldIds("WORK-ACCEPTED")
          PROVE  FALSE
      <3>1. IsAccepted(t.id)
        BY <2>3, CreditedFacts DEF ToldIds, Credited
      <3>2. PICK w \in verdicts : w.verdict = "success" /\ w.share.id = t.id
        BY <3>1 DEF IsAccepted, IdsDecided
      <3>3. w.share \in Submissions /\ w.share \in Candidates
        BY <3>2 DEF Submissions, Candidates, Accepted
      <3>4. w.share = t
        BY <2>3, <3>2, <3>3 DEF OnePlaceEach
      <3>5. t.id = s.id
        BY <2>2, <2>3, <3>3, <3>4 DEF ValidatorInv, CandidatesOnce
      <3> QED
        BY <1>7, <2>3, <3>5
    <2>4. \A r \in {Receipt(t) : t \in Submissions} :
            r.item = R.item => r.id \notin ToldIds("WORK-ACCEPTED")
      BY <1>2, <2>3 DEF Receipt
    <2>5. ToldLedger!Accept(R)
      BY <1>2, <1>6, <1>9, <2>1, <2>4 DEF ToldLedger!Accept
    <2> QED
      BY <1>2, <2>5 DEF ToldLedger!LedgerNext, ToldLedger!Decide
  <1> QED
    BY <1>10, <1>11

(* A step of the pool that neither hands a result in nor decides one in the  *)
(* log.                                                                      *)
LEMMA ToldStutter ==
  ASSUME ValidatorInv, OnePlaceEach, ResultInv, NEW id \in DOMAIN results,
         \/ \E found \in BOOLEAN : NodeJudges(id, found)
         \/ OnSubmitWork(id)
         \/ OnSubmitWorkFailed(id)
  PROVE  UNCHANGED ToldLedger!ledgerVars
  <1>1. results \in Seq(Result) /\ results[id] \in Result /\ Told(id, results[id])
    BY DEF ResultInv, ResultsOK
  <1>2. UNCHANGED <<pool, verdicts>>
    BY DEF NodeJudges, OnSubmitWork, OnSubmitWorkFailed, validatorVars, shareVars
  <1>3. /\ DOMAIN results' = DOMAIN results
        /\ \A i \in DOMAIN results : i # id => results'[i] = results[i]
    BY DEF NodeJudges, OnSubmitWork, OnSubmitWorkFailed
  <1>4. \/ results'[id].story = results[id].story
        \/ /\ results[id].story = Judged(TRUE)
           /\ results'[id].story = NotifyBlockFound(Judged(TRUE))
    <2>1. CASE OnSubmitWork(id)
      <3>1. results[id].story = Judged(TRUE)
        BY <1>1, <2>1 DEF OnSubmitWork, Told
      <3>2. results'[id].story \in
              {results[id].story, NotifyBlockFound(results[id].story)}
        BY <1>1, <2>1 DEF OnSubmitWork, Result
      <3> QED
        BY <3>1, <3>2
    <2>2. CASE OnSubmitWorkFailed(id)
      BY <1>1, <2>2 DEF OnSubmitWorkFailed, Result
    <2>3. ASSUME NEW found \in BOOLEAN, NodeJudges(id, found)
          PROVE  results'[id].story = results[id].story
      BY <1>1, <2>3 DEF NodeJudges, Result
    <2> QED
      BY <2>1, <2>2, <2>3
  <1>5. \A event \in Deciding :
          Says(results'[id].story, event) <=> Says(results[id].story, event)
    BY <1>4, StoriesSay
  <1> QED
    BY <1>2, <1>3, <1>5, NothingTold

LEMMA ToldStep ==
  ASSUME ValidatorInv, OnePlaceEach, ResultInv, [DanceNext]_poolDanceVars
  PROVE  [ToldLedger!LedgerNext]_(ToldLedger!ledgerVars)
  <1>1. ASSUME UNCHANGED <<results, pool, verdicts>>
        PROVE  UNCHANGED ToldLedger!ledgerVars
    BY <1>1, NothingTold
  <1>2. UNCHANGED poolDanceVars \/ NodeGrows \/ NoticeBlock \/ ServeItemFails
          \/ MinerTurn
          => UNCHANGED <<results, pool, verdicts>>
    BY DEF poolDanceVars, danceVars, validatorVars, shareVars, NodeGrows,
           NoticeBlock, ValidatorNewBlock, ServeItemFails, MinerTurn
  <1>3. /\ \A age, on : ItemArrives(age, on)
             => UNCHANGED <<results, pool, verdicts>>
        /\ \A root, user : ServeItem(root, user)
             => UNCHANGED <<results, pool, verdicts>>
        /\ \A c : MinerLeaves(c) => UNCHANGED <<results, pool, verdicts>>
    BY DEF ItemArrives, ServeItem, TrackWorkSent, MinerLeaves, validatorVars,
           shareVars
  <1>4. CASE HashAnswer /\ UNCHANGED <<servingVars, danceVars>>
    <2>1. UNCHANGED <<results, pool, verdicts>>
      BY <1>4 DEF HashAnswer, OnBlockHash, OnBlockHashFailed, danceVars, shareVars
    <2> QED
      BY <1>1, <2>1
  <1>5. CASE ThreadStep /\ UNCHANGED <<servingVars, danceVars>>
    <2>1. Submissions' = Submissions
      BY <1>5, LedgerThread
    <2>2. \A event : ToldIds(event)' = ToldIds(event)
      BY <1>5 DEF danceVars, ToldIds, Tells
    <2> QED
      BY <2>1, <2>2 DEF ToldLedger!ledgerVars
  <1> QED
    BY <1>1, <1>2, <1>3, <1>4, <1>5, ToldHandIn, ToldDecide, ToldStutter
    DEF DanceNext, ValidateTurn, ValidatorTurn

(* The log implements the ledger: a result is told to be accepted or         *)
(* rejected once, for good, and no two of one nonce of an item are told to   *)
(* be accepted.                                                              *)
THEOREM LogKeepsLedger == DanceSpec => ToldLedger!LedgerSpec
  <1>1. DanceInit => ToldLedger!LedgerInit
    BY DEF DanceInit, ValidatorInit, ToldLedger!LedgerInit, Submissions, ToldIds
  <1> QED
    BY <1>1, ToldStep, PoolValidates, ValidatorInvariant, LedgerInvariant,
       ResultInvariant, PTL
    DEF DanceSpec, ToldLedger!LedgerSpec

-----------------------------------------------------------------------------
(* Type correctness.  The conn a result waits on is one whose miner waits    *)
(* for it, and to each item cached belongs the block it builds on.           *)

PutOK ==
  /\ put \in [Conn -> 0 .. shares]
  /\ \A c \in Conn : put[c] # 0 <=> client[c] = "putwork"

ItemsOK ==
  /\ cached_on \in Seq(Blocks)
  /\ Len(cached_on) = Len(work_queue)
  /\ built_on \in [DOMAIN sent -> Blocks]

MadeOf == chain \in Seq(0 .. MaxShares)

(* A client that neither begins nor ends to wait for a result. *)
LEMMA PutKept ==
  ASSUME PutOK, UNCHANGED <<put, shares>>, client \in [Conn -> ClientState],
         \/ UNCHANGED client
         \/ \E c \in Conn, state \in ClientState \ {"putwork"} :
              /\ client[c] # "putwork"
              /\ client' = [client EXCEPT ![c] = state]
  PROVE  PutOK'
  BY DEF PutOK

(* The request served is of a miner that waits for work, not for a result.   *)
LEMMA PutServed ==
  ASSUME PoolInv, PutOK, UNCHANGED <<put, shares>>, NEW ok \in BOOLEAN,
         ServeRequest(ok)
  PROVE  PutOK'
  <1> DEFINE c == getwork_queue[1].conn
             state == IF ok THEN "idle" ELSE "unanswered"
  <1>1. client \in [Conn -> ClientState] /\ getwork_queue \in Seq(WorkRequest)
    BY DEF PoolInv, PoolTypeOK
  <1>2. 1 \in DOMAIN getwork_queue /\ getwork_queue[1] \in WorkRequest
    BY <1>1, LenProperties, EmptySeq, ElementOfSeq DEF ServeRequest, NeedWork
  <1>3. c \in Conn /\ client' = [client EXCEPT ![c] = state]
    BY <1>2 DEF ServeRequest, WorkRequest
  <1>4. Queued(c)
    BY <1>2 DEF Queued
  <1>5. client[c] \in {"getwork", "longpoll"}
    BY <1>3, <1>4 DEF PoolInv, ListsFollowed
  <1>6. state \in ClientState \ {"putwork"}
    BY DEF ClientState
  <1> HIDE DEF c, state
  <1> QED
    BY <1>1, <1>3, <1>5, <1>6, PutKept

(* A connection that stops to wait for its result. *)
LEMMA PutEnds ==
  ASSUME PutOK, shares \in Nat, UNCHANGED shares,
         client \in [Conn -> ClientState],
         NEW c \in Conn, NEW state \in ClientState \ {"putwork"},
         client' = [client EXCEPT ![c] = state],
         put' = [put EXCEPT ![c] = 0]
  PROVE  PutOK'
  BY DEF PutOK

LEMMA PutBegins ==
  ASSUME PutOK, shares \in Nat, shares' = shares + 1,
         client \in [Conn -> ClientState], NEW c \in Conn,
         client' = [client EXCEPT ![c] = "putwork"],
         put' = [put EXCEPT ![c] = shares']
  PROVE  PutOK'
  <1>1. put \in [Conn -> 0 .. shares'] /\ shares' \in 0 .. shares'
        /\ shares' # 0
    BY DEF PutOK
  <1> QED
    BY <1>1 DEF PutOK

LEMMA PutStep ==
  ASSUME PoolInv, shares \in Nat, PutOK, [DanceNext]_poolDanceVars
  PROVE  PutOK'
  <1>a. client \in [Conn -> ClientState]
    BY DEF PoolInv, PoolTypeOK
  <1>b. {"closed", "idle", "getwork", "longpoll", "unanswered"}
          \subseteq ClientState \ {"putwork"}
    BY DEF ClientState
  <1>1. CASE UNCHANGED <<put, shares, client>>
    BY <1>1, <1>a, PutKept
  <1>2. \/ UNCHANGED poolDanceVars \/ NodeGrows \/ NoticeBlock
        \/ \E age \in Age, on \in Blocks : ItemArrives(age, on)
        \/ ValidatorTurn /\ UNCHANGED <<servingVars, danceVars>>
        \/ \E id \in DOMAIN results :
             \/ \E found \in BOOLEAN : NodeJudges(id, found)
             \/ OnSubmitWork(id) \/ OnSubmitWorkFailed(id)
        => UNCHANGED <<put, shares, client>>
    BY DEF poolDanceVars, servingVars, poolVars, danceVars, validatorVars,
           shareVars, NodeGrows, NoticeBlock, BlockChange, PoolNewBlock,
           ValidatorNewBlock, ItemArrives, OnHasWork, ValidatorTurn, HashAnswer,
           OnBlockHash, OnBlockHashFailed, ThreadStep, ValidateInThread,
           NodeJudges, OnSubmitWork, OnSubmitWorkFailed
  <1>3. ASSUME NEW root \in Root, NEW user \in User, ServeItem(root, user)
        PROVE  PutOK'
    BY <1>3, PutServed DEF ServeItem, ServeWork, TrackWorkSent, shareVars
  <1>4. CASE ServeItemFails
    BY <1>4, PutServed
    DEF ServeItemFails, ServeWork, validatorVars, shareVars
  <1>5. CASE MinerTurn
    <2>1. UNCHANGED <<put, shares>>
      BY <1>5 DEF MinerTurn, danceVars, validatorVars, shareVars
    <2>2. ASSUME NEW c \in Conn, MinerConnects(c) \/ MinerLongPolls(c) \/ OnGetwork(c)
          PROVE  PutOK'
      <3>1. /\ client[c] \in {"closed", "idle"}
            /\ \E state \in {"idle", "longpoll", "getwork"} :
                 client' = [client EXCEPT ![c] = state]
        BY <2>2 DEF MinerConnects, Connect, MinerLongPolls, LongPoll, OnGetwork,
                    RpcGetwork
      <3> QED
        BY <1>a, <1>b, <2>1, <3>1, PutKept
    <2>3. \/ \E age \in Age : UpstreamCallFails(age)
          \/ ServeNothing
          => UNCHANGED client
      BY DEF UpstreamCallFails, ServeNothing, poolVars
    <2> QED
      BY <1>1, <1>5, <2>1, <2>2, <2>3 DEF MinerTurn
  <1>6. ASSUME NEW c \in Conn, MinerLeaves(c)
        PROVE  PutOK'
    <2>1. /\ client' = [client EXCEPT ![c] = "closed"]
          /\ put' = [put EXCEPT ![c] = 0]
          /\ UNCHANGED shares
      BY <1>6 DEF MinerLeaves, MinerCloses, Close, validatorVars, shareVars
    <2> QED
      BY <1>a, <1>b, <2>1, PutEnds
  <1>7. ASSUME NEW c \in Conn, NEW root, NEW nonce, NEW user, NEW on, NEW intact,
               NEW slot_was_stale,
               PutWork(c, root, nonce, user, on, intact, slot_was_stale)
        PROVE  PutOK'
    <2>1. /\ client' = [client EXCEPT ![c] = "putwork"]
          /\ put' = [put EXCEPT ![c] = shares']
          /\ shares' = shares + 1
      BY <1>7 DEF PutWork, MinerPutsWork, RpcPutwork, Submit
    <2> QED
      BY <1>a, <2>1, PutBegins
  <1>8. ASSUME NEW v \in verdicts, OnValidate(v)
        PROVE  PutOK'
    <2>1. AnswerMiner(v.share.id) /\ UNCHANGED shares
      BY <1>8 DEF OnValidate, validatorVars, shareVars
    <2>2. ASSUME NEW c \in Conn, NEW ok \in BOOLEAN, PutworkAnswered(c, ok),
                 put' = [put EXCEPT ![c] = 0]
          PROVE  PutOK'
      <3>1. \E state \in {"idle", "unanswered"} :
              client' = [client EXCEPT ![c] = state]
        BY <2>2 DEF PutworkAnswered, RespondPutwork
      <3> QED
        BY <1>a, <1>b, <2>1, <2>2, <3>1, PutEnds
    <2>3. UNCHANGED <<servingVars, put>> => UNCHANGED <<put, client>>
      BY DEF servingVars, poolVars
    <2> QED
      BY <1>1, <2>1, <2>2, <2>3 DEF AnswerMiner
  <1> QED
    BY <1>1, <1>2, <1>3, <1>4, <1>5, <1>6, <1>7, <1>8
    DEF DanceNext, ValidateTurn

LEMMA ItemsStep ==
  ASSUME UpstreamTypeOK, ValidatorTypeOK, ItemsOK, [DanceNext]_poolDanceVars
  PROVE  ItemsOK'
  <1>a. /\ work_queue \in Seq(Age)
        /\ cached_on \in Seq(Blocks) /\ Len(cached_on) = Len(work_queue)
        /\ built_on \in [DOMAIN sent -> Blocks]
    BY DEF UpstreamTypeOK, ItemsOK
  <1>1. CASE UNCHANGED <<cached_on, built_on, work_queue, sent>>
    BY <1>1 DEF ItemsOK
  <1>2. CASE NoticeBlock
    <2>1. /\ cached_on' = <<>> /\ work_queue' = <<>>
          /\ UNCHANGED <<built_on, sent>>
      BY <1>2 DEF NoticeBlock, BlockChange, UpstreamNewBlock, FillWorkQueue,
                  ValidatorNewBlock
    <2> QED
      BY <1>a, <2>1 DEF ItemsOK
  <1>3. ASSUME NEW age \in Age, NEW on \in Blocks, ItemArrives(age, on)
        PROVE  ItemsOK'
    <2>1. /\ cached_on' = <<on>> \o cached_on
          /\ work_queue' = <<age>> \o work_queue
          /\ UNCHANGED <<built_on, sent>>
      BY <1>3 DEF ItemArrives, OnHasWork, GetworkAnswered, FillWorkQueue,
                  validatorVars
    <2>2. /\ cached_on' \in Seq(Blocks) /\ Len(cached_on') = 1 + Len(cached_on)
          /\ Len(work_queue') = 1 + Len(work_queue)
      BY <1>a, <2>1, ConcatProperties
    <2> QED
      BY <1>a, <2>1, <2>2 DEF ItemsOK
  <1>4. ASSUME NEW ok \in BOOLEAN, ServeWork(ok), cached_on' = Tail(cached_on)
        PROVE  /\ cached_on' \in Seq(Blocks) /\ Len(cached_on') = Len(work_queue')
               /\ cached_on # <<>>
    <2>1. /\ work_queue # <<>> /\ work_queue' = Tail(work_queue)
      BY <1>4 DEF ServeWork, GetWork, HasWork, FillWorkQueue
    <2>2. Len(work_queue) # 0 /\ cached_on # <<>>
      BY <1>a, <2>1, EmptySeq
    <2> QED
      BY <1>a, <1>4, <2>1, <2>2, HeadTailProperties
  <1>5. ASSUME NEW root \in Root, NEW user \in User, ServeItem(root, user)
        PROVE  ItemsOK'
    <2>1. /\ cached_on' \in Seq(Blocks) /\ Len(cached_on') = Len(work_queue')
          /\ cached_on # <<>>
      BY <1>4, <1>5 DEF ServeItem
    <2>2. /\ built_on' = Inserted(built_on, root, Head(cached_on))
          /\ DOMAIN sent' = DOMAIN sent \union {root}
      BY <1>5 DEF ServeItem, TrackWorkSent, Inserted
    <2>3. Head(cached_on) \in Blocks
      BY <1>a, <2>1, HeadTailProperties
    <2>4. built_on' \in [DOMAIN sent' -> Blocks]
      BY <1>a, <2>2, <2>3 DEF Inserted
    <2> QED
      BY <2>1, <2>4 DEF ItemsOK
  <1>6. CASE ServeItemFails
    <2>1. /\ cached_on' \in Seq(Blocks) /\ Len(cached_on') = Len(work_queue')
      BY <1>4, <1>6 DEF ServeItemFails
    <2>2. UNCHANGED <<built_on, sent>>
      BY <1>6 DEF ServeItemFails, validatorVars
    <2> QED
      BY <1>a, <2>1, <2>2 DEF ItemsOK
  <1>7. CASE MinerTurn
    BY <1>1, <1>7
    DEF MinerTurn, MinerConnects, MinerLongPolls, OnGetwork, UpstreamCallFails,
        GetworkFailed, ServeNothing, upstreamVars, danceVars, validatorVars
  <1>8. ASSUME NEW c \in Conn, MinerLeaves(c)
        PROVE  ItemsOK'
    BY <1>1, <1>8 DEF MinerLeaves, MinerCloses, upstreamVars, validatorVars
  <1>9. ASSUME NEW c, NEW root, NEW nonce, NEW user, NEW on, NEW intact,
               NEW slot_was_stale,
               PutWork(c, root, nonce, user, on, intact, slot_was_stale)
        PROVE  ItemsOK'
    BY <1>1, <1>9 DEF PutWork, MinerPutsWork, upstreamVars, Submit
  <1>10. ASSUME NEW v, OnValidate(v)
         PROVE  ItemsOK'
    BY <1>1, <1>10 DEF OnValidate, AnswerMiner, PutworkAnswered, servingVars,
                       upstreamVars, validatorVars
  <1>11. \/ UNCHANGED poolDanceVars \/ NodeGrows
         \/ ValidatorTurn /\ UNCHANGED <<servingVars, danceVars>>
         \/ \E id \in DOMAIN results :
              \/ \E found \in BOOLEAN : NodeJudges(id, found)
              \/ OnSubmitWork(id) \/ OnSubmitWorkFailed(id)
         => UNCHANGED <<cached_on, built_on, work_queue, sent>>
    BY DEF poolDanceVars, servingVars, upstreamVars, danceVars, validatorVars,
           NodeGrows, ValidatorTurn, HashAnswer, OnBlockHash, OnBlockHashFailed,
           ThreadStep, ValidateInThread, NodeJudges, OnSubmitWork,
           OnSubmitWorkFailed
  <1> QED
    BY <1>1, <1>2, <1>3, <1>5, <1>6, <1>7, <1>8, <1>9, <1>10, <1>11
    DEF DanceNext, ValidateTurn

LEMMA MadeOfStep ==
  ASSUME ValidatorTypeOK, ResultsOK, MadeOf, [DanceNext]_poolDanceVars
  PROVE  MadeOf'
  <1>1. 0 \in 0 .. MaxShares /\ DOMAIN results \subseteq 0 .. MaxShares
    BY TypeFacts, LenProperties DEF ResultsOK
  <1>2. ASSUME NEW b \in 0 .. MaxShares, chain' = Append(chain, b)
        PROVE  MadeOf'
    BY <1>2, AppendProperties DEF MadeOf
  <1>3. CASE UNCHANGED chain
    BY <1>3 DEF MadeOf
  <1>4. CASE NodeGrows
    BY <1>1, <1>2, <1>4 DEF NodeGrows
  <1>5. ASSUME NEW id \in DOMAIN results, NEW found \in BOOLEAN,
               NodeJudges(id, found)
        PROVE  MadeOf'
    BY <1>1, <1>2, <1>3, <1>5 DEF NodeJudges
  <1> QED
    BY <1>3, <1>4, <1>5, ChainChanges

LEMMA ItemsInvariant == DanceSpec => [](PutOK /\ ItemsOK /\ MadeOf)
  <1>1. DanceInit => PutOK /\ ItemsOK /\ MadeOf
    <2> SUFFICES ASSUME DanceInit PROVE PutOK /\ ItemsOK /\ MadeOf
      OBVIOUS
    <2>1. /\ put = [c \in Conn |-> 0] /\ client = [c \in Conn |-> "closed"]
          /\ shares = 0 /\ cached_on = <<>> /\ built_on = <<>>
          /\ work_queue = <<>> /\ sent = <<>> /\ chain = <<0>>
      BY DEF DanceInit, WorkServingInit, UpstreamInit, PoolInit, ValidatorInit
    <2>2. PutOK
      BY <2>1 DEF PutOK
    <2>3. ItemsOK
      BY <2>1 DEF ItemsOK
    <2>4. MadeOf
      BY <2>1, ValidatorAssumption DEF MadeOf
    <2> QED
      BY <2>2, <2>3, <2>4
  <1>2. /\ ValidatorInv => ValidatorTypeOK /\ shares \in Nat
        /\ WorkServingTypeOK => UpstreamTypeOK
        /\ ResultInv => ResultsOK
    BY TypeFacts DEF ValidatorInv, WorkServingTypeOK, ResultInv
  <1> QED
    BY <1>1, <1>2, PutStep, ItemsStep, MadeOfStep, PoolServes, PoolValidates,
       ValidatorInvariant, ServingPoolInvariant, WorkServingTypes,
       ResultInvariant, PTL DEF DanceSpec

(* A miner waits for one result, which main has not looked at yet, and waits *)
(* for it alone.                                                             *)
WaitsFor(c) ==
  /\ results[put[c]].phase = "validating"
  /\ \A d \in Conn \ {c} : put[d] # put[c]

WaitInv == \A c \in Conn : put[c] # 0 => WaitsFor(c)

LEMMA PutChanges ==
  ASSUME [DanceNext]_poolDanceVars
  PROVE  \/ UNCHANGED put
         \/ \E c \in Conn : MinerLeaves(c)
         \/ \E c \in Conn, root \in Root, nonce \in Nonce, user \in User,
               on \in Blocks, intact \in BOOLEAN, slot_was_stale \in BOOLEAN :
              PutWork(c, root, nonce, user, on, intact, slot_was_stale)
         \/ \E v \in verdicts : OnValidate(v)
  <1>1. UNCHANGED poolDanceVars \/ NodeGrows \/ NoticeBlock \/ ServeItemFails
          \/ MinerTurn \/ (ValidatorTurn /\ UNCHANGED <<servingVars, danceVars>>)
          => UNCHANGED put
    BY DEF poolDanceVars, danceVars, NodeGrows, NoticeBlock, ServeItemFails,
           MinerTurn
  <1>2. /\ \A age, on : ItemArrives(age, on) => UNCHANGED put
        /\ \A root, user : ServeItem(root, user) => UNCHANGED put
        /\ \A id, found : NodeJudges(id, found) => UNCHANGED put
        /\ \A id : OnSubmitWork(id) \/ OnSubmitWorkFailed(id) => UNCHANGED put
    BY DEF ItemArrives, ServeItem, NodeJudges, OnSubmitWork, OnSubmitWorkFailed
  <1> QED
    BY <1>1, <1>2 DEF DanceNext, ValidateTurn

(* A result still with the validator is left alone but by its verdict.       *)
LEMMA ValidatingStays ==
  ASSUME ResultsOK, NEW i \in DOMAIN results, results[i].phase = "validating",
         [DanceNext]_poolDanceVars
  PROVE  \/ i \in DOMAIN results' /\ results'[i].phase = "validating"
         \/ \E v \in verdicts : OnValidate(v) /\ v.share.id = i
  <1>1. CASE UNCHANGED results
    BY <1>1
  <1>2. ASSUME NEW c, NEW root, NEW nonce, NEW user, NEW on, NEW intact,
               NEW slot_was_stale,
               PutWork(c, root, nonce, user, on, intact, slot_was_stale)
        PROVE  i \in DOMAIN results' /\ results'[i] = results[i]
    <2>1. PICK r : results' = Append(results, r)
      BY <1>2 DEF PutWork
    <2>2. i \in 1 .. Len(results) /\ Len(results) \in Nat
      BY DEF ResultsOK
    <2>3. DOMAIN results' = 1 .. Len(results) + 1 /\ results'[i] = results[i]
      BY <2>1, <2>2 DEF Append
    <2> QED
      BY <2>2, <2>3
  <1>3. ASSUME NEW v \in verdicts, OnValidate(v), v.share.id # i
        PROVE  i \in DOMAIN results' /\ results'[i] = results[i]
    <2>1. \E r : results' = [results EXCEPT ![v.share.id] = r]
      BY <1>3 DEF OnValidate
    <2> QED
      BY <1>3, <2>1
  <1>4. ASSUME NEW id \in DOMAIN results,
               \/ \E found \in BOOLEAN : NodeJudges(id, found)
               \/ OnSubmitWork(id) \/ OnSubmitWorkFailed(id)
        PROVE  i \in DOMAIN results' /\ results'[i] = results[i]
    <2>1. /\ results[id].phase \in {"upstream", "found", "refused"}
          /\ \E r : results' = [results EXCEPT ![id] = r]
      BY <1>4 DEF NodeJudges, OnSubmitWork, OnSubmitWorkFailed
    <2>2. i # id
      BY <2>1
    <2> QED
      BY <2>1, <2>2
  <1>5. UNCHANGED poolDanceVars \/ NodeGrows \/ NoticeBlock \/ ServeItemFails
          \/ MinerTurn \/ (ValidatorTurn /\ UNCHANGED <<servingVars, danceVars>>)
          => UNCHANGED results
    BY DEF poolDanceVars, danceVars, NodeGrows, NoticeBlock, ServeItemFails,
           MinerTurn
  <1>6. /\ \A age, on : ItemArrives(age, on) => UNCHANGED results
        /\ \A root, user : ServeItem(root, user) => UNCHANGED results
        /\ \A c : MinerLeaves(c) => UNCHANGED results
    BY DEF ItemArrives, ServeItem, MinerLeaves
  <1> QED
    BY <1>1, <1>2, <1>3, <1>4, <1>5, <1>6 DEF DanceNext, ValidateTurn

LEMMA WaitStep ==
  ASSUME shares \in Nat, ResultsOK, PutOK, WaitInv, [DanceNext]_poolDanceVars
  PROVE  WaitInv'
  <1>a. /\ put \in [Conn -> 0 .. shares]
        /\ DOMAIN results = 1 .. shares
    BY DEF PutOK, ResultsOK
  <1>b. \A c \in Conn : put[c] # 0 => put[c] \in DOMAIN results
    BY <1>a
  <1>1. ASSUME NEW v \in verdicts, OnValidate(v)
        PROVE  WaitInv'
    <2> DEFINE id == v.share.id
    <2>1. /\ \E r : results' = [results EXCEPT ![id] = r]
          /\ \/ \E c \in Conn : put[c] = id /\ put' = [put EXCEPT ![c] = 0]
             \/ (\A c \in Conn : put[c] # id) /\ put' = put
      BY <1>1 DEF OnValidate, AnswerMiner, WaitInv, WaitsFor
    <2> HIDE DEF id
    <2>2. \A c \in Conn : put'[c] # 0 => put'[c] = put[c] /\ put[c] # id
      BY <1>a, <2>1 DEF WaitInv, WaitsFor
    <2>3. \A c \in Conn : put'[c] # 0 => results'[put'[c]] = results[put[c]]
      BY <1>b, <2>1, <2>2
    <2> QED
      BY <2>2, <2>3 DEF WaitInv, WaitsFor
  <1>2. ASSUME ~ \E v \in verdicts : OnValidate(v)
        PROVE  \A c \in Conn : put[c] # 0 =>
                 results'[put[c]].phase = "validating"
    BY <1>b, <1>2, ValidatingStays DEF WaitInv, WaitsFor
  <1>3. CASE UNCHANGED put /\ ~ \E v \in verdicts : OnValidate(v)
    BY <1>2, <1>3 DEF WaitInv, WaitsFor
  <1>4. ASSUME NEW c \in Conn, MinerLeaves(c)
        PROVE  WaitInv'
    <2>1. put' = [put EXCEPT ![c] = 0] /\ UNCHANGED results
      BY <1>4 DEF MinerLeaves
    <2> QED
      BY <1>a, <2>1 DEF WaitInv, WaitsFor
  <1>5. ASSUME NEW c \in Conn, NEW root, NEW nonce, NEW user, NEW on, NEW intact,
               NEW slot_was_stale,
               PutWork(c, root, nonce, user, on, intact, slot_was_stale)
        PROVE  WaitInv'
    <2>1. /\ put' = [put EXCEPT ![c] = shares + 1]
          /\ \E r : r.phase = "validating" /\ results' = Append(results, r)
      BY <1>5 DEF PutWork, Submit
    <2>2. /\ results'[shares + 1].phase = "validating"
          /\ \A i \in 1 .. shares : results'[i] = results[i]
      BY <2>1, <1>a DEF ResultsOK
    <2>3. \A d \in Conn : put[d] # shares + 1 /\ put[d] \in 0 .. shares
      BY <1>a
    <2>4. \A d \in Conn : put'[d] = IF d = c THEN shares + 1 ELSE put[d]
      BY <1>a, <2>1
    <2>5. WaitsFor(c)'
      BY <2>2, <2>3, <2>4 DEF WaitsFor
    <2>6. \A d \in Conn \ {c} : put[d] # 0 => WaitsFor(d)'
      BY <1>a, <1>b, <2>2, <2>3, <2>4 DEF WaitInv, WaitsFor
    <2> QED
      BY <2>4, <2>5, <2>6 DEF WaitInv
  <1> QED
    BY <1>1, <1>3, <1>4, <1>5, PutChanges

(* A miner that waits to hear of a result has an answer coming: the result   *)
(* is with the threads or was decided, main has not looked at it, and nobody *)
(* else waits for the same.                                                  *)
THEOREM WaitingAreOwed == DanceSpec => []WaitingMinerIsOwed
  <1>1. DanceInit => WaitInv
    BY DEF DanceInit, WaitInv
  <1>2. /\ ResultInv => ResultsOK
        /\ ValidatorInv => shares \in Nat
    BY TypeFacts DEF ResultInv, ValidatorInv
  <1>3. DanceSpec => []WaitInv
    BY <1>1, <1>2, WaitStep, PoolValidates, ValidatorInvariant, ResultInvariant,
       ItemsInvariant, PTL DEF DanceSpec
  <1>4. PutOK /\ AllPlaced /\ WaitInv /\ shares \in Nat => WaitingMinerIsOwed
    BY DEF PutOK, AllPlaced, WaitInv, WaitsFor, WaitingMinerIsOwed
  <1> QED
    BY <1>2, <1>3, <1>4, PoolValidates, ValidatorInvariant, ItemsInvariant,
       PlacedInvariant, PTL

(* Type correctness of the pool as a whole. *)
THEOREM DanceTypes == DanceSpec => []DanceTypeOK
  <1>1. ValidatorInv => ValidatorTypeOK
    BY DEF ValidatorInv
  <1>2. ResultInv => ResultsOK
    BY DEF ResultInv
  <1>3. ASSUME WorkServingTypeOK, ValidatorTypeOK, PutOK, ItemsOK, MadeOf,
               ResultsOK, ChainOK, TimeInv
        PROVE  DanceTypeOK
    <2>1. block_num \in {Height - 1, Height}
      BY <1>3, Numbers DEF TimeInv, NodeAhead
    <2>2. cached_on \in [DOMAIN work_queue -> Blocks]
      <3>1. work_queue \in Seq(Age)
        BY <1>3 DEF WorkServingTypeOK, UpstreamTypeOK
      <3>2. DOMAIN cached_on = DOMAIN work_queue
        BY <1>3, <3>1 DEF ItemsOK
      <3> QED
        BY <1>3, <3>2, ElementOfSeq DEF ItemsOK
    <2>3. results \in [1 .. shares -> Result]
      BY <1>3 DEF ResultsOK
    <2> QED
      BY <1>3, <2>1, <2>2, <2>3 DEF DanceTypeOK, PutOK, ItemsOK, MadeOf
  <1> QED
    BY <1>1, <1>2, <1>3, ItemsInvariant, TimeInvariant, PoolServes, PoolValidates,
       WorkServingTypes, ValidatorInvariant, ResultInvariant, PTL

-----------------------------------------------------------------------------

(* The rest proves that a miner that does as it is told is refused only for  *)
(* the reasons HonestIsJudged lists, whatever the node, the threads and      *)
(* other miners do.                                                          *)

(* Every item sent since the block before is tracked, in the table of its    *)
(* block, with the name of its miner and no nonce that was not recorded.     *)
TablesComplete ==
  \A r \in DOMAIN sent :
    /\ 0 < sent[r].block /\ sent[r].block <= block_num
    /\ sent[r].block = block_num => r \in DOMAIN work_by_merkle_root
    /\ sent[r].block = block_num - 1 => r \in DOMAIN work_by_merkle_root_prev

NoncesRecorded(r, nonces) ==
  \A i \in DOMAIN nonces :
    \E t \in Recorded : t.root = r /\ t.nonce = nonces[i]

EntriesTrue ==
  /\ \A r \in DOMAIN work_by_merkle_root :
       /\ work_by_merkle_root[r].user = sent[r].user
       /\ NoncesRecorded(r, work_by_merkle_root[r].nonces)
  /\ \A r \in DOMAIN work_by_merkle_root_prev :
       /\ work_by_merkle_root_prev[r].user = sent[r].user
       /\ NoncesRecorded(r, work_by_merkle_root_prev[r].nonces)

(* A current item is not taken for possibly stale until its array is full.   *)
SlotClear ==
  \A r \in DOMAIN work_by_merkle_root :
    Len(work_by_merkle_root[r].nonces) <= NonceMax =>
      work_by_merkle_root[r].possible_stale = 0

(* A result goes to the threads as stale for its item, as long as the nonces *)
(* of that fit, or for the memory it came in.                                *)
JobTrue(job) ==
  LET s == job.share IN
  /\ s.root \in DOMAIN sent
  /\ job.stale /\ s.fits /\ ~ s.marked => sent[s.root].block # s.block

JobsTrue == \A i \in DOMAIN pool : JobTrue(pool[i])

TrackInv == TablesComplete /\ EntriesTrue /\ SlotClear /\ JobsTrue

RecordedGrow == Recorded \subseteq Recorded'

JobsKept == \A j \in DOMAIN pool' : \E i \in DOMAIN pool : pool'[j] = pool[i]

LEMMA RecordedRefused ==
  ASSUME NEW share, NEW verdict, Refused(share, verdict)
  PROVE  /\ RecordedGrow /\ JobsKept
         /\ verdict \notin {"unknown", "header", "duplicate"} =>
              share \in Recorded'
  <1> DEFINE entry == [share |-> share, verdict |-> verdict]
  <1>1. pool' = pool /\ verdicts' = verdicts \union {entry}
    BY DEF Refused
  <1>2. entry.share = share /\ entry.verdict = verdict
    OBVIOUS
  <1> HIDE DEF entry
  <1> QED
    BY <1>1, <1>2 DEF RecordedGrow, Recorded, JobsKept

LEMMA RecordedPushed ==
  ASSUME pool \in Seq(JobOK), NEW job \in JobOK, pool' = Append(pool, job),
         UNCHANGED verdicts
  PROVE  /\ RecordedGrow /\ job.share \in Recorded'
         /\ \A j \in DOMAIN pool' :
              pool'[j] = job \/ \E i \in DOMAIN pool : pool'[j] = pool[i]
  <1>1. /\ Len(pool') = Len(pool) + 1 /\ Len(pool) \in Nat
        /\ \A i \in 1 .. Len(pool) : pool'[i] = pool[i]
        /\ pool'[Len(pool) + 1] = job
        /\ DOMAIN pool = 1 .. Len(pool) /\ DOMAIN pool' = 1 .. Len(pool) + 1
    BY AppendProperties, LenProperties
  <1>2. \A i \in DOMAIN pool : i \in DOMAIN pool' /\ pool'[i] = pool[i]
    BY <1>1
  <1>3. Len(pool) + 1 \in DOMAIN pool'
    BY <1>1
  <1>4. \A j \in DOMAIN pool' : j \in DOMAIN pool \/ j = Len(pool) + 1
    BY <1>1
  <1>5. RecordedGrow /\ job.share \in Recorded'
    BY <1>1, <1>2, <1>3 DEF RecordedGrow, Recorded
  <1> QED
    BY <1>1, <1>2, <1>4, <1>5

LEMMA RecordedThread ==
  ASSUME pool \in Seq(JobOK), ThreadStep
  PROVE  RecordedGrow /\ JobsKept
  <1>1. PICK i \in DOMAIN pool, meets_target \in BOOLEAN :
          ValidateInThread(i, meets_target)
    BY DEF ThreadStep
  <1>2. PICK verdict \in {"target", "stale", "success"} :
          verdicts' = verdicts \union
                        {[share |-> pool[i].share, verdict |-> verdict]}
    BY <1>1 DEF ValidateInThread
  <1>3. i \in 1 .. Len(pool) /\ pool' = RemoveAt(pool, i)
    BY <1>1, LenProperties DEF ValidateInThread, PoolWithout
  <1>4. /\ \A j \in DOMAIN pool' : \E k \in DOMAIN pool : pool'[j] = pool[k]
        /\ \A k \in DOMAIN pool : k # i =>
             \E j \in DOMAIN pool' : pool'[j] = pool[k]
    BY <1>3, RemoveAtFacts
  <1>5. ASSUME NEW s \in Recorded
        PROVE  s \in Recorded'
    <2>1. CASE s = pool[i].share
      <3> DEFINE entry == [share |-> pool[i].share, verdict |-> verdict]
      <3>1. /\ entry \in verdicts' /\ entry.share = s
            /\ entry.verdict \notin {"unknown", "header", "duplicate"}
        BY <1>2, <2>1
      <3> QED
        BY <3>1 DEF Recorded
    <2>2. ASSUME NEW k \in DOMAIN pool, k # i, s = pool[k].share
          PROVE  s \in Recorded'
      BY <1>4, <2>2 DEF Recorded
    <2>3. ASSUME NEW v \in verdicts, s = v.share,
                 v.verdict \notin {"unknown", "header", "duplicate"}
          PROVE  s \in Recorded'
      BY <1>2, <2>3 DEF Recorded
    <2> QED
      BY <2>1, <2>2, <2>3 DEF Recorded
  <1> QED
    BY <1>4, <1>5 DEF RecordedGrow, JobsKept

LEMMA JobsStay ==
  ASSUME JobsTrue, JobsKept, SentKept
  PROVE  JobsTrue'
  <1>1. ASSUME NEW job, JobTrue(job)
        PROVE  JobTrue(job)'
    BY <1>1 DEF JobTrue, SentKept
  <1>2. \A j \in DOMAIN pool' : \E job : pool'[j] = job /\ JobTrue(job)
    BY DEF JobsTrue, JobsKept
  <1> QED
    BY <1>1, <1>2 DEF JobsTrue, JobTrue

LEMMA EntriesStay ==
  ASSUME EntriesTrue, RecordedGrow, UNCHANGED <<tableVars, sent>>
  PROVE  EntriesTrue'
  <1>1. UNCHANGED <<work_by_merkle_root, work_by_merkle_root_prev, sent>>
    BY DEF tableVars
  <1>2. ASSUME NEW r \in DOMAIN work_by_merkle_root
        PROVE  /\ work_by_merkle_root'[r].user = sent'[r].user
               /\ NoncesRecorded(r, work_by_merkle_root[r].nonces)'
    BY <1>1 DEF EntriesTrue, NoncesRecorded, RecordedGrow
  <1>3. ASSUME NEW r \in DOMAIN work_by_merkle_root_prev
        PROVE  /\ work_by_merkle_root_prev'[r].user = sent'[r].user
               /\ NoncesRecorded(r, work_by_merkle_root_prev[r].nonces)'
    BY <1>1 DEF EntriesTrue, NoncesRecorded, RecordedGrow
  <1> QED
    BY <1>1, <1>2, <1>3 DEF EntriesTrue

LEMMA TrackKept ==
  ASSUME TrackInv, RecordedGrow, JobsKept, UNCHANGED <<tableVars, sent, block_num>>
  PROVE  TrackInv'
  <1>1. UNCHANGED <<work_by_merkle_root, work_by_merkle_root_prev, sent, block_num>>
    BY DEF tableVars
  <1>2. EntriesTrue'
    BY EntriesStay DEF TrackInv
  <1>3. JobsTrue'
    BY <1>1, JobsStay DEF TrackInv, SentKept
  <1> QED
    BY <1>1, <1>2, <1>3 DEF TrackInv, TablesComplete, SlotClear

LEMMA TrackInit == ValidatorInit => TrackInv
  BY DEF ValidatorInit, TrackInv, TablesComplete, EntriesTrue, SlotClear, JobsTrue

LEMMA TrackSent ==
  ASSUME ValidatorInv, TrackInv, NEW root \in Root, NEW user \in User,
         TrackWorkSent(root, user)
  PROVE  TrackInv'
  <1> DEFINE work == [user |-> user, nonces |-> <<>>, possible_stale |-> 0]
  <1>1. /\ block_num > 0 /\ root \notin DOMAIN sent
        /\ DOMAIN work_by_merkle_root' = DOMAIN work_by_merkle_root \union {root}
        /\ work_by_merkle_root'[root] = work
        /\ \A r \in DOMAIN work_by_merkle_root \ {root} :
             work_by_merkle_root'[r] = work_by_merkle_root[r]
        /\ DOMAIN sent' = DOMAIN sent \union {root}
        /\ sent'[root] = [user |-> user, block |-> block_num]
        /\ \A r \in DOMAIN sent : sent'[r] = sent[r]
        /\ UNCHANGED <<work_by_merkle_root_prev, hashVars, shareVars>>
    BY DEF TrackWorkSent, Inserted
  <1>2. /\ work.user = user /\ work.possible_stale = 0
        /\ DOMAIN work.nonces = {}
    OBVIOUS
  <1> HIDE DEF work
  <1>3. /\ block_num' = block_num /\ pool' = pool
        /\ Recorded' = Recorded
    BY <1>1 DEF hashVars, shareVars, Recorded
  <1>4. block_num \in Nat /\ DOMAIN work_by_merkle_root \subseteq DOMAIN sent
        /\ DOMAIN work_by_merkle_root_prev \subseteq DOMAIN sent
    BY TypeFacts DEF ValidatorInv, TablesFollowBlocks
  <1>5. TablesComplete'
    BY <1>1, <1>3, <1>4 DEF TrackInv, TablesComplete
  <1>6. EntriesTrue
    BY DEF TrackInv
  <1>7. EntriesTrue'
    <2>1. ASSUME NEW r \in DOMAIN work_by_merkle_root'
          PROVE  /\ work_by_merkle_root'[r].user = sent'[r].user
                 /\ NoncesRecorded(r, work_by_merkle_root[r].nonces)'
      BY <1>1, <1>2, <1>3, <1>4, <1>6 DEF EntriesTrue, NoncesRecorded
    <2>2. ASSUME NEW r \in DOMAIN work_by_merkle_root_prev
          PROVE  /\ work_by_merkle_root_prev'[r].user = sent'[r].user
                 /\ NoncesRecorded(r, work_by_merkle_root_prev[r].nonces)'
      BY <1>1, <1>3, <1>4, <1>6 DEF EntriesTrue, NoncesRecorded
    <2> QED
      BY <1>1, <2>1, <2>2 DEF EntriesTrue
  <1>8. SlotClear'
    BY <1>1, <1>2 DEF TrackInv, SlotClear
  <1>9. JobsTrue'
    BY <1>1, <1>3, JobsStay DEF TrackInv, JobsKept, SentKept
  <1> QED
    BY <1>5, <1>7, <1>8, <1>9 DEF TrackInv

LEMMA TrackNewBlock ==
  ASSUME ValidatorInv, TrackInv, ValidatorNewBlock
  PROVE  TrackInv'
  <1>1. /\ block_num' = block_num + 1 /\ block_num \in Nat
        /\ work_by_merkle_root_prev' = work_by_merkle_root
        /\ work_by_merkle_root' = <<>>
        /\ sent' = sent /\ pool' = pool /\ Recorded' = Recorded
    BY TypeFacts
    DEF ValidatorInv, ValidatorNewBlock, TableAfterBlock, shareVars, Recorded
  <1>2. TablesComplete'
    <2>1. \A r \in DOMAIN sent : sent[r].block \in Nat
      BY DEF ValidatorInv, ValidatorTypeOK, Blocks
    <2> QED
      BY <1>1, <2>1 DEF TrackInv, TablesComplete
  <1>3. EntriesTrue'
    BY <1>1 DEF TrackInv, EntriesTrue, NoncesRecorded
  <1>4. SlotClear'
    BY <1>1 DEF SlotClear
  <1>5. JobsTrue'
    BY <1>1, JobsStay DEF TrackInv, JobsKept, SentKept
  <1> QED
    BY <1>2, <1>3, <1>4, <1>5 DEF TrackInv

(* An item is looked up as it was recorded, but for its mark. *)
LEMMA LookupTrue ==
  ASSUME TablesOK, EntriesTrue, NEW root, Known(root)
  PROVE  /\ Lookup(root).user = sent[root].user
         /\ NoncesRecorded(root, Lookup(root).nonces)
  <1>1. CASE root \in DOMAIN work_by_merkle_root
    BY <1>1 DEF Lookup, EntriesTrue
  <1>2. CASE root \notin DOMAIN work_by_merkle_root
    <2>1. /\ root \in DOMAIN work_by_merkle_root_prev
          /\ work_by_merkle_root_prev[root] \in TrackedWork
      BY <1>2 DEF TablesOK, Known
    <2>2. /\ Lookup(root).user = work_by_merkle_root_prev[root].user
          /\ Lookup(root).nonces = work_by_merkle_root_prev[root].nonces
      BY <1>2, <2>1 DEF Lookup, TrackedWork
    <2> QED
      BY <2>1, <2>2 DEF EntriesTrue
  <1> QED
    BY <1>1, <1>2

LEMMA UpdateTracks ==
  ASSUME TablesOK, TrackInv, RecordedGrow, JobsTrue', NEW root, Known(root),
         NEW work \in TrackedWork, Update(root, work),
         UNCHANGED <<sent, block_num>>,
         work.user = sent[root].user,
         \A i \in DOMAIN work.nonces :
           \E t \in Recorded' : t.root = root /\ t.nonce = work.nonces[i],
         root \in DOMAIN work_by_merkle_root /\ Len(work.nonces) <= NonceMax
           => work.possible_stale = 0
  PROVE  TrackInv'
  <1>1. /\ DOMAIN work_by_merkle_root' = DOMAIN work_by_merkle_root
        /\ DOMAIN work_by_merkle_root_prev' = DOMAIN work_by_merkle_root_prev
        /\ \A r \in DOMAIN work_by_merkle_root :
             \/ work_by_merkle_root'[r] = work_by_merkle_root[r]
             \/ r = root /\ work_by_merkle_root'[r] = work
        /\ \A r \in DOMAIN work_by_merkle_root_prev :
             \/ work_by_merkle_root_prev'[r] = work_by_merkle_root_prev[r]
             \/ r = root /\ work_by_merkle_root_prev'[r] = work
    <2>1. CASE root \in DOMAIN work_by_merkle_root
      BY <2>1 DEF Update
    <2>2. CASE root \notin DOMAIN work_by_merkle_root
      BY <2>2 DEF Update
    <2> QED
      BY <2>1, <2>2
  <1>2. TablesComplete'
    BY <1>1 DEF TrackInv, TablesComplete
  <1>3. EntriesTrue'
    <2>a. EntriesTrue
      BY DEF TrackInv
    <2>1. ASSUME NEW r \in DOMAIN work_by_merkle_root
          PROVE  /\ work_by_merkle_root'[r].user = sent'[r].user
                 /\ NoncesRecorded(r, work_by_merkle_root[r].nonces)'
      BY <1>1, <2>a DEF EntriesTrue, NoncesRecorded, RecordedGrow
    <2>2. ASSUME NEW r \in DOMAIN work_by_merkle_root_prev
          PROVE  /\ work_by_merkle_root_prev'[r].user = sent'[r].user
                 /\ NoncesRecorded(r, work_by_merkle_root_prev[r].nonces)'
      BY <1>1, <2>a DEF EntriesTrue, NoncesRecorded, RecordedGrow
    <2> QED
      BY <1>1, <2>1, <2>2 DEF EntriesTrue
  <1>4. SlotClear'
    BY <1>1 DEF TrackInv, SlotClear
  <1> QED
    BY <1>2, <1>3, <1>4 DEF TrackInv

(* A result whose nonce is recorded goes to the threads as stale only when   *)
(* its item is not current, its array was full or its memory was marked.     *)
LEMMA RecordedJobs ==
  ASSUME ValidatorInv, TrackInv, NEW share \in Share,
         NEW slot_was_stale \in BOOLEAN, SubmitRecorded(share, slot_was_stale),
         UNCHANGED sent, share.block = block_num,
         share.fits = NoncesFit(share.root)
  PROVE  /\ RecordedGrow /\ JobsTrue'
         /\ \E t \in Recorded' : t.root = share.root /\ t.nonce = share.nonce
  <1> DEFINE root == share.root
             work == Lookup(root)
             stale == slot_was_stale \/ work.possible_stale # 0
             taken == Marked(share, slot_was_stale)
             job == [share |-> taken, stale |-> stale]
  <1>a. SentKept /\ JobsTrue
    BY DEF SentKept, TrackInv
  <1>1. \/ Refused(share, "user") \/ Refused(share, "block")
        \/ pool' = Append(pool, job) /\ verdicts' = verdicts
    BY DEF SubmitRecorded
  <1>2. Known(root)
    BY DEF SubmitRecorded
  <1>3. CASE Refused(share, "user") \/ Refused(share, "block")
    <2>1. RecordedGrow /\ JobsKept /\ share \in Recorded'
      BY <1>3, RecordedRefused
    <2> QED
      BY <1>a, <2>1, JobsStay
  <1>4. CASE pool' = Append(pool, job) /\ verdicts' = verdicts
    <2>1. /\ taken \in Share /\ taken.marked = slot_was_stale
          /\ taken.root = root /\ taken.nonce = share.nonce
          /\ taken.block = block_num /\ taken.fits = NoncesFit(root)
      BY MarkedFacts
    <2>2. job \in JobOK /\ job.share = taken /\ job.stale = stale
      BY <2>1 DEF JobOK
    <2>3. pool \in Seq(JobOK) /\ TablesOK /\ block_num \in Nat
      BY TypeFacts DEF ValidatorInv
    <2>4. root \in DOMAIN sent
      BY <1>2 DEF Known, ValidatorInv, TablesFollowBlocks
    <2>5. ASSUME NoncesFit(root), root \in DOMAIN work_by_merkle_root
          PROVE  work.possible_stale = 0
      <3>1. work \in TrackedWork /\ work = work_by_merkle_root[root]
        BY <1>2, <2>3, <2>5, LookupFacts
      <3>2. Len(work.nonces) \in Nat
        BY <3>1, LenProperties DEF TrackedWork
      <3>3. Len(work.nonces) < NonceMax
        BY <1>2, <2>5 DEF NoncesFit
      <3>4. Len(work.nonces) <= NonceMax
        BY <3>2, <3>3, ValidatorAssumption
      <3> HIDE DEF work
      <3> QED
        BY <2>5, <3>1, <3>4 DEF TrackInv, SlotClear
    <2>6. root \notin DOMAIN work_by_merkle_root => sent[root].block # block_num
      BY <1>2, <2>3 DEF Known, ValidatorInv, TablesFollowBlocks
    <2>7. stale /\ NoncesFit(root) /\ ~ slot_was_stale =>
            sent[root].block # block_num
      BY <2>5, <2>6
    <2> HIDE DEF job, taken, work, stale
    <2>8. JobTrue(job)
      BY <2>1, <2>2, <2>4, <2>7 DEF JobTrue
    <2>9. /\ RecordedGrow /\ taken \in Recorded'
          /\ \A j \in DOMAIN pool' :
               pool'[j] = job \/ \E i \in DOMAIN pool : pool'[j] = pool[i]
      BY <1>4, <2>2, <2>3, RecordedPushed
    <2>10. JobsTrue'
      <3>1. \A j \in DOMAIN pool' : \E x : pool'[j] = x /\ JobTrue(x)
        BY <1>a, <2>8, <2>9 DEF JobsTrue
      <3> QED
        BY <3>1 DEF JobsTrue, JobTrue
    <2> QED
      BY <2>1, <2>9, <2>10
  <1> QED
    BY <1>1, <1>3, <1>4

LEMMA TrackSubmit ==
  ASSUME ValidatorInv, TrackInv, NEW root \in Root,
         NEW nonce \in Nonce, NEW user \in User, NEW on \in Blocks,
         NEW intact \in BOOLEAN, NEW slot_was_stale \in BOOLEAN,
         Submit(root, nonce, user, on, intact, slot_was_stale)
  PROVE  TrackInv' /\ RecordedGrow
  <1> DEFINE share == Handed(root, nonce, user, on, FALSE)
             work == Lookup(root)
             recorded == RecordNonce(work, nonce)
             HasIt == \E t \in Recorded' : t.root = root /\ t.nonce = nonce
  <1>1. /\ share \in Share /\ share.root = root /\ share.nonce = nonce
        /\ share.block = block_num /\ share.fits = NoncesFit(share.root)
        /\ UNCHANGED <<sent, block_num>>
    BY HandedFacts DEF Handed, Submit, hashVars, ValidatorInv
  <1>2. \/ SubmitUnknown(share) \/ SubmitHeaderMismatch(share)
        \/ SubmitRepeated(share) \/ SubmitRecorded(share, slot_was_stale)
    BY DEF Submit, Handed
  <1> HIDE DEF share
  <1>3. TablesOK /\ EntriesTrue /\ JobsTrue /\ SentKept
    BY <1>1, TypeFacts DEF ValidatorInv, TrackInv, SentKept
  <1>4. CASE SubmitUnknown(share)
    <2>1. UNCHANGED tableVars /\ RecordedGrow /\ JobsKept
      BY <1>4, RecordedRefused DEF SubmitUnknown
    <2> QED
      BY <1>1, <2>1, TrackKept
  <1>5. ASSUME Known(root)
        PROVE  /\ work \in TrackedWork /\ work.user = sent[root].user
               /\ Len(work.nonces) \in Nat
               /\ NoncesRecorded(root, work.nonces)
               /\ root \in DOMAIN work_by_merkle_root /\ Len(work.nonces) <= NonceMax
                    => work.possible_stale = 0
    <2>1. /\ work \in TrackedWork
          /\ root \in DOMAIN work_by_merkle_root => work = work_by_merkle_root[root]
      BY <1>3, <1>5, LookupFacts
    <2>2. work.user = sent[root].user /\ NoncesRecorded(root, work.nonces)
      BY <1>3, <1>5, LookupTrue
    <2>3. Len(work.nonces) \in Nat
      BY <2>1, LenProperties DEF TrackedWork
    <2> QED
      BY <2>1, <2>2, <2>3 DEF TrackInv, SlotClear
  <1>6. CASE SubmitHeaderMismatch(share) \/ SubmitRepeated(share)
    <2>1. /\ Known(root) /\ Update(root, work) /\ RecordedGrow /\ JobsKept
      BY <1>1, <1>6, RecordedRefused DEF SubmitHeaderMismatch, SubmitRepeated
    <2>2. JobsTrue'
      BY <1>3, <2>1, JobsStay
    <2>3. \A i \in DOMAIN work.nonces :
            \E t \in Recorded' : t.root = root /\ t.nonce = work.nonces[i]
      BY <1>5, <2>1 DEF NoncesRecorded, RecordedGrow
    <2> HIDE DEF work
    <2> QED
      BY <1>1, <1>3, <1>5, <2>1, <2>2, <2>3, UpdateTracks
  <1>7. CASE SubmitRecorded(share, slot_was_stale)
    <2>a. Known(root) /\ Update(root, recorded)
      BY <1>1, <1>7 DEF SubmitRecorded
    <2>b. RecordedGrow /\ JobsTrue' /\ HasIt
      BY <1>1, <1>7, RecordedJobs
    <2> HIDE DEF work
    <2>1. /\ recorded \in TrackedWork
          /\ recorded.nonces = Append(work.nonces, nonce)
          /\ recorded.possible_stale =
               IF Len(work.nonces) = NonceMax THEN nonce ELSE work.possible_stale
          /\ recorded.user = work.user
      BY <1>5, <2>a, RecordNonceFacts DEF RecordNonce, TrackedWork
    <2> HIDE DEF recorded
    <2>2. /\ Len(recorded.nonces) = Len(work.nonces) + 1
          /\ DOMAIN recorded.nonces = 1 .. Len(work.nonces) + 1
          /\ DOMAIN work.nonces = 1 .. Len(work.nonces)
          /\ recorded.nonces[Len(work.nonces) + 1] = nonce
          /\ \A i \in 1 .. Len(work.nonces) : recorded.nonces[i] = work.nonces[i]
      <3>1. work.nonces \in Seq(Nonce) /\ recorded.nonces \in Seq(Nonce)
        BY <1>5, <2>a, <2>1 DEF TrackedWork
      <3> QED
        BY <2>1, <3>1, AppendProperties, LenProperties
    <2>3. \A i \in DOMAIN recorded.nonces :
            \E t \in Recorded' : t.root = root /\ t.nonce = recorded.nonces[i]
      <3>1. ASSUME NEW i \in 1 .. Len(work.nonces)
            PROVE  \E t \in Recorded' :
                     t.root = root /\ t.nonce = recorded.nonces[i]
        BY <1>5, <2>a, <2>b, <2>2 DEF NoncesRecorded, RecordedGrow
      <3>2. \E t \in Recorded' :
              t.root = root /\ t.nonce = recorded.nonces[Len(work.nonces) + 1]
        BY <2>b, <2>2
      <3> QED
        BY <1>5, <2>a, <2>2, <3>1, <3>2
    <2>4. root \in DOMAIN work_by_merkle_root /\ Len(recorded.nonces) <= NonceMax
            => recorded.possible_stale = 0
      BY <1>5, <2>a, <2>1, <2>2, ValidatorAssumption
    <2> QED
      BY <1>1, <1>3, <1>5, <2>a, <2>b, <2>1, <2>3, <2>4, UpdateTracks
  <1> QED
    BY <1>2, <1>4, <1>6, <1>7

LEMMA TrackStep ==
  ASSUME ValidatorInv, TrackInv, [ValidatorNext]_validatorVars
  PROVE  TrackInv' /\ RecordedGrow
  <1>1. ASSUME UNCHANGED <<tableVars, sent, block_num, pool, verdicts>>
        PROVE  TrackInv' /\ RecordedGrow
    <2>1. RecordedGrow /\ JobsKept
      BY <1>1 DEF RecordedGrow, Recorded, JobsKept
    <2> QED
      BY <1>1, <2>1, TrackKept
  <1>2. CASE ThreadStep
    <2>1. UNCHANGED <<tableVars, sent, block_num>>
      BY <1>2 DEF ThreadStep, ValidateInThread, hashVars
    <2>2. RecordedGrow /\ JobsKept
      BY <1>2, TypeFacts, RecordedThread DEF ValidatorInv
    <2> QED
      BY <2>1, <2>2, TrackKept
  <1>3. HashAnswer => UNCHANGED <<tableVars, sent, block_num, pool, verdicts>>
    BY DEF HashAnswer, OnBlockHash, OnBlockHashFailed, shareVars
  <1>4. UNCHANGED validatorVars =>
          UNCHANGED <<tableVars, sent, block_num, pool, verdicts>>
    BY DEF validatorVars, hashVars, shareVars
  <1>5. /\ ValidatorNewBlock => RecordedGrow
        /\ \A root, user : TrackWorkSent(root, user) => RecordedGrow
    BY DEF ValidatorNewBlock, TrackWorkSent, shareVars, RecordedGrow, Recorded
  <1> QED
    BY <1>1, <1>2, <1>3, <1>4, <1>5, TrackSent, TrackNewBlock, TrackSubmit
    DEF ValidatorNext

LEMMA TrackInvariant == ValidatorSafety => []TrackInv
  <1> QED
    BY TrackStep, TrackInit, ValidatorInvariant, PTL DEF ValidatorSafety

-----------------------------------------------------------------------------
(* What the validator may decide of a result whose miner did as it was told, *)
(* its item having been made for the block base.                             *)
Fair(v, base) ==
  LET s          == v.share
      is_current == sent[s.root].block = s.block
  IN
  /\ v.verdict \notin {"header", "user"}
  /\ v.verdict = "unknown" => sent[s.root].block < s.block - 1
  /\ v.verdict = "duplicate" /\ s.fits =>
       \E t \in Recorded :
         t.root = s.root /\ t.nonce = s.nonce /\ t.id < s.id
  /\ v.verdict = "stale" /\ s.fits /\ ~ s.marked => ~ is_current
  /\ v.verdict = "block" /\ s.fits
       /\ (IF is_current THEN s.settled ELSE s.kept_up) =>
       base # sent[s.root].block

(* The hash an item sent is checked with, while its nonces fit and that hash *)
(* is known, is that of the block it was sent at.                            *)
LEMMA RightHash ==
  ASSUME ValidatorInv, HashInv, TrackInv, NEW root \in DOMAIN sent,
         IF sent[root].block = block_num THEN HashSettled /\ timing.orderly
                                         ELSE timing.kept_up,
         Known(root), NEW hash \in {block_hash, block_hash_prev},
         hash = IF root \in DOMAIN work_by_merkle_root THEN block_hash
                                                       ELSE block_hash_prev
  PROVE  HashMatches(hash, sent[root].block) = {TRUE}
  <1>1. /\ block_num \in Nat /\ sent[root].block \in Nat /\ sent[root].block > 0
        /\ root \in DOMAIN work_by_merkle_root => sent[root].block = block_num
        /\ root \notin DOMAIN work_by_merkle_root => sent[root].block = block_num - 1
    BY TypeFacts
    DEF ValidatorInv, ValidatorTypeOK, TablesFollowBlocks, TrackInv,
        TablesComplete, Known, Blocks
  <1>2. CASE root \in DOMAIN work_by_merkle_root
    <2>1. hash_calls[block_num] = 0 /\ timing.orderly
      BY <1>1, <1>2 DEF HashSettled, ValidatorInv, ValidatorTypeOK
    <2>2. /\ block_hash # 0 /\ block_hash \notin freed
          /\ strings[block_hash] = block_num
      BY <1>1, <1>2, <2>1 DEF HashInv, HashFresh
    <2> QED
      BY <1>1, <1>2, <2>2 DEF HashMatches
  <1>3. CASE root \notin DOMAIN work_by_merkle_root
    <2>1. timing.kept_up
      BY <1>1, <1>3
    <2>2. /\ block_hash_prev # 0 /\ block_hash_prev \notin freed
          /\ strings[block_hash_prev] = block_num - 1
      BY <1>1, <1>3, <2>1 DEF HashInv, KeptUp
    <2> QED
      BY <1>1, <1>3, <2>2 DEF HashMatches
  <1> QED
    BY <1>2, <1>3

LEMMA RefusedOne ==
  ASSUME NEW share, NEW verdict, Refused(share, verdict),
         NEW v \in verdicts' \ verdicts
  PROVE  v.share = share /\ v.verdict = verdict
  BY DEF Refused

LEMMA SubmitFair ==
  ASSUME ValidatorInv, HashInv, OnePlaceEach, TrackInv, NEW root \in Root,
         NEW nonce \in Nonce, NEW user \in User, NEW on \in Blocks,
         NEW slot_was_stale \in BOOLEAN,
         Submit(root, nonce, user, on, TRUE, slot_was_stale),
         root \in DOMAIN sent, sent[root].user = user,
         NEW v \in verdicts' \ verdicts
  PROVE  v.share = Handed(root, nonce, user, on, FALSE) /\ Fair(v, on)
  <1> DEFINE share == Handed(root, nonce, user, on, FALSE)
             work == Lookup(root)
             recorded == RecordNonce(work, nonce)
             hash == IF recorded.possible_stale = 0 THEN block_hash
                                                    ELSE block_hash_prev
             Conclusion == v.share = share /\ Fair(v, on)
  <1>1. \/ ~ Known(root) /\ Refused(share, "unknown")
        \/ /\ Known(root) /\ Repeated(work, nonce)
           /\ Refused(share, "duplicate")
        \/ /\ Known(root) /\ ~ UserMatches(work, user)
           /\ Refused(share, "user")
        \/ /\ Known(root) /\ FALSE \in HashMatches(hash, on)
           /\ Refused(share, "block")
    BY DEF Submit, Handed, SubmitUnknown, SubmitRepeated, SubmitRecorded
  <1>2. \A verdict : Refused(share, verdict) => v.share = share /\ v.verdict = verdict
    BY RefusedOne
  <1>3. /\ share.root = root /\ share.nonce = nonce /\ share.id = shares + 1
        /\ share.block = block_num
        /\ share.settled = (HashSettled /\ timing.orderly)
        /\ share.kept_up = timing.kept_up
        /\ share.fits = NoncesFit(root) /\ share.on = on
    BY DEF Handed
  <1> HIDE DEF share, Conclusion
  <1>4. TablesOK /\ EntriesTrue /\ block_num \in Nat /\ shares \in Nat
    BY TypeFacts DEF ValidatorInv, TrackInv
  <1>5. ASSUME Known(root)
        PROVE  /\ work \in TrackedWork /\ work.user = user
               /\ NoncesRecorded(root, work.nonces)
               /\ Len(work.nonces) \in Nat
               /\ DOMAIN work.nonces = 1 .. Len(work.nonces)
               /\ NoncesFit(root) => Len(work.nonces) < NonceMax
               /\ root \in DOMAIN work_by_merkle_root => work = work_by_merkle_root[root]
               /\ root \notin DOMAIN work_by_merkle_root => work.possible_stale = 1
    <2>1. /\ work \in TrackedWork
          /\ root \in DOMAIN work_by_merkle_root => work = work_by_merkle_root[root]
          /\ root \notin DOMAIN work_by_merkle_root => work.possible_stale = 1
      BY <1>4, <1>5, LookupFacts
    <2>2. work.user = user /\ NoncesRecorded(root, work.nonces)
      BY <1>4, <1>5, LookupTrue
    <2>3. /\ Len(work.nonces) \in Nat
          /\ DOMAIN work.nonces = 1 .. Len(work.nonces)
      BY <2>1, LenProperties DEF TrackedWork
    <2> QED
      BY <1>5, <2>1, <2>2, <2>3 DEF NoncesFit
  <1>6. ASSUME ~ Known(root), Refused(share, "unknown")
        PROVE  Conclusion
    <2>1. sent[root].block \in Nat
      BY DEF ValidatorInv, ValidatorTypeOK, Blocks
    <2>2. sent[root].block < block_num - 1
      BY <1>4, <1>6, <2>1 DEF TrackInv, TablesComplete, Known
    <2> QED
      BY <1>2, <1>3, <1>6, <2>2 DEF Fair, Conclusion
  <1>7. ASSUME Known(root), Repeated(work, nonce), Refused(share, "duplicate")
        PROVE  Conclusion
    <2> HIDE DEF work
    <2>1. ASSUME share.fits
          PROVE  \E t \in Recorded :
                   t.root = root /\ t.nonce = nonce /\ t.id < share.id
      <3>1. PICK i \in DOMAIN work.nonces : NonceAt(work, i) = nonce
        BY <1>7 DEF Repeated
      <3>2. i # NonceMax + 1
        BY <1>3, <1>5, <1>7, <2>1, ValidatorAssumption
      <3>3. PICK t \in Recorded : t.root = root /\ t.nonce = nonce
        BY <1>5, <1>7, <3>1, <3>2 DEF NonceAt, NoncesRecorded
      <3>4. t.id \in 1 .. shares
        BY DEF OnePlaceEach, Recorded, Submissions
      <3> QED
        BY <1>3, <1>4, <3>3, <3>4
    <2> QED
      BY <1>2, <1>3, <1>7, <2>1 DEF Fair, Conclusion
  <1>8. ASSUME Known(root), ~ UserMatches(work, user)
        PROVE  Conclusion
    BY <1>5, <1>8 DEF UserMatches
  <1>9. ASSUME Known(root), FALSE \in HashMatches(hash, on),
               Refused(share, "block")
        PROVE  Conclusion
    <2>1. ASSUME IF sent[root].block = block_num
                 THEN HashSettled /\ timing.orderly ELSE timing.kept_up,
                 NoncesFit(root), on = sent[root].block
          PROVE  FALSE
      <3> HIDE DEF work
      <3>1. recorded.possible_stale = work.possible_stale
        BY <1>5, <1>9, <2>1, RecordNonceFacts, ValidatorAssumption
      <3>2. root \in DOMAIN work_by_merkle_root => work.possible_stale = 0
        BY <1>5, <1>9, <2>1, ValidatorAssumption DEF TrackInv, SlotClear
      <3>3. /\ hash \in {block_hash, block_hash_prev}
            /\ hash = IF root \in DOMAIN work_by_merkle_root THEN block_hash
                                                             ELSE block_hash_prev
        BY <1>5, <1>9, <3>1, <3>2
      <3> HIDE DEF hash
      <3>4. HashMatches(hash, on) = {TRUE}
        BY <1>9, <2>1, <3>3, RightHash
      <3> QED
        BY <1>9, <3>4
    <2>2. v.share = share /\ v.verdict = "block"
      BY <1>2, <1>9
    <2>3. ASSUME share.fits, on = sent[share.root].block,
                 IF sent[share.root].block = share.block THEN share.settled
                                                         ELSE share.kept_up
          PROVE  FALSE
      <3>1. NoncesFit(root) /\ on = sent[root].block
        BY <1>3, <2>3
      <3>2. CASE sent[root].block = block_num
        BY <1>3, <2>1, <2>3, <3>1, <3>2
      <3>3. CASE sent[root].block # block_num
        BY <1>3, <2>1, <2>3, <3>1, <3>3
      <3> QED
        BY <3>2, <3>3
    <2> QED
      BY <2>2, <2>3 DEF Fair, Conclusion
  <1> QED
    BY <1>1, <1>6, <1>7, <1>8, <1>9 DEF share, Conclusion

-----------------------------------------------------------------------------
(* The pool.                                                                 *)

HonestInv ==
  \A v \in verdicts :
    results[v.share.id].honest =>
      v.share.root \in DOMAIN sent /\ Fair(v, built_on[v.share.root])

(* What a decision was about is history, which never changes. *)
HistoryKept ==
  /\ SentKept
  /\ \A r \in DOMAIN sent : built_on'[r] = built_on[r]
  /\ \A id \in DOMAIN results : results'[id].honest = results[id].honest
  /\ RecordedGrow

LEMMA HonestKept ==
  ASSUME HonestInv, HistoryKept, OnePlaceEach, ResultsOK, shares \in Nat,
         NEW v \in verdicts, results'[v.share.id].honest
  PROVE  v.share.root \in DOMAIN sent' /\ Fair(v, built_on[v.share.root])'
  <1> DEFINE s == v.share
  <1>1. s.id \in 1 .. shares
    BY DEF OnePlaceEach, Submissions
  <1>2. results'[s.id].honest = results[s.id].honest
    BY <1>1, LenProperties DEF HistoryKept, ResultsOK
  <1>3. s.root \in DOMAIN sent /\ Fair(v, built_on[s.root])
    BY <1>2 DEF HonestInv
  <1>4. /\ s.root \in DOMAIN sent' /\ sent'[s.root] = sent[s.root]
        /\ built_on'[s.root] = built_on[s.root]
    BY <1>3 DEF HistoryKept, SentKept
  <1>5. Recorded \subseteq Recorded'
    BY DEF HistoryKept, RecordedGrow
  <1> QED
    BY <1>3, <1>4, <1>5 DEF Fair

LEMMA SentStep ==
  ASSUME [ValidatorNext]_validatorVars
  PROVE  SentKept
  <1>1. UNCHANGED sent => SentKept
    BY DEF SentKept
  <1>2. \A root, user : TrackWorkSent(root, user) => SentKept
    BY DEF TrackWorkSent, Inserted, SentKept
  <1>3. ValidatorNewBlock \/ HashAnswer \/ ThreadStep \/ UNCHANGED validatorVars
          => UNCHANGED sent
    BY DEF ValidatorNewBlock, HashAnswer, OnBlockHash, OnBlockHashFailed,
           ThreadStep, ValidateInThread, validatorVars
  <1>4. \A root, nonce, user, on, intact, slot_was_stale :
          Submit(root, nonce, user, on, intact, slot_was_stale) => UNCHANGED sent
    BY DEF Submit
  <1> QED
    BY <1>1, <1>2, <1>3, <1>4 DEF ValidatorNext

LEMMA BuiltStep ==
  ASSUME ItemsOK, [DanceNext]_poolDanceVars, NEW r \in DOMAIN sent
  PROVE  built_on'[r] = built_on[r]
  <1>1. ASSUME NEW root \in Root, NEW user \in User, ServeItem(root, user)
        PROVE  built_on'[r] = built_on[r]
    BY <1>1 DEF ServeItem, TrackWorkSent, Inserted, ItemsOK
  <1>2. CASE UNCHANGED built_on
    BY <1>2
  <1>3. UNCHANGED poolDanceVars \/ NodeGrows \/ NoticeBlock \/ ServeItemFails
          \/ MinerTurn \/ (ValidatorTurn /\ UNCHANGED <<servingVars, danceVars>>)
          => UNCHANGED built_on
    BY DEF poolDanceVars, danceVars, NodeGrows, NoticeBlock, ServeItemFails,
           MinerTurn
  <1>4. /\ \A age, on : ItemArrives(age, on) => UNCHANGED built_on
        /\ \A c : MinerLeaves(c) => UNCHANGED built_on
        /\ \A v : OnValidate(v) => UNCHANGED built_on
        /\ \A c, root, nonce, user, on, intact, slot_was_stale :
             PutWork(c, root, nonce, user, on, intact, slot_was_stale)
               => UNCHANGED built_on
    BY DEF ItemArrives, MinerLeaves, OnValidate, PutWork
  <1>5. \A id : /\ \A found : NodeJudges(id, found) => UNCHANGED built_on
                /\ OnSubmitWork(id) \/ OnSubmitWorkFailed(id)
                     => UNCHANGED built_on
    BY DEF NodeJudges, OnSubmitWork, OnSubmitWorkFailed
  <1> QED
    BY <1>1, <1>2, <1>3, <1>4, <1>5 DEF DanceNext, ValidateTurn

(* The results other than a new one keep what their miners did. *)
LEMMA HonestyStep ==
  ASSUME ResultsOK, shares \in Nat, [DanceNext]_poolDanceVars,
         NEW id \in DOMAIN results
  PROVE  results'[id].honest = results[id].honest
  <1> DEFINE Kept == results'[id].honest = results[id].honest
  <1>a. /\ results \in Seq(Result) /\ DOMAIN results = 1 .. Len(results)
        /\ \A i \in DOMAIN results : results[i] \in Result
    BY LenProperties, ElementOfSeq DEF ResultsOK
  <1>1. \/ UNCHANGED poolDanceVars \/ NodeGrows \/ NoticeBlock \/ ServeItemFails
        \/ MinerTurn \/ (ValidatorTurn /\ UNCHANGED <<servingVars, danceVars>>)
        => UNCHANGED results
    BY DEF poolDanceVars, danceVars, NodeGrows, NoticeBlock, ServeItemFails,
           MinerTurn
  <1>2. /\ \A age, on : ItemArrives(age, on) => UNCHANGED results
        /\ \A root, user : ServeItem(root, user) => UNCHANGED results
        /\ \A c : MinerLeaves(c) => UNCHANGED results
    BY DEF ItemArrives, ServeItem, MinerLeaves
  <1>3. ASSUME NEW c \in Conn, NEW root \in Root, NEW nonce \in Nonce,
               NEW user \in User, NEW on \in Blocks, NEW intact \in BOOLEAN,
               NEW slot_was_stale \in BOOLEAN,
               PutWork(c, root, nonce, user, on, intact, slot_was_stale)
        PROVE  Kept
    <2>1. PICK r : results' = Append(results, r)
      BY <1>3 DEF PutWork
    <2> QED
      BY <1>a, <2>1
  <1>4. ASSUME NEW v \in verdicts, OnValidate(v)
        PROVE  Kept
    BY <1>a, <1>4 DEF OnValidate, Result
  <1>5. ASSUME NEW i \in DOMAIN results, NEW found \in BOOLEAN, NodeJudges(i, found)
        PROVE  Kept
    BY <1>a, <1>5 DEF NodeJudges, Result
  <1>6. ASSUME NEW i \in DOMAIN results
        PROVE  /\ OnSubmitWork(i) => Kept
               /\ OnSubmitWorkFailed(i) => Kept
    <2>1. ASSUME OnSubmitWork(i)
          PROVE  Kept
      BY <1>a, <2>1 DEF OnSubmitWork, Result
    <2>2. ASSUME OnSubmitWorkFailed(i)
          PROVE  Kept
      BY <1>a, <2>2 DEF OnSubmitWorkFailed, Result
    <2> QED
      BY <2>1, <2>2
  <1>7. UNCHANGED results => Kept
    OBVIOUS
  <1> HIDE DEF Kept
  <1>8. Kept
    BY <1>1, <1>2, <1>3, <1>4, <1>5, <1>6, <1>7 DEF DanceNext, ValidateTurn
  <1> QED
    BY <1>8 DEF Kept

LEMMA SubmitDecides ==
  ASSUME NEW root, NEW nonce, NEW user, NEW on, NEW intact, NEW slot_was_stale,
         Submit(root, nonce, user, on, intact, slot_was_stale),
         NEW v \in verdicts' \ verdicts
  PROVE  v.share = Handed(root, nonce, user, on, FALSE)
  <1> DEFINE share == Handed(root, nonce, user, on, FALSE)
  <1>1. \E verdict : Refused(share, verdict)
    BY DEF Submit, Handed, SubmitUnknown, SubmitHeaderMismatch, SubmitRepeated,
           SubmitRecorded
  <1> HIDE DEF share
  <1>2. v.share = share
    BY <1>1, RefusedOne
  <1> QED
    BY <1>2 DEF share

(* What was decided in a step: at once when the result was submitted, or by  *)
(* a thread, as stale only when it went there as such.                       *)
LEMMA DecidedFairly ==
  ASSUME ValidatorInv, HashInv, OnePlaceEach, TrackInv, ResultsOK,
         [DanceNext]_poolDanceVars, NEW v \in verdicts' \ verdicts,
         results'[v.share.id].honest
  PROVE  v.share.root \in DOMAIN sent /\ Fair(v, built_on[v.share.root])
  <1> DEFINE Conclusion == /\ v.share.root \in DOMAIN sent
                           /\ Fair(v, built_on[v.share.root])
  <1>1. ASSUME NEW c \in Conn, NEW root \in Root, NEW nonce \in Nonce,
               NEW user \in User, NEW on \in Blocks, NEW intact \in BOOLEAN,
               NEW slot_was_stale \in BOOLEAN,
               PutWork(c, root, nonce, user, on, intact, slot_was_stale)
        PROVE  Conclusion
    <2>1. Submit(root, nonce, user, on, intact, slot_was_stale)
      BY <1>1 DEF PutWork
    <2> DEFINE share == Handed(root, nonce, user, on, FALSE)
    <2>2. /\ share.root = root /\ share.id = shares + 1 /\ share.id \in Nat
      BY TypeFacts DEF Handed, ValidatorInv
    <2>3. v.share = share
      BY <2>1, SubmitDecides
    <2>4. results'[shares + 1].honest = Honest(root, user, on, intact)
      BY <1>1, TypeFacts DEF PutWork, ResultsOK, ValidatorInv
    <2> HIDE DEF share
    <2>5. intact /\ root \in DOMAIN sent /\ sent[root].user = user /\ built_on[root] = on
      BY <2>2, <2>3, <2>4 DEF Honest
    <2>6. intact = TRUE
      BY <2>5
    <2>7. Submit(root, nonce, user, on, TRUE, slot_was_stale)
      BY <2>1, <2>6
    <2>8. Fair(v, on)
      BY <2>5, <2>7, SubmitFair
    <2> QED
      BY <2>2, <2>3, <2>5, <2>8
  <1>2. ValidatorTurn => Conclusion
    <2>1. ASSUME ThreadStep
          PROVE  Conclusion
      <3>1. PICK i \in DOMAIN pool, meets_target \in BOOLEAN :
              ValidateInThread(i, meets_target)
        BY <2>1 DEF ThreadStep
      <3>2. /\ v.share = pool[i].share
            /\ v.verdict \in {"target", "stale", "success"}
            /\ v.verdict = "stale" => pool[i].stale
        BY <3>1 DEF ValidateInThread
      <3>3. JobTrue(pool[i])
        BY DEF TrackInv, JobsTrue
      <3> QED
        BY <3>2, <3>3 DEF JobTrue, Fair
    <2>2. HashAnswer => UNCHANGED verdicts
      BY DEF HashAnswer, OnBlockHash, OnBlockHashFailed, shareVars
    <2> QED
      BY <2>1, <2>2 DEF ValidatorTurn
  <1>3. UNCHANGED verdicts => Conclusion
    OBVIOUS
  <1> HIDE DEF Conclusion
  <1>4. UNCHANGED poolDanceVars \/ NodeGrows \/ NoticeBlock \/ ServeItemFails
          \/ MinerTurn => UNCHANGED verdicts
    BY DEF poolDanceVars, validatorVars, shareVars, NodeGrows, NoticeBlock,
           ValidatorNewBlock, ServeItemFails, MinerTurn
  <1>5. /\ \A age, on : ItemArrives(age, on) => UNCHANGED verdicts
        /\ \A root, user : ServeItem(root, user) => UNCHANGED verdicts
        /\ \A c : MinerLeaves(c) => UNCHANGED verdicts
        /\ \A w : OnValidate(w) => UNCHANGED verdicts
    BY DEF ItemArrives, ServeItem, TrackWorkSent, MinerLeaves, OnValidate,
           validatorVars, shareVars
  <1>6. \A id : /\ \A found : NodeJudges(id, found) => UNCHANGED verdicts
                /\ OnSubmitWork(id) \/ OnSubmitWorkFailed(id)
                     => UNCHANGED verdicts
    BY DEF NodeJudges, OnSubmitWork, OnSubmitWorkFailed, validatorVars, shareVars
  <1>7. Conclusion
    BY <1>1, <1>2, <1>3, <1>4, <1>5, <1>6 DEF DanceNext, ValidateTurn
  <1> QED
    BY <1>7 DEF Conclusion

LEMMA HonestStep ==
  ASSUME ValidatorInv, HashInv, OnePlaceEach, TrackInv, ResultsOK, ItemsOK,
         HonestInv, [DanceNext]_poolDanceVars
  PROVE  HonestInv'
  <1>1. shares \in Nat
    BY TypeFacts DEF ValidatorInv
  <1>2. HistoryKept
    BY <1>1, SentStep, TrackStep, BuiltStep, HonestyStep,
       DanceStepValidates DEF HistoryKept
  <1>3. ASSUME NEW v \in verdicts', results'[v.share.id].honest
        PROVE  v.share.root \in DOMAIN sent' /\ Fair(v, built_on[v.share.root])'
    <2>1. CASE v \in verdicts
      BY <1>1, <1>2, <1>3, <2>1, HonestKept
    <2>2. CASE v \notin verdicts
      <3>1. v.share.root \in DOMAIN sent /\ Fair(v, built_on[v.share.root])
        BY <1>3, <2>2, DecidedFairly
      <3>2. /\ v.share.root \in DOMAIN sent'
            /\ sent'[v.share.root] = sent[v.share.root]
            /\ built_on'[v.share.root] = built_on[v.share.root]
            /\ Recorded \subseteq Recorded'
        BY <1>2, <3>1 DEF HistoryKept, SentKept, RecordedGrow
      <3> QED
        BY <3>1, <3>2 DEF Fair
    <2> QED
      BY <2>1, <2>2
  <1> QED
    BY <1>3 DEF HonestInv

(* What a miner that does as it is told is refused for, apart from a hash    *)
(* above the target, while the nonces fit in their array: an item two blocks *)
(* old, a nonce recorded before (by whoever's result), an item sent before   *)
(* the last block or a result in memory that came marked (the uninitialised  *)
(* word of work_result_new), and an item that did not build on the block it  *)
(* was served at or whose hash was not known.  Nothing is supposed of when   *)
(* the node answers, or of what other miners send.                           *)
THEOREM HonestAreJudged == DanceSpec => []HonestIsJudged
  <1>1. DanceInit => HonestInv
    BY DEF DanceInit, ValidatorInit, HonestInv
  <1>2. ResultInv => ResultsOK
    BY DEF ResultInv
  <1>3. DanceSpec => []HonestInv
    BY <1>1, <1>2, HonestStep, PoolValidates, ValidatorInvariant, HashInvariant,
       LedgerInvariant, TrackInvariant, ResultInvariant, ItemsInvariant, PTL
    DEF DanceSpec
  <1>4. HonestInv => HonestIsJudged
    BY DEF HonestInv, Fair, HonestIsJudged
  <1> QED
    BY <1>3, <1>4, PTL
=============================================================================
