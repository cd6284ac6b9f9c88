----------------------------- MODULE ShareLedger -----------------------------
(* What the validator promises of the results submitted: each is accepted or *)
(* refused at most once, for good, and the same item of work with the same   *)
(* nonce is accepted only once.                                              *)
EXTENDS Naturals

CONSTANTS
  Id,     \* names of the results
  Item    \* what a result answers: an item of work, with a nonce

VARIABLES
  submitted,   \* results handed in, [id, item]
  accepted,    \* the names of those accepted
  refused      \* the names of those refused

ledgerVars == <<submitted, accepted, refused>>

LedgerInit ==
  /\ submitted = {}
  /\ accepted = {}
  /\ refused = {}

Undecided(r) == r.id \notin accepted \union refused

(* A result is handed in; it may be refused at once. *)
HandIn(id, item) ==
  /\ \A r \in submitted : r.id # id
  /\ submitted' = submitted \union {[id |-> id, item |-> item]}
  /\ refused' \in {refused, refused \union {id}}
  /\ UNCHANGED accepted

Accept(r) ==
  /\ Undecided(r)
  /\ \A s \in submitted : s.item = r.item => s.id \notin accepted
  /\ accepted' = accepted \union {r.id}
  /\ UNCHANGED <<submitted, refused>>

Refuse(r) ==
  /\ Undecided(r)
  /\ refused' = refused \union {r.id}
  /\ UNCHANGED <<submitted, accepted>>

Decide(id) == \E r \in submitted : r.id = id /\ (Accept(r) \/ Refuse(r))

LedgerNext ==
  \/ \E id \in Id, item \in Item : HandIn(id, item)
  \/ \E id \in Id : Decide(id)

LedgerSpec == LedgerInit /\ [][LedgerNext]_ledgerVars
=============================================================================
