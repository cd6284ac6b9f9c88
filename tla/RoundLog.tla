------------------------------ MODULE RoundLog ------------------------------
(* What the round file promises of the entries logged to it: they stay in    *)
(* the order they were logged, what is on file is never lost or changed, a   *)
(* round is taken away from the front, and a copy holds just what was on     *)
(* file.  Only a restart loses entries, and only those not on file.          *)
EXTENDS Naturals, Sequences

CONSTANTS
  Entry,     \* what may be logged
  Block,     \* the blocks a round may end with
  Opening    \* the entries a file is opened with

VARIABLES
  entries,   \* the entries logged that are not lost
  durable,   \* how many of them have been on file
  archived,  \* how many of those belong to rounds taken away
  copies     \* the copies made

logVars == <<entries, durable, archived, copies>>

LogInit ==
  /\ \E e \in Opening : entries = <<e>>
  /\ durable = 0
  /\ archived = 0
  /\ copies = <<>>

Logged(e) ==
  /\ entries' = Append(entries, e)
  /\ UNCHANGED <<durable, archived, copies>>

Persisted(n) ==
  /\ durable' = n
  /\ UNCHANGED <<entries, archived, copies>>

Copied(b) ==
  copies' = Append(copies, [block |-> b,
                            content |-> SubSeq(entries, archived + 1, durable)])

CopyMade(b) ==
  /\ Copied(b)
  /\ UNCHANGED <<entries, durable, archived>>

RoundArchived(b) ==
  /\ Copied(b)
  /\ archived' = durable
  /\ \E e \in Opening : entries' = Append(entries, e)
  /\ UNCHANGED durable

Restarted ==
  /\ \E e \in Opening : entries' = Append(SubSeq(entries, 1, durable), e)
  /\ UNCHANGED <<durable, archived>>
  /\ UNCHANGED copies \/ \E b \in Block : Copied(b)

LogNext ==
  \/ \E e \in Entry : Logged(e)
  \/ \E n \in durable .. Len(entries) : Persisted(n)
  \/ \E b \in Block : CopyMade(b) \/ RoundArchived(b)
  \/ Restarted

LogSpec == LogInit /\ [][LogNext]_logVars
=============================================================================
