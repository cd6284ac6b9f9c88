---------------------------- MODULE RoundManager ----------------------------
(***************************************************************************)
(* The round file (pool-dance/round-manager.c on top of file-logger.c):    *)
(* every validated share is logged to it, and a block found ends the       *)
(* round: the BLOCK entry is logged, the file is flushed, left alone for a *)
(* second, copied aside under the block's number and truncated.            *)
(*                                                                         *)
(* The file system is outside: a write may fail or write a part, copying   *)
(* or truncating may fail, and the process may be killed at any time and   *)
(* started again on the files it left.                                     *)
(***************************************************************************)
EXTENDS FileLogger, SequencesExt

CONSTANTS
  MaxShares,       \* bound on the shares validated
  MaxBlocks,       \* bound on the blocks found
  MaxWriteFaults,  \* bound on the short or failed writes
  MaxCopyFaults,   \* bound on the failed copies and truncations
  MaxRestarts,     \* bound on the restarts
  MaxOverlaps      \* bound on the blocks found while a round is being closed

ASSUME RoundManagerAssumption ==
  /\ MaxShares \in Nat
  /\ MaxBlocks \in Nat
  /\ MaxWriteFaults \in Nat
  /\ MaxCopyFaults \in Nat
  /\ MaxRestarts \in Nat
  /\ MaxOverlaps \in Nat

Block == 1 .. MaxBlocks

ASSUME NoCopyIsNoBlock == NoCopy \notin Block

VARIABLES
  logger,      \* the logger of the round file
  file,        \* contents of the round file
  copies,      \* the copies of rounds in the order they were made
  timers,      \* blocks whose copy_and_truncate_on_timeout is scheduled
  shares,      \* shares validated so far
  found,       \* blocks found so far
  faults,      \* [write, copy, restart, overlap]: how many have happened
  logged,      \* history: entries logged, without those a restart lost
  truncated,   \* history: entries removed from the file by truncation
  quiet        \* history: blocks found with the logger at rest

roundVars == <<logger, file, copies, timers, shares, found, faults, logged,
               truncated, quiet>>

Started == [kind |-> "STARTED", n |-> 0]
Resumed == [kind |-> "RESUMED", n |-> 0]
Share(i) == [kind |-> "SHARE", n |-> i]
BlockEntry(b) == [kind |-> "BLOCK", n |-> b]

Entry ==
  {Started, Resumed} \union {Share(i) : i \in 1 .. MaxShares}
                     \union {BlockEntry(b) : b \in Block}

RoundTypeOK ==
  /\ logger \in LoggersOver(Entry, Block)
  /\ file \in Seq(Entry)
  /\ copies \in Seq([block : Block, content : Seq(Entry)])
  /\ timers \in SUBSET Block
  /\ shares \in 0 .. MaxShares
  /\ found \in 0 .. MaxBlocks
  /\ faults \in [write : 0 .. MaxWriteFaults, copy : 0 .. MaxCopyFaults,
                 restart : 0 .. MaxRestarts, overlap : 0 .. MaxOverlaps]
  /\ logged \in Seq(Entry)
  /\ truncated \in Seq(Entry)
  /\ quiet \in SUBSET Block

(* init_log_file: a file it creates is logged to through the stream alone,   *)
(* one it finds is opened by name.                                           *)
OpenLogger(exists) ==
  Log(NewLogger(exists), IF exists THEN Resumed ELSE Started)

(* The pool is started, on a round file that exists or not.                  *)
RoundInit ==
  /\ \E exists \in BOOLEAN :
       /\ logger = OpenLogger(exists)
       /\ logged = <<IF exists THEN Resumed ELSE Started>>
  /\ file = <<>>
  /\ copies = <<>>
  /\ timers = {}
  /\ shares = 0
  /\ found = 0
  /\ faults = [write |-> 0, copy |-> 0, restart |-> 0, overlap |-> 0]
  /\ truncated = <<>>
  /\ quiet = {}

-----------------------------------------------------------------------------

(* on_work_validated *)
WorkValidated ==
  /\ shares < MaxShares
  /\ shares' = shares + 1
  /\ logger' = Log(logger, Share(shares'))
  /\ logged' = Append(logged, Share(shares'))
  /\ UNCHANGED <<file, copies, timers, found, faults, truncated, quiet>>

AtRest ==
  logger.pending = "none" /\ logger.async_result = NoCopy /\ ~ logger.frozen

(* The two calls of on_block_found, in their order. *)
CloseRound(l, b) == CopyAndTruncate(Log(l, BlockEntry(b)), b)

(* on_block_found.  When the copy is refused, its callback only warns.       *)
BlockFound ==
  LET b == found + 1
  IN  /\ found < MaxBlocks
      /\ logger.frozen => faults.overlap < MaxOverlaps
      /\ found' = b
      /\ logger' = CloseRound(logger, b)
      /\ logged' = Append(logged, BlockEntry(b))
      /\ quiet' = IF AtRest THEN quiet \union {b} ELSE quiet
      /\ faults' = IF logger.frozen THEN [faults EXCEPT !.overlap = @ + 1]
                   ELSE faults
      /\ UNCHANGED <<file, copies, timers, shares, truncated>>

(* The stream has written n entries of the string, or failed (n = 0).        *)
WriteCompletes(n) ==
  /\ logger.pending = "write"
  /\ n = Len(logger.write_all_string) \/ faults.write < MaxWriteFaults
  /\ file' = file \o SubSeq(logger.write_all_string, 1, n)
  /\ logger' = Written(logger, n)
  /\ faults' = IF n = Len(logger.write_all_string) THEN faults
               ELSE [faults EXCEPT !.write = @ + 1]
  /\ UNCHANGED <<copies, timers, shares, found, logged, truncated, quiet>>

(* The stream is flushed: copy_and_truncate_on_logger_flushed runs within    *)
(* on_flush and schedules the copy.                                          *)
FlushCompletes ==
  /\ logger.pending = "flush"
  /\ timers' = timers \union {logger.async_result}
  /\ logger' = Flushed(logger)
  /\ UNCHANGED <<file, copies, shares, found, faults, logged, truncated, quiet>>

(* copy_and_truncate_on_timeout when both calls succeed.  on_copy_and_truncate *)
(* logs STARTED while the logger is still frozen, then it is thawed.  The     *)
(* stream refuses to truncate while it has an operation pending.             *)
RoundClosed(b) ==
  /\ b \in timers
  /\ logger.pending = "none"
  /\ copies' = Append(copies, [block |-> b, content |-> file])
  /\ file' = <<>>
  /\ truncated' = truncated \o file
  /\ timers' = timers \ {b}
  /\ logger' = Thaw(Log(logger, Started))
  /\ logged' = Append(logged, Started)
  /\ UNCHANGED <<shares, found, faults, quiet>>

(* copy_and_truncate_on_timeout when the copy (copied = FALSE) or the        *)
(* truncation fails: the round goes on in the same file.                     *)
RoundNotClosed(b, copied) ==
  LET refused == copied /\ logger.pending # "none"
  IN  /\ b \in timers
      /\ refused \/ faults.copy < MaxCopyFaults
      /\ faults' = IF refused THEN faults ELSE [faults EXCEPT !.copy = @ + 1]
      /\ copies' = IF copied
                   THEN Append(copies, [block |-> b, content |-> file])
                   ELSE copies
      /\ timers' = timers \ {b}
      /\ logger' = Thaw(logger)
      /\ UNCHANGED <<file, shares, found, logged, truncated, quiet>>

(* The process starts again on the files it left: what was not on file is    *)
(* lost.                                                                     *)
Reopen ==
  /\ faults.restart < MaxRestarts
  /\ faults' = [faults EXCEPT !.restart = @ + 1]
  /\ logger' = OpenLogger(TRUE)
  /\ logged' = Append(truncated \o file, Resumed)
  /\ timers' = {}
  /\ UNCHANGED <<file, shares, found, truncated, quiet>>

Killed == Reopen /\ UNCHANGED copies

(* Killed in copy_and_truncate_on_timeout, after the copy. *)
KilledInCopy(b) ==
  /\ b \in timers
  /\ copies' = Append(copies, [block |-> b, content |-> file])
  /\ Reopen

CopyTimeout(b) ==
  RoundClosed(b) \/ \E copied \in BOOLEAN : RoundNotClosed(b, copied)

RoundNext ==
  \/ WorkValidated
  \/ BlockFound
  \/ \E n \in 0 .. Len(logger.write_all_string) : WriteCompletes(n)
  \/ FlushCompletes
  \/ \E b \in timers : CopyTimeout(b) \/ KilledInCopy(b)
  \/ Killed

(* Every operation the stream is given completes, and the main loop runs its *)
(* timeouts.                                                                 *)
RoundFairness ==
  /\ WF_roundVars(\E n \in 0 .. Len(logger.write_all_string) :
                    WriteCompletes(n))
  /\ WF_roundVars(FlushCompletes)
  /\ WF_roundVars(\E b \in timers : CopyTimeout(b))

RoundSpec == RoundInit /\ [][RoundNext]_roundVars /\ RoundFairness

-----------------------------------------------------------------------------

(* Whatever is short, fails, is refused or overlaps, every entry logged is   *)
(* in exactly one place, in order: taken away by a truncation, on the round  *)
(* file, in the string being written, or queued.                             *)
LogConserved ==
  logged = truncated \o file \o logger.write_all_string \o logger.queue

(* The copy of a round whose block was found while the logger was at rest    *)
(* ends with the BLOCK entry of that block: the whole round and nothing of   *)
(* the next.  The flush tolerates one short write, not two.                  *)
QuietRoundCopied ==
  \A i \in DOMAIN copies :
    copies[i].block \in quiet /\ faults.write < 2 =>
      /\ copies[i].content # <<>>
      /\ Last(copies[i].content) = BlockEntry(copies[i].block)

(* The copy of a round has the entry of the block that ended it. *)
RoundCopied ==
  \A i \in DOMAIN copies :
    BlockEntry(copies[i].block) \in ToSet(copies[i].content)

AllWritten == logger.queue = <<>> /\ logger.write_all_string = <<>>

Archived(b) == \E i \in DOMAIN copies : copies[i].block = b

(* When nothing more happens every entry logged gets to the round file:      *)
(* neither a flush nor a frozen logger holds entries back for ever.          *)
EventuallyLogged == <>[]AllWritten

(* It does unless a block is found while a round is being closed, whatever   *)
(* is short, fails or restarts.                                              *)
SpacedIsLogged == <>[](faults.overlap = 0 => AllWritten)

(* Every block found ends in a copy of its round, when blocks are found      *)
(* apart and neither the copy fails nor the process is killed before it,     *)
(* whatever the writes do; but of a round file that the pool created, and    *)
(* has not been restarted on, no copy is made at all (init_log_file has its  *)
(* logger from the stream, and file_logger_copy_and_truncate wants a file).  *)
SpacedIsArchived ==
  \A b \in Block :
    found >= b ~> \/ Archived(b)
                  \/ faults.copy + faults.restart + faults.overlap > 0
                  \/ ~ logger.file_known /\ copies = <<>>

(* While blocks are found apart, what the log waits for is under way: either *)
(* every entry is on file, or the stream is busy or a copy is scheduled; and *)
(* the copy of each round is made, scheduled, or waited for by the flush     *)
(* that the stream works for.                                                *)
NothingIsStranded ==
  faults.overlap = 0 =>
    /\ AllWritten \/ logger.pending # "none" \/ timers # {}
    /\ logger.file_known /\ faults.copy + faults.restart = 0 =>
         \A b \in 1 .. found :
           \/ Archived(b)
           \/ b \in timers
           \/ logger.async_result = b /\ logger.pending # "none"

(* What the round file promises, on its real state: the entries logged are   *)
(* those of the rounds taken away, on file, being written and queued.        *)
Promise == INSTANCE RoundLog WITH
  Entry    <- Entry,
  Block    <- Block,
  Opening  <- {Started, Resumed},
  entries  <- truncated \o file \o logger.write_all_string \o logger.queue,
  durable  <- Len(truncated) + Len(file),
  archived <- Len(truncated),
  copies   <- copies

(* The logger keeps that promise: no entry on file is ever lost, changed or  *)
(* overtaken, and a copy is what was on file of the round.                   *)
KeepsPromise == Promise!LogSpec
=============================================================================
