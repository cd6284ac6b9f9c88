----------------------------- MODULE FileLogger -----------------------------
(***************************************************************************)
(* The asynchronous log writer (pool-dance/file-logger.c), as operators on *)
(* the record of one logger: each returns the logger after the call, so    *)
(* that a handler that makes several calls composes them.                  *)
(*                                                                         *)
(* Entries wait in queue; write_all moves them to write_all_string and     *)
(* hands that string to the output stream, which runs one operation at a   *)
(* time (pending) and may write only a part of it.  A flush holds entries  *)
(* back until the string has been written.  While the logger is frozen     *)
(* entries only queue.  The unit of writing is an entry.                   *)
(***************************************************************************)
EXTENDS Naturals, Sequences

CONSTANT NoCopy   \* async_result = NULL: no flush under way

(* file_known: the logger was opened by file_logger_new and has the GFile,   *)
(* file_logger_new_from_stream has not.                                      *)
NewLogger(file_known) ==
  [file_known       |-> file_known,
   queue            |-> <<>>,
   write_all_string |-> <<>>,
   pending          |-> "none",
   flushing         |-> FALSE,
   async_result     |-> NoCopy,
   frozen           |-> FALSE]

(* The loggers over the given entries and copies. *)
LoggersOver(Entry, Copy) ==
  [file_known       : BOOLEAN,
   queue            : Seq(Entry),
   write_all_string : Seq(Entry),
   pending          : {"none", "write", "flush"},
   flushing         : BOOLEAN,
   async_result     : Copy \union {NoCopy},
   frozen           : BOOLEAN]

(* Entries may leave the queue. *)
Writable(l) == ~ l.frozen /\ ~ l.flushing /\ l.async_result = NoCopy

(* Mutation: the queue goes before what is left of the string. *)
DrainAhead(l) ==
  [l EXCEPT !.write_all_string = l.queue \o @, !.queue = <<>>]

(* The queue joins what is left of the string. *)
Drain(l) ==
  [l EXCEPT !.write_all_string = @ \o l.queue, !.queue = <<>>]

(* write_all *)
WriteAll(l) ==
  LET drained == IF Writable(l) THEN Drain(l) ELSE l
      started == [drained EXCEPT !.pending = "write"]
  IN  IF l.pending # "none" THEN l
      ELSE IF drained.write_all_string = <<>> THEN drained ELSE started

(* file_logger_log *)
Log(l, entry) ==
  LET queued == [l EXCEPT !.queue = Append(@, entry)]
  IN  IF Writable(l) THEN WriteAll(queued) ELSE queued

(* file_logger_flush fails with G_IO_ERROR_PENDING. *)
FlushRefused(l) == l.async_result # NoCopy

(* file_logger_flush, accepted. *)
Flush(l, copy) ==
  LET asked == [l EXCEPT !.async_result = copy]
  IN  IF l.pending # "none" THEN [asked EXCEPT !.flushing = TRUE]
                            ELSE WriteAll([asked EXCEPT !.flushing = FALSE])

(* file_logger_freeze *)
Freeze(l) == [l EXCEPT !.frozen = TRUE]

(* Mutation: the logger is not thawed. *)
ThawForgotten(l) == WriteAll(l)

(* file_logger_thaw: write_all does nothing when there is nothing to write. *)
Thaw(l) == WriteAll([l EXCEPT !.frozen = FALSE])

(* Mutation: the string is emptied whatever the stream took of it. *)
ErasedWhole(l, n) == [l EXCEPT !.pending = "none",
                               !.write_all_string = <<>>]

(* What is left when n entries of the string have been written; n = 0 also   *)
(* stands for a write that failed.                                           *)
Erased(l, n) ==
  [l EXCEPT !.pending = "none",
            !.write_all_string = SubSeq(@, n + 1, Len(@))]

(* Mutations: a write that ends starts no flush; it starts the flush without *)
(* retrying what is left.                                                    *)
WrittenNoFlush(l, n) == WriteAll([Erased(l, n) EXCEPT !.flushing = FALSE])

WrittenNoRetry(l, n) ==
  LET ended == [Erased(l, n) EXCEPT !.flushing = FALSE]
  IN  IF l.async_result # NoCopy THEN [ended EXCEPT !.pending = "flush"]
                                 ELSE WriteAll(ended)

(* on_log_entry_written: a flush retries what is left once, and only once.   *)
Written(l, n) ==
  LET erased == Erased(l, n)
      ended  == [erased EXCEPT !.flushing = FALSE]
      retry  == l.flushing /\ ended.write_all_string # <<>>
  IN  IF l.async_result # NoCopy /\ ~ retry
      THEN [ended EXCEPT !.pending = "flush"]
      ELSE WriteAll(ended)

(* Mutation: the stream is still taken for busy. *)
FlushedBusy(l) == [l EXCEPT !.async_result = NoCopy]

(* on_flush: errors are printed and dropped. *)
Flushed(l) == [l EXCEPT !.pending = "none", !.async_result = NoCopy]

(* file_logger_copy_and_truncate, up to the start of its flush: without the  *)
(* GFile, or with a flush under way, the caller only gets an error, but in   *)
(* the second case the logger is already frozen.                             *)
CopyAndTruncate(l, copy) ==
  IF ~ l.file_known THEN l
  ELSE IF FlushRefused(l) THEN Freeze(l)
  ELSE Flush(Freeze(l), copy)
=============================================================================
