---------------------------- MODULE PosixOutput -----------------------------
(***************************************************************************)
(* Class buffer on top of posix_fd_storage: lines are copied into a buffer *)
(* that is written when it is full, flushed, synced or reopened.  write(2) *)
(* may be short or fail; a failure is thrown through the buffer and caught *)
(* in print or flush, and the buffer is kept.  The file may be truncated   *)
(* by others (copytruncate) or rotated and reopened.                       *)
(*                                                                         *)
(* Bytes are numbered in the order in which they are printed.              *)
(***************************************************************************)
EXTENDS Integers, Sequences, Functions

CONSTANTS buffer_capacity,
          MaxLine,       \* bytes in a line
          MaxBytes,      \* bound: bytes printed
          MaxFailures,   \* bound: writes that fail
          MaxOps         \* bound: truncations, and reopens

ASSUME PosixAssumption ==
  /\ buffer_capacity \in Nat \ {0} /\ MaxLine \in Nat \ {0}
  /\ MaxBytes \in Nat /\ MaxFailures \in Nat /\ MaxOps \in Nat

VARIABLES pc,               \* the function that is running
          line,             \* the rest of the line
          begin, data,      \* is a buffer allocated, and the bytes in it
          nwritten,         \* submit_buffer: bytes written so far
          owned,            \* the storage has given a buffer out
          file, pos, append, \* the file (0 in a hole), the descriptor's offset, O_APPEND
          printed, accepted, out, \* history: bytes printed, copied, written
          plain,            \* history: the file was written to without O_APPEND
          failures, truncs, reopens

bufVars == <<line, begin, data, owned, accepted>>
fileVars == <<file, pos, append, plain>>
boundVars == <<printed, truncs, reopens>>
vars == <<pc, bufVars, nwritten, fileVars, out, failures, boundVars>>

\* make_fd_storage sets O_APPEND on a descriptor that it opened, or throws; a
\* descriptor it was given keeps the flag its user chose.
Init ==
  /\ pc = "idle" /\ line = <<>> /\ begin = FALSE /\ data = <<>> /\ nwritten = 0
  /\ owned = FALSE /\ file = <<>> /\ pos = 0 /\ append \in BOOLEAN /\ plain = ~append
  /\ printed = 0 /\ accepted = <<>> /\ out = <<>>
  /\ failures = 0 /\ truncs = 0 /\ reopens = 0

-----------------------------------------------------------------------------
\* print: the line is formatted and append_line is called.
print(n) ==
  /\ pc = "idle" /\ printed + n <= MaxBytes
  /\ line' = [k \in 1..n |-> printed + k]
  /\ printed' = printed + n
  /\ pc' = "append"
  /\ UNCHANGED <<begin, data, owned, accepted, nwritten, fileVars, out, failures,
                 truncs, reopens>>

AtEnd == IF begin THEN Len(data) = buffer_capacity ELSE TRUE

\* append: copy what fits.
Copied == SubSeq(line, 1, IF Len(line) <= buffer_capacity - Len(data)
                            THEN Len(line) ELSE buffer_capacity - Len(data))
append_bytes ==
  /\ pc = "append" /\ line # <<>> /\ ~AtEnd
  /\ data' = data \o Copied /\ accepted' = accepted \o Copied
  /\ line' = SubSeq(line, Len(Copied) + 1, Len(line))
  /\ UNCHANGED <<pc, begin, owned, nwritten, fileVars, out, failures, boundVars>>

LineDone ==
  /\ pc = "append" /\ line = <<>>
  /\ pc' = "idle"
  /\ UNCHANGED <<bufVars, nwritten, fileVars, out, failures, boundVars>>

\* next_buffer: submit the buffer if there is something in it, then allocate.
MutFirst == "allocate"
First == IF data # <<>> THEN "next" ELSE "allocate"

next_buffer ==
  /\ pc = "append" /\ line # <<>> /\ AtEnd
  /\ pc' = First
  /\ nwritten' = 0
  /\ UNCHANGED <<bufVars, fileVars, out, failures, boundVars>>

allocate_buffer ==
  /\ pc = "allocate"
  /\ begin' = TRUE /\ data' = <<>> /\ owned' = TRUE
  /\ pc' = "append"
  /\ UNCHANGED <<line, accepted, nwritten, fileVars, out, failures, boundVars>>

\* flush, also at the start of sync and of the reopen command.
Flush(why) ==
  /\ pc = "idle"
  /\ pc' = why /\ nwritten' = 0
  /\ UNCHANGED <<bufVars, fileVars, out, failures, boundVars>>

flush == data # <<>> /\ Flush("flush")
ReopenCommand == reopens < MaxOps /\ Flush("reopen")

Submitting == pc \in {"next", "flush", "reopen"} /\ nwritten < Len(data)

\* submit_buffer: one write(2), at the end of the file with O_APPEND and at the
\* descriptor's offset without.
At == IF append THEN Len(file) ELSE pos
Overlay(chunk) ==
  [o \in 1..(IF At + Len(chunk) > Len(file) THEN At + Len(chunk) ELSE Len(file)) |->
     IF o \in (At + 1)..(At + Len(chunk)) THEN chunk[o - At]
     ELSE IF o <= Len(file) THEN file[o] ELSE 0]

MutAdvance(n) == Len(data)
Advance(n) == nwritten + n

write(n) ==
  LET chunk == SubSeq(data, nwritten + 1, nwritten + n) IN
  /\ Submitting /\ n <= Len(data) - nwritten
  /\ file' = Overlay(chunk) /\ pos' = At + n
  /\ out' = out \o chunk
  /\ nwritten' = Advance(n)
  /\ UNCHANGED <<pc, bufVars, append, plain, failures, boundVars>>

\* submit_buffer throws.  print drops the rest of the line; flush keeps the
\* buffer, and the reopen command goes on.
MutKept == <<>>
Kept == data

WriteFails ==
  /\ Submitting /\ failures < MaxFailures
  /\ failures' = failures + 1
  /\ nwritten' = 0
  /\ line' = <<>> /\ data' = Kept
  /\ pc' = IF pc = "reopen" THEN "open" ELSE "idle"
  /\ UNCHANGED <<begin, owned, accepted, fileVars, out, boundVars>>

Submitted ==
  /\ pc \in {"next", "flush", "reopen"} /\ nwritten = Len(data)
  /\ owned' = FALSE /\ nwritten' = 0
  /\ IF pc = "next" THEN UNCHANGED <<begin, data>> ELSE begin' = FALSE /\ data' = <<>>
  /\ pc' = CASE pc = "next" -> "allocate" [] pc = "flush" -> "idle" [] pc = "reopen" -> "open"
  /\ UNCHANGED <<line, accepted, fileVars, out, failures, boundVars>>

MutReopenAppend(appends) == FALSE
ReopenAppend(appends) == appends

\* reopen: open_at_end and replace_fd, which uses the descriptor even if it could
\* not set O_APPEND; or open fails.
reopen(rotated, ok, appends) ==
  /\ pc = "open"
  /\ reopens' = reopens + 1
  /\ pc' = "idle"
  /\ IF ok
       THEN /\ file' = IF rotated THEN <<>> ELSE file
            /\ pos' = IF rotated THEN 0 ELSE Len(file)
            /\ append' = ReopenAppend(appends)
            /\ plain' = (~appends \/ (plain /\ ~rotated))
       ELSE UNCHANGED fileVars
  /\ UNCHANGED <<bufVars, nwritten, out, failures, printed, truncs>>

\* Another process truncates the file (logrotate in copytruncate mode).
Truncate ==
  /\ file # <<>> /\ truncs < MaxOps
  /\ file' = <<>> /\ truncs' = truncs + 1
  /\ UNCHANGED <<pc, bufVars, nwritten, pos, append, plain, out, failures, printed,
                 reopens>>

Consumer == \/ append_bytes \/ LineDone \/ next_buffer \/ allocate_buffer \/ Submitted
            \/ \E n \in 1..buffer_capacity : write(n)
            \/ \E rotated, ok, appends \in BOOLEAN : reopen(rotated, ok, appends)

Next == \/ Consumer \/ WriteFails \/ Truncate \/ flush \/ ReopenCommand
        \/ \E n \in 1..MaxLine : print(n)

Spec == Init /\ [][Next]_vars

-----------------------------------------------------------------------------
\* The contract of storage_interface: "Once a buffer has been allocated,
\* allocate_buffer will not be called again until the buffer has been submitted",
\* also after a submit_buffer that threw.
AllocatesAfterSubmit == pc = "allocate" => ~owned

\* As long as no write fails, what was printed is written, buffered or about
\* to be copied, once and in order.
ExactlyOnce ==
  failures = 0 =>
    LET kept == IF pc = "allocate" THEN <<>> ELSE SubSeq(data, nwritten + 1, Len(data))
    IN  out \o kept \o line = [k \in 1..printed |-> k]

\* A byte that was copied into the buffer is never lost, even if the write of
\* it fails part of the way: it was written, or it is still in the buffer, which
\* never overflows.
AtLeastOnce == Len(data) <= buffer_capacity /\ Range(out) \cup Range(data) = Range(accepted)

\* "O_APPEND is set so that copy-truncate log rotation works": truncating the
\* file leaves no hole, before and after a reopen, unless the file was written to
\* through a descriptor without O_APPEND (one of the user's, or one on which
\* replace_fd could not set the flag).
NoHoleAfterTruncate == ~plain => 0 \notin Range(file)
=============================================================================
