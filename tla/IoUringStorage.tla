--------------------------- MODULE IoUringStorage ---------------------------
(***************************************************************************)
(* io_uring_fd_storage: buffers go round from the free list to the caller, *)
(* to the submission queue, to the kernel, to the completion queue and     *)
(* back.  Writes are batched, carry fixed file offsets, are ordered by     *)
(* IOSQE_IO_HARDLINK and IOSQE_IO_DRAIN, and are resubmitted when short or *)
(* refused.  reopen replaces the file while writes are pending.            *)
(*                                                                         *)
(* Bytes are numbered in the order in which they are logged.  The module   *)
(* models the build without XTR_IO_URING_POLL.                             *)
(***************************************************************************)
EXTENDS Integers, Sequences, FiniteSets, FiniteSetsExt

CONSTANTS queue_size, batch_size, buffer_capacity,
          None,
          Rotated,     \* may the path name a new file at reopen: a set of BOOLEANs
          MaxBytes,    \* bound: bytes logged
          MaxFaults,   \* bound: short, refused and failed writes
          MaxRefused,  \* bound: submissions the kernel does not take, or not all of
          MaxReopens   \* bound: reopens

\* The tests of the constructor.
ASSUME StorageAssumption ==
  /\ queue_size \in Nat /\ batch_size \in 1..queue_size
  /\ buffer_capacity \in Nat \ {0} /\ None \notin Int
  /\ Rotated \subseteq BOOLEAN
  /\ MaxBytes \in Nat /\ MaxFaults \in Nat /\ MaxRefused \in Nat /\ MaxReopens \in Nat

Buffers == 1..queue_size

VARIABLES opc,            \* the member function that is running
          free_list, held, buf,
          batch_index, pending_cqe_count, offset,
          sq, kernel, cq, \* prepared, submitted, and completed requests
          files, fd,      \* files: a byte number, or 0 in a hole; the one behind fd_
          newfd,          \* reopen: the new file and the offset it was opened at
          logged, faults, refused, reopens,
          failed   \* history: bytes whose write failed

queueVars == <<batch_index, pending_cqe_count, sq, kernel, cq>>
boundVars == <<logged, faults, refused, reopens, failed>>
fileVars == <<files, fd, newfd>>
vars == <<opc, free_list, held, buf, offset, queueVars, fileVars, boundVars>>

Init ==
  /\ opc = "idle" /\ free_list = [k \in Buffers |-> k] /\ held = None
  /\ buf = [b \in Buffers |-> [size |-> 0, offset |-> 0, file_offset |-> 0, data |-> 0]]
  /\ batch_index = 0 /\ pending_cqe_count = 0 /\ offset = 0
  /\ sq = <<>> /\ kernel = <<>> /\ cq = <<>>
  /\ files = [f \in 1..(MaxReopens + 1) |-> <<>>] /\ fd = 1 /\ newfd = None
  /\ logged = 0 /\ faults = 0 /\ refused = 0 /\ reopens = 0 /\ failed = {}

-----------------------------------------------------------------------------
(* The kernel. *)

\* Requests of one submission, in order.  A hardlinked request starts after
\* the one before it in its submission.
Linked(q) ==
  [k \in 1..Len(q) |->
     [b |-> q[k].b, fd |-> q[k].fd, drain |-> q[k].drain,
      after |-> IF k > 1 /\ q[k - 1].link THEN q[k - 1].b ELSE None]]

\* io_uring_submit takes the whole queue, or its first n entries; what is left
\* stays in the queue for the next call.  No caller looks at the result.
Submit(q) ==
  \E n \in 0..Len(q) :
    /\ IF n = Len(q) THEN refused' = refused
                     ELSE refused < MaxRefused /\ refused' = refused + 1
    /\ kernel' = kernel \o Linked(SubSeq(q, 1, n))
    /\ sq' = SubSeq(q, n + 1, Len(q))

\* A drain request waits for all earlier ones, and all later ones wait for it.
MayStart(k) ==
  /\ kernel[k].after = None
  /\ kernel[k].drain => k = 1
  /\ \A j \in 1..(k - 1) : ~kernel[j].drain

Bytes(b) == (buf[b].data + buf[b].offset + 1)..(buf[b].data + buf[b].offset + buf[b].size)

Written(old, b, n) ==
  LET from == buf[b].file_offset
  IN  [o \in 1..Max({Len(old), IF n = 0 THEN 0 ELSE from + n}) |->
        IF o \in (from + 1)..(from + n) THEN buf[b].data + buf[b].offset + (o - from)
        ELSE IF o <= Len(old) THEN old[o] ELSE 0]

\* A write runs and completes with n bytes written; -1 is an error, and 0 also
\* stands for EAGAIN and ECANCELED.
Complete(k, n) ==
  LET b == kernel[k].b IN
  /\ MayStart(k)
  /\ \/ n = buf[b].size /\ UNCHANGED <<faults, failed>>
     \/ /\ n # buf[b].size /\ faults < MaxFaults
        /\ faults' = faults + 1
        /\ failed' = IF n = -1 THEN failed \cup Bytes(b) ELSE failed
  /\ files' = IF n = -1 THEN files ELSE [files EXCEPT ![kernel[k].fd] = Written(@, b, n)]
  /\ kernel' = [j \in 1..(Len(kernel) - 1) |->
                  LET r == kernel[IF j < k THEN j ELSE j + 1]
                  IN  [r EXCEPT !.after = IF @ = b THEN None ELSE @]]
  /\ cq' = Append(cq, [b |-> b, res |-> n])
  /\ UNCHANGED <<opc, free_list, held, buf, offset, batch_index, pending_cqe_count, sq, fd,
                 newfd, logged, refused, reopens>>

-----------------------------------------------------------------------------
(* The storage. *)

allocate_buffer ==
  /\ opc = "idle" /\ held = None /\ logged < MaxBytes
  /\ opc' = "allocate"
  /\ UNCHANGED <<free_list, held, buf, offset, queueVars, fileVars, boundVars>>

\* The end of allocate_buffer, once the free list is not empty.
Allocated(b) == [size |-> 0, offset |-> 0, file_offset |-> offset, data |-> buf[b].data]

PopFree ==
  /\ opc = "allocate" /\ free_list # <<>>
  /\ held' = Head(free_list) /\ free_list' = Tail(free_list)
  /\ buf' = [buf EXCEPT ![Head(free_list)] = Allocated(Head(free_list))]
  /\ opc' = "idle"
  /\ UNCHANGED <<offset, queueVars, fileVars, boundVars>>

\* get_sqe finds a free entry, because every entry in use holds another buffer
\* (BuffersConserved): its retry is never needed.
MutPrepared(b, d) == [b |-> b, fd |-> fd, drain |-> FALSE, link |-> TRUE]
Prepared(b, d) == [b |-> b, fd |-> fd, drain |-> d, link |-> TRUE]

MutBatchFull == (batch_index + 1) % (2 * batch_size) = 0
BatchFull == (batch_index + 1) % batch_size = 0

submit_buffer(n) ==
  LET q == Append(sq, Prepared(held, batch_index % batch_size = 0)) IN
  /\ opc = "idle" /\ held # None
  /\ Len(sq) < queue_size
  /\ buf' = [buf EXCEPT ![held].size = n, ![held].data = logged]
  /\ logged' = logged + n /\ offset' = offset + n
  /\ pending_cqe_count' = pending_cqe_count + 1
  /\ batch_index' = batch_index + 1
  /\ IF BatchFull THEN Submit(q) ELSE sq' = q /\ UNCHANGED <<kernel, refused>>
  /\ held' = None
  /\ UNCHANGED <<opc, free_list, cq, fileVars, faults, reopens, failed>>

\* flush, and what sync and replace_fd do first.  The caller, class buffer,
\* submits the buffer it holds before it flushes.
Flush ==
  /\ Submit(sq)
  /\ batch_index' = 0
  /\ UNCHANGED <<free_list, held, buf, offset, pending_cqe_count, cq, files, fd, logged,
                 faults, failed>>

flush == opc = "idle" /\ held = None /\ sq # <<>> /\ Flush /\ UNCHANGED <<opc, newfd, reopens>>

sync ==
  /\ opc = "idle" /\ held = None
  /\ Flush
  /\ opc' = "sync" /\ UNCHANGED <<newfd, reopens>>

SyncReturn ==
  /\ opc = "sync" /\ pending_cqe_count = 0
  /\ opc' = "idle"
  /\ UNCHANGED <<free_list, held, buf, offset, queueVars, fileVars, boundVars>>

\* reopen: open_at_end opens the path and seeks; the path names a new file if
\* the log was rotated.  Then replace_fd flushes and waits.
reopen(rotated) ==
  /\ opc = "idle" /\ held = None /\ reopens < MaxReopens
  /\ newfd' = IF rotated THEN [file |-> fd + 1, at |-> 0]
                         ELSE [file |-> fd, at |-> Len(files[fd])]
  /\ reopens' = reopens + 1
  /\ Flush
  /\ opc' = "replace_fd"

\* The end of replace_fd: the file is replaced and set_offset is called.
MutDrained == TRUE
Drained == pending_cqe_count = 0
set_offset == newfd.at

replace_fd ==
  /\ opc = "replace_fd" /\ Drained
  /\ fd' = newfd.file /\ offset' = set_offset /\ newfd' = None
  /\ opc' = "idle"
  /\ UNCHANGED <<free_list, held, buf, queueVars, files, boundVars>>

-----------------------------------------------------------------------------
(* wait_for_one_cqe *)

Waiting == \/ opc = "allocate" /\ free_list = <<>>
           \/ opc \in {"sync", "replace_fd"} /\ pending_cqe_count > 0

MutFree(b) == UNCHANGED free_list
free_buffer(b) == free_list' = <<b>> \o free_list

MutAdvanced(b, n) == [buf[b] EXCEPT !.size = @ - n, !.file_offset = @ + n]
Advanced(b, n) ==
  [buf[b] EXCEPT !.size = @ - n, !.offset = @ + n, !.file_offset = @ + n]

MutPending == pending_cqe_count - 1
Resubmitted == pending_cqe_count

\* resubmit_buffer submits everything prepared, without a new batch.
resubmit_buffer(b, n) ==
  /\ Len(sq) < queue_size
  /\ buf' = [buf EXCEPT ![b] = Advanced(b, n)]
  /\ Submit(Append(sq, [b |-> b, fd |-> fd, drain |-> FALSE, link |-> FALSE]))
  /\ pending_cqe_count' = Resubmitted

wait_for_one_cqe ==
  LET b == Head(cq).b
      n == Head(cq).res IN
  /\ Waiting /\ cq # <<>>
  /\ cq' = Tail(cq)
  /\ IF n \in {-1, buf[b].size}
       THEN /\ free_buffer(b)
            /\ pending_cqe_count' = pending_cqe_count - 1
            /\ UNCHANGED <<buf, sq, kernel, refused>>
       ELSE resubmit_buffer(b, n) /\ UNCHANGED free_list
  /\ UNCHANGED <<opc, held, offset, batch_index, fileVars, logged, faults, reopens, failed>>

Storage == \/ allocate_buffer \/ PopFree \/ flush \/ sync \/ SyncReturn \/ replace_fd
           \/ wait_for_one_cqe
           \/ \E n \in 1..buffer_capacity : n <= MaxBytes - logged /\ submit_buffer(n)
           \/ \E r \in Rotated : reopen(r)

Kernel == \E k \in 1..Len(kernel) :
            \E n \in {-1} \cup 0..buf[kernel[k].b].size : Complete(k, n)

Next == Storage \/ Kernel

Spec == Init /\ [][Next]_vars

\* The consumer runs the call it is in, and the kernel completes what it was given.
LiveSpec == /\ Spec
            /\ WF_vars(Kernel)
            /\ WF_vars(wait_for_one_cqe \/ PopFree \/ SyncReturn \/ replace_fd)

-----------------------------------------------------------------------------
(* Properties. *)

\* A buffer is never lost and never in two places: the free list, the caller,
\* and the three queues hold each one once, through short and failed writes.
Places == free_list \o [k \in 1..Len(sq) |-> sq[k].b] \o [k \in 1..Len(kernel) |-> kernel[k].b]
            \o [k \in 1..Len(cq) |-> cq[k].b] \o (IF held = None THEN <<>> ELSE <<held>>)
BuffersConserved ==
  Len(Places) = queue_size /\ {Places[k] : k \in 1..Len(Places)} = Buffers

\* pending_cqe_count_ is the number of completions still to be reaped, so sync
\* neither returns early nor waits for one that never comes.
PendingExact == pending_cqe_count = Len(sq) + Len(kernel) + Len(cq)

\* Every write lands where its bytes belong: bytes of one file are in the order
\* they were logged in, at their distance, whatever was short or resubmitted.
BytesInPlace ==
  \A f \in DOMAIN files : \A o, p \in 1..Len(files[f]) :
    files[f][o] # 0 /\ files[f][p] # 0 => files[f][p] - files[f][o] = p - o

\* When nothing is pending (sync has returned, the file may be replaced) every
\* byte logged is in a file, except those whose write failed for good.
InFiles == (UNION {{files[f][o] : o \in 1..Len(files[f])} : f \in DOMAIN files}) \ {0}
DrainedIsWritten == pending_cqe_count = 0 => InFiles = (1..logged) \ failed

\* Without short or refused writes the file never has a hole: hardlinks and
\* drains make writes complete in offset order.
NoHoles == faults = 0 /\ refused = 0 => \A f \in DOMAIN files : \A o \in 1..Len(files[f]) : files[f][o] # 0

\* The comment in test/fd_storage.cpp on reopen: "offset_ must be re-seeded from
\* the new fd's end-of-file so the next write appends".
ReopenAppends == opc = "idle" /\ pending_cqe_count = 0 => offset >= Len(files[fd])

\* allocate_buffer, sync and reopen return, unless a submission was refused: no
\* call of theirs submits again, and the completion may never come.
CallsReturn == opc # "idle" ~> opc = "idle" \/ refused > 0
=============================================================================
