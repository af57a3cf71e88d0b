# A TLA+ verification of xtr

xtr is an asynchronous logging library. This directory holds TLA+ modules that
model it, TLC configurations that check them on small instances, and TLAPS
proofs, for every value of the constants, of the safety properties of all
components but the logger's. `PROJECT.json` lists the components, the runs, which
lines each definition models, the hazards, the findings and the theorems.

## The system

| part | state | operations | source |
|---|---|---|---|
| sink and its ring | counters `nwritten_`, `nread_plus_capacity_` and the writer's copies of them; mirrored memory; `dropped_count_`, `level_`, `open_` | `log`, `post`, `post_variable_len`, `sync`, `close`, `set_name`, copy | `sink.hpp`, `sink.cpp`, `synchronized_ring_buffer.hpp` |
| record layout | none of its own: positions computed from sizes and alignments | `transform_args`, trampolines, `reconstruct_args` | `transform_args.hpp`, `trampolines.hpp` |
| logger | `control_` (a sink), `control_mutex_`, consumer thread | `get_sink`, `register_sink`, `set_command_path`, `set_log_level_style`, `pump_io`, destructor | `logger.hpp`, `logger.cpp` |
| consumer | `sinks_`, `flush_count_`, `destroy`, `destruct_latch_` | `run_once` and the records it runs | `consumer.cpp` |
| output buffer | `begin_`, `pos_`, `end_` | `append`, `append_line`, `flush` | `buffer.cpp`, `print.hpp` |
| posix storage | descriptor, one buffer | `allocate_buffer`, `submit_buffer`, `sync`, `reopen` | `posix_fd_storage.cpp`, `fd_storage_base.cpp` |
| io_uring storage | `free_list_`, `batch_index_`, `pending_cqe_count_`, `offset_` | the same, and `wait_for_one_cqe`, `resubmit_buffer` | `io_uring_fd_storage.cpp` |
| command dispatcher | `pollfds_`, `results_`, `path_` | `process_commands`, `send`, replacement | `command_dispatcher.cpp`, `consumer.cpp` |
| mirrored mapping | three overlapping mappings | constructor, destructor | `mirrored_memory_mapping.cpp`, `memory_mapping.cpp` |

A log statement copies the address of a trampoline and its arguments into the
ring of its sink. The consumer (a background thread, or the user's calls of
`pump_io`) visits the rings in turn, calls each trampoline, formats the message
into the buffer and hands full buffers to the storage. Functions of the logger
post records of their own to the control sink, whose ring many threads share
under a mutex. `xtrctl` connects to the dispatcher's socket, which the consumer
polls once per round.

What makes it hard: both sides of a ring work with stale counters; the records
that the consumer runs change the list it is walking over; a sink may be
destroyed as soon as `close()` returns; writes are short, fail, or complete in
another order; the file is rotated or truncated meanwhile; and nothing in a ring
says how long a record is.

## Modules

| module | models | relation to the code |
|---|---|---|
| `RecordQueue` | the abstract ring | a bounded FIFO of the words of whole records, with hand-over at close |
| `SynchronizedRingBuffer` | one ring, its writer, its reader | a step per load or store of a shared counter and per word copied; counters wrap at `Modulus`; implements `RecordQueue` |
| `RecordLayout` | bytes of records | `log`, `write_span`, `transform_args`, `publish` against `read_span`, `CallTrampoline`, `reconstruct_args`, `TrampolineReturns`, `reduce_readable`; writer and trampolines compute positions separately, as in the code |
| `Logger` | logger, sinks, consumer loop | each sink has a thread; rings are the FIFOs that `SynchronizedRingBuffer` implements; `run_once` is cut at every record, so that sinks post in between. Sizes of records are left out: a span may be cut after any record, and a statement may drop its message whatever is in the ring (`try_log` finds too little room, or a vcopy argument does not fit; the count follows in a step of its own, `fetch_add`). Destroying a sink is closing it. A line `n > 0` of the output is a message, a line `-n` the warning that n were dropped. A record has one field the code has not, `was`, the name its sink had for its user when it was posted, which only the property about names reads |
| `ControlSink` | calls of logger functions by several threads | a post is cut at its unsynchronised loads and stores, so that two posts can overlap when no mutex is held |
| `PosixOutput` | buffer and posix storage | bytes are numbered as printed; `write` may be short or fail; exceptions end the call as `print` and `flush` catch them; `reopen` goes on when O_APPEND cannot be set on the new descriptor, as `replace_fd` does; `plain` remembers that a file was written to without O_APPEND |
| `IoUringStorage` | io_uring storage and the kernel | requests go from prepared to submitted to completed; the kernel honours hardlink and drain, may take only a part of a submission, and is otherwise free |
| `CommandDispatcher` | dispatcher, clients, `set_command_path` | a step per system call of `process_commands`; clients go on in between |
| `MirroredMapping` | construction and destruction of mirrored memory | a step per system call; the application maps and unmaps in between |
| `RingMemory` | `RecordLayout` on `MirroredMapping` | statements and consumer use a ring while its memory is mapped; it is destroyed only when the ring is closed, and the next one begins at zero |
| `SynchronizedRingBufferProofs` | proofs about the ring and the mapping under it | |
| `RecordLayoutProofs`, `ControlSinkProofs`, `PosixOutputProofs`, `IoUringStorageProofs`, `CommandDispatcherProofs` | proofs about the module of that name | |

An `MC...` module instantiates a specification for TLC; a definition named `Mut...` is a
deliberately wrong variant of the definition after it, used to confirm that a
property can fail; it is never part of a specification.

How the modules fit together: `SynchronizedRingBuffer` shows that a ring is a
FIFO of whole records; `Logger` uses that FIFO, with records of one slot, and
abstracts the storage to lines that are buffered, written and synced, which is
what `PosixOutput` and `IoUringStorage` are checked to provide. `RecordLayout`
justifies reading whole records where the other modules treat a record as a
unit. `MirroredMapping` justifies that position `n` and `n + Capacity` are the
same memory, and `RingMemory` puts the two together.

**Memory model.** The modules interleave sequentially consistent steps. In the
ring each shared counter has one writer, is stored with release and loaded with
acquire by the other thread, and the data between is written before the store
and read after the load. An acquire load may return an older value, which the
model has as well: the writer works from its cached copy and a reader's load
may come any time before its use. `close()`, which breaks the one-writer rule,
is ordered by the mutex and condition variable in `sync_post`, modelled as the
`notified` hand-over. `dropped_count_` is only touched by read-modify-write
operations and relaxed loads; the model has every load return the latest value,
so that a drop counted long before may in the program be reported one visit later.

## Runs

The bounds are named constants; a run takes at most a few minutes.

| run | bounds | shows |
|---|---|---|
| `ring` | 4 slots, counters wrap at 8, records of 1 to 3 slots, strings, vcopy, close | no post overwrites an unread word, only whole records are read, a closed ring is left alone, refinement of `RecordQueue`, every post and close returns |
| `memory` | pointers of 2 bytes, 16 bytes, 2 statements, up to 2 arguments, lambda alignments 1 and 4; 3 regions, 2 rings one after the other, any call may fail | the consumer finds records and arguments where the writer put them; nothing unread is overwritten; truncation only if a string can never fit; halves stay mirrored, records stay inside them, nobody else's memory is unmapped (until a constructor fails in its last step), nothing leaks |
| `logger` | 2 sinks, 2 names, rings of 2, 2 messages, worker thread, calls begin with at most 1 record pending | no message lost, reordered or printed under another name, one handle per open sink, closed sinks are not touched, `status` and `set_level` reach every other sink, `sync` and `~logger` return with all of it written and synced |
| `logger_live` | 2 sinks, rings of 1, 1 statement that logs or drops, `pump_io` | `sync`, `close`, `operator=` and `~logger` return, due flushes happen; warnings and counter add up to the messages dropped |
| `control` | 2 threads under the mutex, a third whose calls sync and overlap no other | each record runs once and calls return |
| `posix` | 3-byte buffer, lines of up to 4 bytes, 7 bytes, 2 failures, a truncation, a reopen, path or descriptor | exactly once without failures, at least once with them, no hole after copytruncate |
| `uring` | 3 buffers of 2 bytes, batches of 2, 5 bytes, 2 faults, 1 refused submission, 1 reopen | buffers, completions and queue entries are accounted for, bytes are in place once drained, no hole without faults, calls return |
| `dispatcher` | 2 clients, 2 frames sent, replies of up to 2 frames through sockets of 1, 2 paths, 2 calls of `set_command_path`, 1 failing call | replies reach their own client in order and in full; tables consistent; no ready entry missed; no stale socket file; every command is answered |

Why the bounds are enough to be interesting: rings of 2 to 4 slots with records
of up to 3 slots meet a full ring, an empty ring, a span cut at the mapping's
end and a record that straddles it; counters that wrap at twice the capacity
wrap many times; two connections are enough for a moved entry to be missed and
for a descriptor to be used again; a queue of three buffers with batches of two has partial batches and
batches that follow a resubmission. In `logger` two messages and two names are
what it takes for two messages to change places and for the name of one sink to
be printed for the other; `MaxPending` lets a call begin only while fewer records
than that are pending in all rings (the record that `operator=` posts at its end
may be one more), which still has a sink post behind its own record and two
sinks, or a sink and the control sink, post before the consumer runs. Sinks and
names are symmetric in `logger`, where they are only compared and no liveness is
checked.

Deadlock is checked where the modelled system never stops. It is not where it
may: a logger that has been destroyed, a dispatcher whose `poll` failed, or a
program that has made all the calls that a bound allows.

### Disagreements with what the repository says

These runs are expected to be violated; `PROJECT.json` quotes the line each one
is about.

| run | what happens |
|---|---|
| `logger_drops` | a message is dropped and no warning ever appears: `run_once` looks at `dropped_count_` only after it has read records of a sink, and not when one of them closed it |
| `logger_pump` | without a worker thread `~logger` can return before `pump_io` has, because the latch is counted down before `run_once` is done with the consumer |
| `control_overlap` | `set_command_path` and `set_log_level_style` post their sync record without `control_mutex_`, and a record of another thread can be lost |
| `uring_reopen` | `reopen` of a file still in place, with writes pending, seeks before they are done and later overwrites them |

### Exceptions that properties make

Some properties hold only with a condition. Each condition is there because the
code behaves as follows without it; dropping it makes TLC show the behaviour.

| property | condition | what the code does otherwise |
|---|---|---|
| `DueFlushHappens` | `flush_count_` was set | a visit that closes its sink leaves `run_once` before it is set (`consumer.cpp:122`), so a message read together with the close record stays in the buffer while other sinks are idle |
| `NoHoleAfterTruncate` | the file was never written to without O_APPEND | a descriptor that the user opened need not have it, and `replace_fd` goes on with a descriptor on which it could not be set |
| `AllocatesAfterSubmit` | (none; only `submit_buffer` throws) | the posix `allocate_buffer` does not throw; were a user's storage to throw there after a submit, the buffer that it took would be submitted again (`buffer.cpp:52`) |
| `NoHoles` | no short, failed or refused write | `resubmit_buffer` submits the prepared part of a batch without resetting `batch_index_`, so that the rest of the batch is neither linked to it nor drained (`io_uring_fd_storage.cpp:408`) |
| `CallsReturn` of `IoUringStorage` | no submission was refused | no caller looks at the result of `io_uring_submit`; a request that stays in the queue is submitted by the next call only, and `sync`, `reopen` or an allocation that waits for its completion never makes one |
| `CommandsReachSinks` | the control sink is open | the handlers skip index 0 of `sinks_` without looking; once `~logger` has closed the control sink another sink is moved there (`consumer.cpp:235`) |
| `NoStaleSocketFile` | (none; it allows no socket at all) | `set_command_path` with the path in use binds before the old dispatcher is gone, fails, and leaves no command socket (`consumer.cpp:184`) |
| `OwnersKeepMemory`, `RecordsInOwnMemory` | no constructor failed in its last step (`~twice`) | the unwinding unmaps the second half twice, and what another thread mapped there in between is lost (`mirrored_memory_mapping.cpp:156`); `NothingLeaked` needs no condition but says nothing of this |

## Fairness

Each liveness run assumes only that a thread that can take its next step takes
it eventually: the consumer loops (or `pump_io` is called until it returns
false), a thread inside a call runs on, the kernel completes what was
submitted, a client that waits for an answer reads it. Nobody is assumed to log,
to close a sink or to destroy a logger. All fairness is weak; none is assumed
of the order in which the mutex serves waiters. Faults are bounded in number, as
a storage that fails for ever cannot make progress.

## Proofs

Every safety property that a run checks is also a theorem, except those of `Logger`
and `RecordsInOwnMemory`: it holds for any number of threads, clients, buffers and
records and for any sizes and bounds that satisfy the module's `ASSUME`. The table gives, for each module, the
theorems, the inductive invariant, and what the theorem assumes beyond the
module's own assumption.

| module | theorems (property) | inductive invariant | assumes |
|---|---|---|---|
| ring | `Invariance` (`IInv`), `TypeCorrect`, `SpanAlwaysFree` (`SpanIsFree`), `ReadAlwaysIntact` (`ReadIntact`), `ClosedStaysUntouched` (`ClosedIsUntouched`), `RingImplementsQueue` (`ImplementsQueue`) | `IInv` | nothing: the modulus is any larger multiple of the capacity |
| mapping | `MemoryIsKept` (`OwnersKeepMemory`), `NothingIsLeaked` (`NothingLeaked`) | `MInv` | nothing: as the property says, unless a constructor failed in its last step |
| layout | `ReaderAgrees` (`ReaderAgreesWithWriter`), `UnreadIsSafe` (`NeverOverwritesUnread`), `OnlyTooLongIsTruncated` (`TruncatesOnlyTooLong`) | `LInv` | nothing: `LayoutAssumption` has that an alignment above that of a pointer is a multiple of it, which powers of two are |
| control sink | `ControlRecordsRunOnce` (`RecordsRunOnce`) | `CInv` | `Overlap = FALSE`; with overlapping syncs it is false, run `control_overlap` |
| posix output | `SubmitsBeforeAllocating` (`AllocatesAfterSubmit`), `WrittenExactlyOnce` (`ExactlyOnce`), `NothingAcceptedIsLost` (`AtLeastOnce`), `TruncationLeavesNoHole` (`NoHoleAfterTruncate`) | `PInv` | nothing |
| io_uring storage | `EveryBufferInOnePlace` (`BuffersConserved`), `PendingIsExact` (`PendingExact`), `BytesLandInPlace` (`BytesInPlace`), `DrainedMeansWritten` (`DrainedIsWritten`), `NoHolesAppear` (`NoHoles`) | `QInv`, `Once`, then `PlaceInv`, `WrittenInv`, `GapInv` | `BytesLandInPlace` and `DrainedMeansWritten` only: `Rotated \subseteq {TRUE}`, that is every `reopen` finds a new file; otherwise they are false, run `uring_reopen` |
| dispatcher | `RepliesReachTheirClients`, `EofComesAfterTheAnswer` (`EofMeansAnswered`), `NoSocketFileIsStale` (`NoStaleSocketFile`), `ConnectionsAreTracked` (`ConnectionsTracked`), `NoReadyEntryIsMissed` (`NoReadyEntryMissed`) | `IInv`, `Counting` | nothing: `DispatcherAssumption` has that there are at least as many descriptors as clients |

None of the properties is inductive as it stands. What the invariants add, and why:

**Ring.** Whether a span is free depends on the writer's cached counter, which says
nothing by itself. `IInv` adds that the cached free space is at most the real one
(`CountersInv`), that the words copied so far are in the cells after `nwritten`
(`WriterInv`), that the unread words are whole records (`Whole`), that a close record
is the last and its sink waits for it (`CloseIsLast`), the order of the hand-over
(`Handshake`), and that what the consumer has read of its span is a prefix of the
contents (`ReaderInv`). The lemmas under it are the arithmetic of wrapping counters
(positions less than a capacity apart are distinct cells, because the capacity divides
the modulus), how `Whole` survives appending and releasing, and one lemma per action.
The refinement maps the queue to the cells between the counters; publishing, reading a
word, releasing and clearing map to steps of the queue, everything else to stuttering.

**Mapping.** `MInv` says what each region of a thread maps at each point of its
constructor or destructor, and that whatever is mapped belongs to somebody who has yet
to unmap it. That two threads' regions are apart follows: each maps its owner.

**Layout.** `LInv` says that a record and its arguments lie one behind the other with
the rounding of `transform_args` (`LaidOut`), that the records in the ring are
contiguous from the reader's position to the writer's (`ChainInv`), and where the
reader stands inside the one it is walking over (`ReaderInv`).

**Control sink.** `CInv`: who holds the mutex while posting (`Exclusion`), that the
span of a post in the making is free and the counter stands still (`PostInv`), and
that ring and log are the publications in order (`Contents`).

**Posix output.** `PInv`: the buffer is given back before another is taken
(`BufferInv`); bytes written from a buffer are in the output, and all of them are
before it is replaced (`WrittenInv`); without failures, written, buffered and uncopied
bytes continue each other (`StreamInv`); written and buffered bytes are together the
accepted ones (`Covered`).

**io_uring storage.** `QInv` accounts for the buffers by number and `Once` by place (no
queue has one twice, no two places share one). `PlaceInv` adds that every pending
buffer belongs as far from its file offset as the bytes of the current file do.
`WrittenInv` adds that each byte logged is in a file, failed, or the rest of exactly
one pending buffer. `GapInv` says that, as long as nothing was short, failed or
refused: requests in the kernel are drained or linked to the one before, those
prepared form one batch that begins with a drain, each pending buffer begins where the
one before it ends, and the first one begins within the file. So only the first
request of the chain can run, and what it writes reaches up to the next.

**Dispatcher.** `Tracked` (the three tables agree), `Listening` (a client waits if the
listener was ready), `OnePlace` (a client is in the backlog, connected through one
descriptor, or done), `Answering` (received, in the socket and still to send make up
what was replied), `ReadOnce` (without a failing call a connection is read once and
then only written to), `NoStaleSocketFile`, and `Counting` (poll's count is the number
of ready entries not yet visited, also when `disconnect` moves the last entry).

The invariants are defined with their proofs; the runs check the properties that they
imply.

### Only model-checked

- Liveness (`PostReturns`, the three `CallsReturn`, `DestructorReturns`,
  `DueFlushHappens`, `CommandsAreAnswered`): the prover has neither fairness nor
  ENABLED.
- The properties of `Logger`, and `RecordsInOwnMemory` of `RingMemory`.
- The four expected violations, which are counterexamples.
- What a sum or a map over a sequence computes: nothing is proved by induction over
  data, as the provers cannot instantiate the induction theorems.
- That the modules fit together: `Logger` uses rings and a storage as their modules
  promise them, which is argued above and not proved.

## Not modelled

Matching of names (regexec, fnmatch), formatting, the clocks and the calibration
of the time stamp counter, log level tables and the level test in the macros,
`default_command_path`, the command line of xtrctl, start-up probing for
io_uring, the `XTR_IO_URING_POLL` build, a failing `io_uring_wait_cqe`, and records
whose fixed part is larger than the ring (a blocking post of one spins for ever; the
code asserts it away).
