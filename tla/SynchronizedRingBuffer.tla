----------------------- MODULE SynchronizedRingBuffer -----------------------
(***************************************************************************)
(* One sink's single-producer single-consumer ring buffer, with the two    *)
(* threads that use it: a sink posting records (sink::post, log_impl,      *)
(* post_variable_len) and the consumer reading them (run_once).            *)
(*                                                                         *)
(* Counters are the code's free-running size_t counters, in slots of       *)
(* alignof(fptr_t) bytes and modulo Modulus.  Steps are cut at every load  *)
(* and store of the two shared counters and at every word copied, so the   *)
(* two threads interleave at the grain the hardware allows them to.        *)
(***************************************************************************)
EXTENDS Integers, Sequences

CONSTANTS Capacity,   \* slots in the ring
          Modulus,    \* 2^64 bytes in slots: where the counters wrap
          Records     \* records the sink may post

ASSUME CapacityAssumption ==
  /\ Capacity \in Nat \ {0}
  /\ Modulus \in Nat
  /\ Modulus > Capacity
  /\ Modulus % Capacity = 0

\* len: slots of the fixed part (1: trampoline0; else pointer and lambda);
\* vlen: slots of the variable-length area; vcopy: it is a vcopy, not a string.
RecordType == [kind : {"log", "close"}, id : Nat, len : 1..Capacity,
               vlen : Nat, vcopy : BOOLEAN]

ASSUME RecordsAssumption == Records \subseteq RecordType

VARIABLES nwritten, nread_plus_capacity,       \* shared
          wrnread_plus_capacity, wrnwritten,   \* writer's copies
          cells,      \* the mapped memory; the mirror is the same memory
          wpc, wrec, wtry, wspan, wpos,        \* the posting thread
          rpc, rbegin, rsize, rleft, got, destroy,  \* the consumer, in run_once
          notified, registered                 \* sync_post and add_sink

writerVars == <<wrnread_plus_capacity, wrnwritten, wpc, wrec, wtry, wspan, wpos>>
readerVars == <<rpc, rbegin, rsize, rleft, got, destroy>>
vars == <<nwritten, nread_plus_capacity, cells, notified, registered,
          writerVars, readerVars>>

-----------------------------------------------------------------------------
\* size_t arithmetic: operands are below Modulus.
Add(a, b) == IF a + b >= Modulus THEN a + b - Modulus ELSE a + b
Sub(a, b) == IF a >= b THEN a - b ELSE a - b + Modulus

\* capacity is a power of two, so n & (capacity - 1) is n % capacity.
clamp(n) == n % Capacity

Lesser(a, b) == IF a <= b THEN a ELSE b

NoRecord == [kind |-> "none", id |-> 0, len |-> 1, vlen |-> 0, vcopy |-> FALSE]

Truncated(r) == [r EXCEPT !.vlen = 0]
Stored == Records \cup {Truncated(r) : r \in Records}

RecLen(r) == r.len + r.vlen

-----------------------------------------------------------------------------
Init ==
  /\ nwritten = 0
  /\ wrnwritten = 0
  /\ nread_plus_capacity = Capacity
  /\ wrnread_plus_capacity = Capacity
  /\ cells = [i \in 0..(Capacity - 1) |-> <<NoRecord, 1>>]
  /\ wpc = "idle" /\ wrec = NoRecord /\ wtry = FALSE /\ wspan = 0 /\ wpos = 0
  /\ rpc = "idle" /\ rbegin = 0 /\ rsize = 0 /\ rleft = 0
  /\ got = <<>> /\ destroy = FALSE
  /\ notified = FALSE /\ registered = FALSE

-----------------------------------------------------------------------------
(* The posting thread. *)

\* With the fixed part in the span, either the variable-length area fits too
\* or transform_args has to wait for it.
AfterSpan(r, sz) == IF sz >= RecLen(r) THEN "copy" ELSE "extend"

\* A log call or a post: write_span_spec() looks only at the writer's copies.
\* log_impl() of a record without arguments goes straight to the retry loop.
Post(r, try) ==
  /\ wpc = "idle"
  /\ r.kind = "close" => ~try
  /\ wrec' = r
  /\ wtry' = try
  /\ wspan' = Sub(wrnread_plus_capacity, wrnwritten)
  /\ wpc' = IF wspan' >= r.len THEN AfterSpan(r, wspan')
            ELSE IF r.len = 1 THEN "retry" ELSE "load"
  /\ UNCHANGED <<nwritten, nread_plus_capacity, wrnread_plus_capacity,
                 wrnwritten, cells, wpos, notified, registered, readerVars>>

\* The locals of a post that returns.
Return == wrec' = NoRecord /\ wtry' = FALSE /\ wspan' = 0 /\ wpos' = 0

\* The span left once nread_plus_capacity is loaded again.
Free == Sub(nread_plus_capacity, wrnwritten)

Reload ==
  /\ wrnread_plus_capacity' = nread_plus_capacity
  /\ UNCHANGED <<nwritten, nread_plus_capacity, wrnwritten, cells,
                 notified, registered, readerVars>>

\* The record goes on with the span just loaded, or is dropped.
GoOn(r, pc) == wrec' = r /\ wpc' = pc /\ wspan' = Free /\ UNCHANGED <<wtry, wpos>>
Drop == wpc' = "idle" /\ Return

\* The first load of a write_span(size) that is not speculative.
Load ==
  /\ wpc = "load"
  /\ Reload
  /\ GoOn(wrec, IF Free >= wrec.len THEN AfterSpan(wrec, Free) ELSE "retry")

\* The while loop of write_span: a blocking call reloads until the span is
\* large enough, a non-blocking call reloads once and then drops the record.
Retry ==
  /\ wpc = "retry"
  /\ Reload
  /\ \/ Free >= wrec.len /\ GoOn(wrec, AfterSpan(wrec, Free))
     \/ Free < wrec.len /\ ~wtry /\ GoOn(wrec, "retry")
     \/ Free < wrec.len /\ wtry /\ Drop

\* mutant: no way out of the wait when the ring is empty
MutExtend ==
  /\ wpc = "extend"
  /\ Reload
  /\ \/ Free >= RecLen(wrec) /\ GoOn(wrec, "copy")
     \/ Free < RecLen(wrec) /\ ~wtry /\ GoOn(wrec, "extend")
     \/ /\ Free < RecLen(wrec) /\ wtry
        /\ IF wrec.vcopy THEN Drop ELSE GoOn(Truncated(wrec), "copy")

\* wait_for_capacity: a string that cannot fit is truncated, a vcopy that
\* cannot fit overflows and the record is dropped.
Extend ==
  /\ wpc = "extend"
  /\ Reload
  /\ \/ Free >= RecLen(wrec) /\ GoOn(wrec, "copy")
     \/ /\ Free < RecLen(wrec)
        /\ ~wtry /\ Free # Capacity
        /\ GoOn(wrec, "extend")
     \/ /\ Free < RecLen(wrec)
        /\ wtry \/ Free = Capacity
        /\ IF wrec.vcopy THEN Drop ELSE GoOn(Truncated(wrec), "copy")

\* One word of the record is stored at wrbase + clamp(wrnwritten) + wpos; past
\* the end of the first mapping that address is its mirror.
Copy ==
  /\ wpc = "copy"
  /\ wpos < RecLen(wrec)
  /\ cells' = [cells EXCEPT ![clamp(Add(wrnwritten, wpos))] = <<wrec, wpos + 1>>]
  /\ wpos' = wpos + 1
  /\ UNCHANGED <<nwritten, nread_plus_capacity, wrnread_plus_capacity, wrnwritten,
                 wpc, wrec, wtry, wspan, notified, registered, readerVars>>

\* reduce_writable: publish the record.
PublishWords(n) ==
  /\ wpc = "copy"
  /\ wpos = RecLen(wrec)
  /\ wrnwritten' = Add(wrnwritten, n)
  /\ nwritten' = wrnwritten'
  /\ wpc' = IF wrec.kind = "close" THEN "sync" ELSE "idle"
  /\ Return
  /\ UNCHANGED <<nread_plus_capacity, wrnread_plus_capacity, cells, notified,
                 registered, readerVars>>

Mut_reduce_writable == PublishWords(wrec.len)   \* mutant: fixed part only
reduce_writable == PublishWords(wpos)

\* close() wakes up after the consumer has run its record, and clears the ring.
ClearWith(nrpc, wrnrpc) ==
  /\ wpc = "sync"
  /\ notified
  /\ nwritten' = 0
  /\ wrnread_plus_capacity' = wrnrpc
  /\ wrnwritten' = 0
  /\ nread_plus_capacity' = nrpc
  /\ notified' = FALSE
  /\ wpc' = "closed"
  /\ UNCHANGED <<cells, wrec, wtry, wspan, wpos, registered, readerVars>>

MutClearCache == ClearWith(Capacity, wrnread_plus_capacity) \* mutant: no reset
clear == ClearWith(Capacity, Capacity)

\* The closed sink is registered again; the consumer learns it from another ring.
Register ==
  /\ wpc = "closed"
  /\ wpc' = "idle"
  /\ registered' = TRUE
  /\ UNCHANGED <<nwritten, nread_plus_capacity, cells, notified, readerVars,
                 wrnread_plus_capacity, wrnwritten, wrec, wtry, wspan, wpos>>

-----------------------------------------------------------------------------
(* The consumer thread. *)

nread == Sub(nread_plus_capacity, Capacity)

\* Words from the start of the span to where the record loop must stop: the
\* span, cut at the end of the first mapping.
SpanEnd == Lesser(rsize, Capacity - clamp(rbegin))

read_span ==
  /\ rpc = "idle"
  /\ nwritten # nread
  /\ rbegin' = nread
  /\ rsize' = Sub(nwritten, nread)
  /\ rpc' = "read"
  /\ destroy' = FALSE
  /\ UNCHANGED <<nwritten, nread_plus_capacity, cells, notified, registered,
                 rleft, got, writerVars>>

\* One word of the record at pos; with its last word the record runs.
ReadWord ==
  /\ rpc = "read"
  /\ rleft > 0 \/ Len(got) < SpanEnd
  /\ LET w == cells[clamp(Add(rbegin, Len(got)))] IN
       /\ got' = Append(got, w)
       /\ rleft' = (IF rleft = 0 THEN RecLen(w[1]) ELSE rleft) - 1
       /\ destroy' = (destroy \/ (rleft' = 0 /\ w[1].kind = "close"))
       /\ notified' = (notified \/ (rleft' = 0 /\ w[1].kind = "close"))
  /\ UNCHANGED <<nwritten, nread_plus_capacity, cells, rpc, rbegin, rsize, registered, writerVars>>

SpanDone == rpc = "read" /\ rleft = 0 /\ Len(got) >= SpanEnd

ReleaseWords(n) ==
  /\ SpanDone
  /\ nread_plus_capacity' = Add(nread_plus_capacity, n)
  /\ rpc' = "idle"
  /\ rbegin' = 0 /\ rsize' = 0 /\ got' = <<>>
  /\ UNCHANGED <<nwritten, cells, notified, registered, rleft, destroy, writerVars>>

Mut_reduce_readable == ~destroy /\ ReleaseWords(rsize)  \* mutant: the whole span
MutReleaseAlways == ReleaseWords(Len(got))              \* mutant: after a close too
reduce_readable == ~destroy /\ ReleaseWords(Len(got))

\* After a close record the sink is dropped without touching it again.
Detach ==
  /\ SpanDone
  /\ destroy
  /\ rpc' = "detached"
  /\ rbegin' = 0 /\ rsize' = 0 /\ got' = <<>>
  /\ UNCHANGED <<nwritten, nread_plus_capacity, cells, notified, registered,
                 rleft, destroy, writerVars>>

add_sink ==
  /\ rpc = "detached"
  /\ registered
  /\ rpc' = "idle"
  /\ registered' = FALSE
  /\ UNCHANGED <<nwritten, nread_plus_capacity, cells, notified, rbegin, rsize,
                 rleft, got, destroy, writerVars>>

-----------------------------------------------------------------------------
Writer == \/ \E r \in Records, try \in BOOLEAN : Post(r, try)
          \/ Load \/ Retry \/ Extend \/ Copy \/ reduce_writable \/ clear \/ Register

Reader == read_span \/ ReadWord \/ reduce_readable \/ Detach \/ add_sink

Next == Writer \/ Reader

Spec == Init /\ [][Next]_vars

\* Threads keep running, but nobody is obliged to log.
LiveSpec == /\ Spec
            /\ WF_vars(Load \/ Retry \/ Extend \/ Copy \/ reduce_writable \/ clear)
            /\ WF_vars(Reader)

-----------------------------------------------------------------------------
(* Properties. *)

Used == Sub(nwritten, nread)
Contents == [i \in 1..Used |-> cells[clamp(Add(nread, i - 1))]]

Counter == 0..(Modulus - 1)
Word == (Stored \cup {NoRecord}) \X (1..Capacity)

\* Every variable keeps the type of its C++ counterpart.
TypeOK ==
  /\ nwritten \in Counter /\ nread_plus_capacity \in Counter
  /\ wrnwritten \in Counter /\ wrnread_plus_capacity \in Counter
  /\ cells \in [0..(Capacity - 1) -> Word]
  /\ wpc \in {"idle", "load", "retry", "extend", "copy", "sync", "closed"}
  /\ wrec \in Stored \cup {NoRecord} /\ wtry \in BOOLEAN
  /\ wspan \in 0..Capacity /\ wpos \in 0..Capacity
  /\ rpc \in {"idle", "read", "detached"}
  /\ rbegin \in Counter /\ rsize \in 0..Capacity
  /\ rleft \in 0..Capacity /\ got \in Seq(Word)
  /\ destroy \in BOOLEAN /\ notified \in BOOLEAN /\ registered \in BOOLEAN

\* The span a post copies into is free: however stale the writer's cached
\* counter is, unread words and the span never add up to more than the ring
\* (write_span, and the assertions in reduce_writable and reduce_readable).
SpanIsFree ==
  /\ Used <= Capacity
  /\ wpc \in {"copy", "extend"} => Used + wspan <= Capacity
  /\ wpc = "copy" => RecLen(wrec) <= wspan

\* The words run_once reads in one span are whole records, in order, never a
\* word being overwritten or left over from an earlier lap (the fptr it jumps
\* through is always a trampoline that a post stored).
ReadIntact ==
  \A i \in 1..Len(got) :
    /\ got[i][1] # NoRecord
    /\ IF i = 1 \/ got[i - 1][2] = RecLen(got[i - 1][1])
         THEN got[i][2] = 1
         ELSE got[i] = <<got[i - 1][1], got[i - 1][2] + 1>>

\* Once close() has cleared the ring the consumer neither reads from it nor
\* moves its read counter: the sink may already have been destroyed.
ClosedIsUntouched ==
  [][wpc = "closed" => /\ nread_plus_capacity' = nread_plus_capacity
                       /\ Len(got') <= Len(got)
                       /\ rpc' = "read" => rpc = "read"]_vars

\* The ring is a bounded FIFO of whole records: the consumer is handed the
\* words in the order posted, once each, and frees the words it was handed.
Queue == INSTANCE RecordQueue WITH q <- Contents, seen <- got, closing <- destroy
ImplementsQueue == Queue!QSpec

\* A post or a close that has started returns: a blocked post gets its span
\* once the consumer catches up, and an oversized string is truncated.
PostReturns == (wpc \notin {"idle", "closed"}) ~> (wpc \in {"idle", "closed"})

-----------------------------------------------------------------------------
(* The inductive invariant behind SpanIsFree, ReadIntact and the refinement. *)

CachedFree == Sub(wrnread_plus_capacity, wrnwritten)

CountersInv == /\ nwritten = wrnwritten
               /\ CachedFree <= Free
               /\ Free <= Capacity

WriterInv ==
  /\ wpc \in {"load", "retry", "extend", "copy"} => wrec \in Stored
  /\ wpc \in {"extend", "copy"} => wspan = CachedFree /\ wrec.len <= wspan
  /\ wpc = "copy" => RecLen(wrec) <= wspan /\ wpos <= RecLen(wrec)
  /\ wpc # "copy" => wpos = 0
  /\ \A j \in 0..(wpos - 1) : cells[clamp(Add(wrnwritten, j))] = <<wrec, j + 1>>

\* Each of the first n words of s belongs to a record that lies within them.
Whole(s, n) ==
  \A i \in 1..n :
    /\ s[i][1] \in Stored
    /\ s[i][2] \in 1..RecLen(s[i][1])
    /\ i >= s[i][2]
    /\ i - s[i][2] + RecLen(s[i][1]) <= n
    /\ \A m \in 1..RecLen(s[i][1]) : s[i - s[i][2] + m] = <<s[i][1], m>>

\* A close record is the last one in the ring: its sink waits for it.
CloseIsLast ==
  \A i \in 1..Used : Contents[i][1].kind = "close" =>
    wpc = "sync" /\ (Contents[i][2] = RecLen(Contents[i][1]) => i = Used)

\* The consumer has run a close record and will not touch the ring again.
Gone == rpc = "detached" \/ (rpc = "read" /\ destroy)

\* close, clear, register and add_sink hand the ring over one after the other.
Handshake ==
  /\ Gone <=> (notified \/ wpc = "closed" \/ registered)
  /\ notified => wpc = "sync"
  /\ registered => ~notified /\ wpc # "closed"
  /\ rpc = "detached" => destroy

ReaderInv ==
  /\ rpc # "read" => got = <<>>
  /\ rleft = IF got = <<>> THEN 0
             ELSE RecLen(got[Len(got)][1]) - got[Len(got)][2]
  /\ rpc = "read" /\ ~destroy =>
       /\ rbegin = nread
       /\ rsize \in 1..Used
       /\ Len(got) <= rsize
       /\ Whole(Contents, rsize)
       /\ \A i \in 1..Len(got) : got[i] = Contents[i]
  /\ rpc = "read" /\ destroy => rleft = 0 /\ Len(got) >= SpanEnd

IInv == /\ TypeOK
        /\ CountersInv
        /\ WriterInv
        /\ Whole(Contents, Used)
        /\ CloseIsLast
        /\ Handshake
        /\ ReaderInv
        /\ ReadIntact
=============================================================================
