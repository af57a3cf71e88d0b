---------------------------- MODULE RecordLayout ----------------------------
(***************************************************************************)
(* How log statements lay records out in a sink's ring and how the         *)
(* consumer's trampolines walk over them: post, post_variable_len and      *)
(* transform_args on one side, trampoline0/N/V and reconstruct_args on the *)
(* other.  The two compute every position on their own; nothing in the     *)
(* ring says how long a record is.                                         *)
(*                                                                         *)
(* Positions are the ring's counters: the mapping is page aligned, so a    *)
(* counter and its address are aligned alike.  A statement ("job") has the *)
(* shape of its lambda, the arguments with bytes in the order in which the *)
(* compiler evaluates them, and where each one's bytes were put.           *)
(***************************************************************************)
EXTENDS Integers, Sequences

CONSTANTS Ptr,         \* sizeof and alignof of a function pointer
          Capacity,    \* bytes in the ring
          Lambdas,     \* shapes of lambdas: [size, align]
          Arguments,   \* arguments with bytes: [kind, len, align]
          MaxArgs,     \* bound: such arguments per statement
          MaxPosts     \* bound: statements

ASSUME LayoutAssumption ==
  /\ Ptr \in Nat \ {0} /\ Capacity \in Nat \ {0} /\ Capacity % Ptr = 0
  /\ {MaxArgs, MaxPosts} \subseteq Nat
  /\ Lambdas \subseteq [size : Nat, align : Nat \ {0}]
  /\ Arguments \subseteq [kind : {"string", "vcopy"}, len : Nat, align : Nat \ {0}]
  /\ \A l \in Lambdas : /\ l.size % l.align = 0 /\ Capacity % l.align = 0
                        /\ l.align > Ptr => l.align % Ptr = 0
  /\ \A a \in Arguments : Capacity % a.align = 0

VARIABLES nwritten, nread,  \* the ring's counters
          limit,            \* wrnread_plus_capacity_: the writer's copy
          pc, job,          \* where the writer is, and its statement
          cur, end,         \* vlen_cur and vlen_end
          overflow,
          ring,             \* the records in the ring, by where they begin
          rpos, rend,       \* the consumer's pos and end
          walk,             \* reconstruct_args: arguments done, where the last one ends
          posts, dropped    \* statements begun, and dropped_count_

writerVars == <<limit, pc, job, cur, end, overflow, posts, dropped>>
readerVars == <<nread, rpos, rend, walk>>
vars == <<nwritten, writerVars, readerVars, ring>>

align(value, a) == ((value + a - 1) \div a) * a

NoJob == [kind |-> "none", lam |-> [size |-> 0, align |-> 1], args |-> <<>>,
          blocking |-> TRUE, entries |-> <<>>]

NoWalk == [n |-> -1, pos |-> 0]

Init ==
  /\ nwritten = 0 /\ nread = 0 /\ limit = Capacity
  /\ pc = "idle" /\ job = NoJob /\ cur = 0 /\ end = 0 /\ overflow = FALSE
  /\ ring = <<>> /\ rpos = 0 /\ rend = 0 /\ walk = NoWalk /\ posts = 0 /\ dropped = 0

-----------------------------------------------------------------------------
\* The writer.  "bare" has no arguments, "fixed" a lambda, "variable" also bytes
\* whose number is known at run time only.

FuncPos(start, lam) == IF lam.align > Ptr THEN align(start + Ptr, lam.align) ELSE start + Ptr

\* Where the part of the record ends that must fit before anything is copied.
HeadEnd(start, j) ==
  CASE j.kind = "bare" -> start + Ptr
    [] j.kind = "fixed" -> FuncPos(start, j.lam) + align(j.lam.size, Ptr)
    [] j.kind = "variable" -> FuncPos(start, j.lam) + j.lam.size

Statements ==
  [kind : {"bare"}, lam : {NoJob.lam}, args : {<<>>}, blocking : BOOLEAN, entries : {<<>>}]
  \cup [kind : {"fixed"}, lam : Lambdas, args : {<<>>}, blocking : BOOLEAN, entries : {<<>>}]
  \cup [kind : {"variable"}, lam : Lambdas, args : UNION {[1..n -> Arguments] : n \in 1..MaxArgs},
        blocking : BOOLEAN, entries : {<<>>}]

log(j) ==
  /\ pc = "idle" /\ posts < MaxPosts
  /\ posts' = posts + 1 /\ job' = j /\ pc' = "span"
  /\ UNCHANGED <<nwritten, limit, cur, end, overflow, dropped, readerVars, ring>>

Drop == pc' = "idle" /\ job' = NoJob /\ dropped' = dropped + 1

\* write_span: the copy of the reader's counter first, a load if it is too small.
MutNeed(j) == nwritten + Ptr
Need(j) == HeadEnd(nwritten, j)

write_span ==
  /\ pc = "span"
  /\ limit' = IF Need(job) <= limit THEN limit ELSE nread + Capacity
  /\ IF Need(job) <= limit'
     THEN /\ pc' = "args" /\ cur' = HeadEnd(nwritten, job) /\ end' = limit' /\ overflow' = FALSE
          /\ UNCHANGED <<job, dropped>>
     ELSE /\ IF job.blocking THEN UNCHANGED <<pc, job, dropped>> ELSE Drop
          /\ UNCHANGED <<cur, end, overflow>>
  /\ UNCHANGED <<nwritten, posts, readerVars, ring>>

Arg == job.args[Len(job.entries) + 1]
ArgPos(a, pos) == IF a.kind = "vcopy" THEN align(pos, a.align) ELSE pos
AddEntry(pos, len) ==
  job' = [job EXCEPT !.entries = Append(@, [pos |-> pos, len |-> len])]
Truncated == -1

MutGiveUpAtOnce == TRUE
GiveUp == nread = nwritten \/ ~job.blocking

\* transform_args for the next argument, with copy and wait_for_capacity.
transform_args ==
  /\ pc = "args" /\ Len(job.entries) < Len(job.args)
  /\ LET pos == ArgPos(Arg, cur)
         value_end == pos + Arg.len
     IN  /\ limit' = IF end < value_end THEN nread + Capacity ELSE limit
         /\ \/ /\ value_end <= end \/ value_end <= limit'
               /\ AddEntry(pos, Arg.len) /\ cur' = value_end
               /\ end' = IF end < value_end THEN limit' ELSE end
               /\ overflow' = overflow
            \/ /\ end < value_end /\ limit' < value_end /\ GiveUp
               /\ AddEntry(pos, Truncated) /\ cur' = pos /\ end' = end
               /\ overflow' = (overflow \/ Arg.kind = "vcopy")
            \/ /\ end < value_end /\ limit' < value_end /\ ~GiveUp
               /\ end' = limit'
               /\ UNCHANGED <<job, cur, overflow>>
  /\ UNCHANGED <<nwritten, pc, posts, dropped, readerVars, ring>>

Published(c) == align(c, Ptr)

\* reduce_writable, or the record is given up.
publish ==
  /\ pc = "args" /\ Len(job.entries) = Len(job.args)
  /\ IF overflow THEN Drop /\ UNCHANGED <<nwritten, ring>>
     ELSE /\ nwritten' = Published(cur)
          /\ ring' = Append(ring, [start |-> nwritten, next |-> nwritten', job |-> job])
          /\ pc' = "idle" /\ job' = NoJob /\ dropped' = dropped
  /\ cur' = 0 /\ end' = 0 /\ overflow' = FALSE
  /\ UNCHANGED <<limit, posts, readerVars>>

-----------------------------------------------------------------------------
\* The consumer.

TrampolineFunc(p, lam) == IF lam.align > Ptr THEN align(p + Ptr, lam.align) ELSE p + Ptr

Walking == walk # NoWalk
NextRecord == Head(ring)

\* The consumer calls the function pointer at pos: trampoline0 and trampolineN
\* return the next position, trampolineV goes through its arguments first.
CallTrampoline ==
  LET j == NextRecord.job
      func == TrampolineFunc(rpos, j.lam)
  IN  /\ rpos < rend /\ ~Walking /\ ring # <<>> /\ NextRecord.start = rpos
      /\ \/ j.kind = "bare" /\ rpos' = rpos + Ptr /\ ring' = Tail(ring) /\ walk' = walk
         \/ j.kind = "fixed" /\ rpos' = func + align(j.lam.size, Ptr) /\ ring' = Tail(ring)
                             /\ walk' = walk
         \/ j.kind = "variable" /\ walk' = [n |-> 0, pos |-> func + j.lam.size]
                                /\ UNCHANGED <<rpos, ring>>
      /\ UNCHANGED <<nwritten, writerVars, nread, rend>>

MutReadPos(a, pos) == pos
ReadPos(a, pos) == IF a.kind = "vcopy" THEN align(pos, a.align) ELSE pos

\* The next argument: walk.pos is where the one before it ended.
reconstruct_args ==
  LET j == NextRecord.job
      k == walk.n + 1
  IN  /\ Walking /\ walk.n < Len(j.entries)
      /\ walk' = [n |-> k, pos |-> IF j.entries[k].len = Truncated THEN walk.pos
                                   ELSE ReadPos(j.args[k], walk.pos) + j.entries[k].len]
      /\ UNCHANGED <<nwritten, writerVars, nread, rpos, rend, ring>>

\* trampolineV returns.
TrampolineReturns ==
  /\ Walking /\ walk.n = Len(NextRecord.job.entries)
  /\ rpos' = align(walk.pos, Ptr) /\ ring' = Tail(ring) /\ walk' = NoWalk
  /\ UNCHANGED <<nwritten, writerVars, nread, rend>>

\* The end of the first mapping, as seen from a position in it.
MappingEnd(p) == ((p \div Capacity) + 1) * Capacity

read_span ==
  /\ rpos = rend /\ nread = rpos /\ nwritten > nread
  /\ rend' = IF nwritten < MappingEnd(nread) THEN nwritten ELSE MappingEnd(nread)
  /\ UNCHANGED <<nwritten, writerVars, nread, rpos, walk, ring>>

reduce_readable ==
  /\ rpos >= rend /\ rpos > nread
  /\ nread' = rpos /\ rend' = rpos
  /\ UNCHANGED <<nwritten, writerVars, rpos, walk, ring>>

Next ==
  \/ \E j \in Statements : log(j)
  \/ write_span \/ transform_args \/ publish
  \/ read_span \/ CallTrampoline \/ reconstruct_args \/ TrampolineReturns \/ reduce_readable

Spec == Init /\ [][Next]_vars

-----------------------------------------------------------------------------
(* Properties *)

\* A trampoline finds each string and vcopy argument where transform_args put it
\* and arrives at the place where the writer's next record begins, for every
\* alignment and mixture of arguments; so the consumer only follows a function
\* pointer where a record begins, aligned (the assertion in run_once).
ReaderAgreesWithWriter ==
  /\ rpos % Ptr = 0 /\ rpos = IF ring = <<>> THEN nwritten ELSE NextRecord.start
  /\ rpos < rend => ring # <<>>
  /\ Walking =>
       LET j == NextRecord.job IN
       \A k \in DOMAIN j.entries :
         k = walk.n + 1 /\ j.entries[k].len # Truncated =>
           ReadPos(j.args[k], walk.pos) = j.entries[k].pos

\* Neither what is published nor what is copied before publishing reaches into
\* bytes the consumer has not released: in particular rounding the end of a
\* variable-length record up to a function pointer stays inside the free span,
\* although only the unrounded size was waited for.
NeverOverwritesUnread ==
  /\ nwritten <= nread + Capacity
  /\ pc = "args" /\ ~overflow => Published(cur) <= nread + Capacity

\* A blocking statement truncates a string only if the record with it would not
\* fit into an empty ring; a full ring only delays it.
TruncatesOnlyTooLong ==
  \A n \in DOMAIN ring : LET r == ring[n] IN
    r.job.blocking =>
      \A k \in DOMAIN r.job.entries :
        r.job.entries[k].len = Truncated =>
          r.job.entries[k].pos + r.job.args[k].len > r.start + Capacity
=============================================================================
