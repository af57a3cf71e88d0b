------------------------------- MODULE Logger -------------------------------
(***************************************************************************)
(* A logger, its sinks and its consumer: how sinks are registered, named,  *)
(* copied, synced and closed while run_once visits them, when output is    *)
(* flushed, and how the logger is destroyed.                               *)
(*                                                                         *)
(* Each sink is used by one thread.  Its ring is the bounded FIFO that     *)
(* module SynchronizedRingBuffer implements.  The sizes of records are not *)
(* modelled: the end of the mapping, where run_once cuts a span, may come  *)
(* after any record of it.                                                 *)
(***************************************************************************)
EXTENDS Integers, Sequences, FiniteSets, Functions

CONSTANTS Sinks,      \* the user's sinks
          control,    \* the logger's own sink, control_
          Names,      \* names of sinks
          None,
          RingCap,    \* records in a ring
          BufLines,   \* lines in one buffer of the storage
          MaxLogs,    \* bound: log statements
          MaxDrops,   \* bound: of these, messages dropped
          MaxPending, \* bound: records in all the rings for a user to begin a call
          Worker      \* TRUE: consumer thread; FALSE: the user calls pump_io

ASSUME LoggerAssumption ==
  /\ RingCap \in Nat \ {0} /\ BufLines \in Nat \ {0}
  /\ MaxLogs \in Nat /\ MaxDrops \in Nat /\ MaxPending \in Nat /\ Worker \in BOOLEAN
  /\ control \notin Sinks /\ None \notin Sinks \cup {control}

AllSinks == Sinks \cup {control}

VARIABLES ring, dropped,              \* per sink: buf_, dropped_count_
          upc, target, open, notified,    \* per sink: the thread that uses it
          uname, posted, lost,            \* per sink, as its thread knows it
          lpc,                            \* the thread that destroys the logger
          sinks, flush_count, destroy,    \* the consumer's members
          cpc, i, span, pos,              \* run_once
          buf, file, synced, latch        \* output, per sink; destruct_latch_

userVars == <<upc, target, open, uname, posted, lost>>
runVars == <<cpc, i, span, pos>>
outVars == <<buf, file, synced>>
vars == <<ring, dropped, userVars, notified, lpc, sinks, flush_count,
          destroy, runVars, outVars, latch>>

-----------------------------------------------------------------------------
Handle(s, nm) == [p |-> s, name |-> nm, dropped |-> 0]

Empty == [s \in AllSinks |-> <<>>]
Zero == [s \in AllSinks |-> 0]

Init ==
  /\ ring = Empty /\ dropped = Zero
  /\ upc = [s \in Sinks |-> "idle"] /\ target = [s \in Sinks |-> None]
  /\ open = [s \in AllSinks |-> s = control]
  /\ notified = [s \in AllSinks |-> FALSE]
  /\ uname = [s \in Sinks |-> None] /\ posted = Zero /\ lost = Zero
  /\ lpc = "live"
  /\ sinks = <<Handle(control, None)>> /\ flush_count = 0 /\ destroy = FALSE
  /\ cpc = "visit" /\ i = 2 /\ span = 0 /\ pos = 0
  /\ buf = Empty /\ file = Empty /\ synced = Zero /\ latch = FALSE

-----------------------------------------------------------------------------
(* The threads that use sinks. *)

Room(s) == Len(ring[s]) < RingCap
Put(s, r) == Room(s) /\ ring' = [ring EXCEPT ![s] = Append(@, r)]

\* What a post leaves alone.
Posting == UNCHANGED <<notified, lpc, sinks, flush_count, destroy,
                       runVars, outVars, latch>>

\* A sink may not be used by its thread while operator= copies from it.
Free(s) == upc[s] = "idle" /\ \A x \in Sinks : target[x] # s
Idle(s) == Free(s) /\ open[s]

Statements == SumFunction(posted) + SumFunction(lost)

\* Every record keeps, in was, the name its sink had for its user when it was
\* posted; the consumer does not look at it.
log(s) ==
  /\ Idle(s) /\ Statements < MaxLogs
  /\ Put(s, [op |-> "log", n |-> posted[s] + 1, was |-> uname[s]])
  /\ posted' = [posted EXCEPT ![s] = @ + 1]
  /\ Posting /\ UNCHANGED <<dropped, upc, target, open, uname, lost>>

\* A message that is dropped: XTR_TRY_LOG found too little room, or an argument
\* of variable length did not fit.  Sizes are not modelled, so the ring may be at
\* any fill; the count follows in a step of its own.
try_log(s) ==
  /\ Idle(s) /\ Statements < MaxLogs /\ SumFunction(lost) < MaxDrops
  /\ upc' = [upc EXCEPT ![s] = "drop"]
  /\ lost' = [lost EXCEPT ![s] = @ + 1]
  /\ Posting /\ UNCHANGED <<ring, dropped, target, open, uname, posted>>

fetch_add(s) ==
  /\ upc[s] = "drop"
  /\ upc' = [upc EXCEPT ![s] = "idle"]
  /\ dropped' = [dropped EXCEPT ![s] = @ + 1]
  /\ Posting /\ UNCHANGED <<ring, target, open, uname, posted, lost>>

set_name(s, nm) ==
  /\ Idle(s) /\ nm # uname[s]
  /\ Put(s, [op |-> "name", name |-> nm, was |-> uname[s]])
  /\ uname' = [uname EXCEPT ![s] = nm]
  /\ Posting /\ UNCHANGED <<dropped, upc, target, open, posted, lost>>

\* sync_post: the record runs in the consumer, then notifies the poster.
sync(s) ==
  /\ Idle(s)
  /\ Put(s, [op |-> "sync", was |-> uname[s]])
  /\ upc' = [upc EXCEPT ![s] = "sync"]
  /\ Posting /\ UNCHANGED <<dropped, target, open, uname, posted, lost>>

SyncReturn(s) ==
  /\ upc[s] = "sync" /\ notified[s]
  /\ upc' = [upc EXCEPT ![s] = "idle"]
  /\ notified' = [notified EXCEPT ![s] = FALSE]
  /\ UNCHANGED <<ring, dropped, target, open, uname, posted, lost, lpc, sinks,
                 flush_count, destroy, runVars, outVars, latch>>

\* close() of an open sink, called by its user, by ~sink (a destroyed sink is a
\* closed one that is not used again), or by operator=.
Close(s, why) ==
  /\ Idle(s)
  /\ Put(s, [op |-> "close", was |-> uname[s]])
  /\ upc' = [upc EXCEPT ![s] = why]
  /\ Posting /\ UNCHANGED <<dropped, open, uname, posted, lost>>

close(s) == Close(s, "close") /\ UNCHANGED target

\* operator=(t): close() first if the sink is open.
Assign(s, t) ==
  /\ Free(s) /\ Free(t) /\ s # t
  /\ target' = [target EXCEPT ![s] = t]
  /\ \/ Close(s, "assign")
     \/ /\ ~open[s]
        /\ upc' = [upc EXCEPT ![s] = "adopt"]
        /\ Posting /\ UNCHANGED <<ring, dropped, open, uname, posted, lost>>

\* close() wakes up: open_ = false and buf_.clear().  dropped_count_ stays, for
\* the next handle of the sink to report.
Clear(s) ==
  /\ notified[s]
  /\ notified' = [notified EXCEPT ![s] = FALSE]
  /\ open' = [open EXCEPT ![s] = FALSE]
  /\ ring' = [ring EXCEPT ![s] = <<>>]
  /\ UNCHANGED <<dropped, uname, posted, lost, sinks, flush_count, destroy,
                 runVars, outVars, latch>>

AfterClose == [close |-> "idle", assign |-> "adopt"]

CloseReturn(s) ==
  /\ upc[s] \in DOMAIN AfterClose
  /\ Clear(s)
  /\ upc' = [upc EXCEPT ![s] = AfterClose[upc[s]]]
  /\ UNCHANGED <<target, lpc>>

\* The rest of operator=: register with the other sink's logger, through the
\* other sink's ring, if that sink is open.
Adopt(s) ==
  LET t == target[s] IN
  /\ upc[s] = "adopt"
  /\ upc' = [upc EXCEPT ![s] = "idle"]
  /\ target' = [target EXCEPT ![s] = None]
  /\ open' = [open EXCEPT ![s] = open[t]]
  /\ IF open[t]
       THEN /\ Put(t, [op |-> "copy", sink |-> s, was |-> uname[t]])
            /\ uname' = [uname EXCEPT ![s] = uname[t]]
       ELSE UNCHANGED <<ring, uname>>
  /\ Posting /\ UNCHANGED <<dropped, posted, lost>>

\* get_sink and register_sink, which post under control_mutex_.
register_sink(s, nm) ==
  /\ lpc = "live" /\ Free(s) /\ ~open[s]
  /\ Put(control, [op |-> "add", sink |-> s, name |-> nm, was |-> None])
  /\ open' = [open EXCEPT ![s] = TRUE]
  /\ uname' = [uname EXCEPT ![s] = nm]
  /\ Posting /\ UNCHANGED <<dropped, upc, target, posted, lost>>

-----------------------------------------------------------------------------
(* Output. *)

Lines == SumFunction([s \in AllSinks |-> Len(buf[s])])

\* buffer::flush: submit the buffer to the storage.
Flushed == [s \in AllSinks |-> file[s] \o buf[s]]
Flush == file' = Flushed /\ buf' = Empty

\* buffer::append_line: a full buffer is submitted first.
append_line(s, n) ==
  /\ IF Lines = BufLines
       THEN file' = Flushed /\ buf' = [Empty EXCEPT ![s] = <<n>>]
       ELSE buf' = [buf EXCEPT ![s] = Append(@, n)] /\ UNCHANGED file
  /\ UNCHANGED synced

MutSyncUnflushed == UNCHANGED <<buf, file>> /\ synced' = [s \in AllSinks |-> Len(file[s])]
MutUnsynced == UNCHANGED outVars
FlushAndSync == Flush /\ synced' = [s \in AllSinks |-> Len(Flushed[s])]

-----------------------------------------------------------------------------
(* The consumer: run_once. *)

Cur == sinks[i].p

\* What the consumer leaves alone.
Consuming == UNCHANGED <<userVars, lpc>>

\* run_once returns true and is called again: commands are processed once per
\* loop over the sinks, and reopen flushes the buffer.
MutFirstSink == 2
FirstSink == 1

\* The sinks that status_handler and set_level_handler go through: all but the
\* one at index 0.
CommandSinks == 2..Len(sinks)

EndOfLoop == cpc = "visit" /\ i > Len(sinks) /\ sinks # <<>>
Top(reopen) ==
  /\ EndOfLoop
  /\ i' = FirstSink
  /\ IF reopen THEN Flush /\ UNCHANGED synced ELSE UNCHANGED outVars
  /\ Consuming
  /\ UNCHANGED <<ring, dropped, notified, sinks, flush_count, destroy, cpc,
                 span, pos, latch>>

\* An empty ring: count down to a flush.
Decrement == IF flush_count = 0 THEN 0 ELSE flush_count - 1
MutFlushDue == flush_count # 0 /\ flush_count = 0
FlushDue == flush_count # 0 /\ Decrement = 0

Skip ==
  /\ cpc = "visit" /\ i <= Len(sinks) /\ ring[Cur] = <<>>
  /\ i' = i + 1
  /\ flush_count' = Decrement
  /\ IF FlushDue THEN Flush /\ UNCHANGED synced ELSE UNCHANGED outVars
  /\ Consuming
  /\ UNCHANGED <<ring, dropped, notified, sinks, destroy, cpc, span, pos, latch>>

ReadSpan ==
  /\ cpc = "visit" /\ i <= Len(sinks) /\ ring[Cur] # <<>>
  /\ span' = Len(ring[Cur]) /\ pos' = 0 /\ destroy' = FALSE
  /\ cpc' = "run"
  /\ Consuming
  /\ UNCHANGED <<ring, dropped, notified, sinks, flush_count, i, outVars, latch>>

\* The record at pos runs.
Run(r) ==
  \/ /\ r.op = "log"
     /\ append_line(Cur, r.n)
     /\ UNCHANGED <<sinks, destroy, notified>>
  \/ /\ r.op = "name"
     /\ sinks' = [sinks EXCEPT ![i].name = r.name]
     /\ UNCHANGED <<destroy, notified, outVars>>
  \/ /\ r.op = "add"
     /\ sinks' = Append(sinks, Handle(r.sink, r.name))
     /\ UNCHANGED <<destroy, notified, outVars>>
  \/ /\ r.op = "copy"
     /\ sinks' = Append(sinks, Handle(r.sink, sinks[i].name))
     /\ UNCHANGED <<destroy, notified, outVars>>
  \/ /\ r.op = "sync"
     /\ FlushAndSync
     /\ notified' = [notified EXCEPT ![Cur] = TRUE]
     /\ UNCHANGED <<sinks, destroy>>
  \/ /\ r.op = "close"
     /\ destroy' = TRUE
     /\ notified' = [notified EXCEPT ![Cur] = TRUE]
     /\ UNCHANGED <<sinks, outVars>>

\* The loop ends with the span, or earlier at the end of the mapping.
RunRecord ==
  /\ cpc = "run"
  /\ Run(ring[Cur][pos + 1])
  /\ pos' = pos + 1
  /\ cpc' \in IF pos' < span THEN {"run", "after"} ELSE {"after"}
  /\ Consuming
  /\ UNCHANGED <<ring, dropped, flush_count, i, span, latch>>

\* The sink has closed: swap it with the last one and pop it.
Popped(seq) == SubSeq(seq, 1, Len(seq) - 1)
MutPop == Popped(sinks)
MutPopFirst == Tail([sinks EXCEPT ![i] = sinks[1]])
MutSwapPointers == Popped([sinks EXCEPT ![i].p = sinks[Len(sinks)].p])
SwapAndPop == Popped([sinks EXCEPT ![i] = sinks[Len(sinks)]])

PopSink ==
  /\ cpc = "after" /\ destroy
  /\ sinks' = SwapAndPop
  /\ cpc' = "visit" /\ span' = 0 /\ pos' = 0
  /\ Consuming
  /\ UNCHANGED <<ring, dropped, notified, flush_count, destroy, i, outVars, latch>>

reduce_readable(n) ==
  ring' = [ring EXCEPT ![Cur] = SubSeq(@, n + 1, Len(@))]

ReleaseRecords(n) ==
  /\ cpc = "after"
  /\ reduce_readable(n)
  /\ cpc' = "report"
  /\ Consuming
  /\ UNCHANGED <<dropped, notified, sinks, flush_count, destroy, i, span, pos,
                 outVars, latch>>

MutReleaseSpan == ~destroy /\ ReleaseRecords(span)
MutReleaseClosed == ReleaseRecords(pos)
Release == ~destroy /\ ReleaseRecords(pos)

dropped_count == dropped' = [dropped EXCEPT ![Cur] = 0]

\* Dropped messages are reported when the whole span was read: -n is the line
\* that says that n were dropped.
Report ==
  /\ cpc = "report"
  /\ IF pos = span /\ dropped[Cur] > 0
       THEN /\ append_line(Cur, -dropped[Cur])
            /\ sinks' = [sinks EXCEPT ![i].dropped = @ + dropped[Cur]]
            /\ dropped_count
       ELSE UNCHANGED <<sinks, dropped, outVars>>
  /\ flush_count' = Len(sinks)
  /\ cpc' = "visit" /\ i' = i + 1 /\ span' = 0 /\ pos' = 0
  /\ Consuming
  /\ UNCHANGED <<ring, notified, destroy, latch>>

MutNoSignal == UNCHANGED latch
count_down == latch' = TRUE

\* No sinks are left: flush, sync and tell ~consumer.
CountDown ==
  /\ cpc = "visit" /\ sinks = <<>>
  /\ FlushAndSync
  /\ count_down
  /\ cpc' = "latched"
  /\ Consuming
  /\ UNCHANGED <<ring, dropped, notified, sinks, flush_count, destroy, i, span, pos>>

\* The test of sinks_ in the return statement, and the return.
RunReturn ==
  /\ cpc = "latched"
  /\ cpc' = "returned"
  /\ Consuming
  /\ UNCHANGED <<ring, dropped, notified, sinks, flush_count, destroy, i, span,
                 pos, outVars, latch>>

-----------------------------------------------------------------------------
(* ~logger: members are destroyed in reverse order. *)

Destroying == UNCHANGED <<userVars, dropped, sinks, flush_count, destroy, runVars, latch>>

\* ~sink of control_ closes it.
CloseControl ==
  /\ lpc = "live"
  /\ Put(control, [op |-> "close", was |-> None])
  /\ lpc' = "closing"
  /\ Destroying /\ UNCHANGED <<notified, outVars>>

ControlClosed ==
  /\ lpc = "closing"
  /\ Clear(control)
  /\ lpc' = "join"
  /\ UNCHANGED <<upc, target>>

\* The consumer thread is joined, if there is one.
Join ==
  /\ lpc = "join"
  /\ Worker => cpc = "returned"
  /\ lpc' = "wait"
  /\ Destroying /\ UNCHANGED <<ring, notified, outVars>>

\* ~consumer waits for the latch; then ~buffer flushes.
LoggerGone ==
  /\ lpc = "wait" /\ latch
  /\ lpc' = "gone"
  /\ Flush /\ UNCHANGED synced
  /\ Destroying /\ UNCHANGED <<ring, notified>>

-----------------------------------------------------------------------------
Pending == SumFunction([s \in AllSinks |-> Len(ring[s])])

User(s) == /\ Pending < MaxPending
           /\ \/ log(s) \/ try_log(s) \/ sync(s) \/ close(s)
              \/ \E nm \in Names : set_name(s, nm) \/ register_sink(s, nm)
              \/ \E t \in Sinks : Assign(s, t)

UserReturns(s) == fetch_add(s) \/ SyncReturn(s) \/ CloseReturn(s) \/ Adopt(s)

Consumer == \/ \E reopen \in BOOLEAN : Top(reopen)
            \/ Skip \/ ReadSpan \/ RunRecord \/ PopSink \/ Release \/ Report
            \/ CountDown \/ RunReturn

Destructor == ControlClosed \/ Join \/ LoggerGone

Next == \/ \E s \in Sinks : User(s) \/ UserReturns(s)
        \/ Consumer \/ CloseControl \/ Destructor

Spec == Init /\ [][Next]_vars

\* Every thread runs, and pump_io is called until it returns false; nobody has
\* to log, to close a sink or to destroy the logger.
LiveSpec == /\ Spec
            /\ WF_vars(Consumer) /\ WF_vars(Destructor)
            /\ \A s \in Sinks : WF_vars(UserReturns(s))

-----------------------------------------------------------------------------
(* Properties. *)

\* The consumer has run the close record of s and s has not woken up yet.
Closing(s) ==
  notified[s] /\ IF s = control THEN lpc = "closing" ELSE upc[s] \in DOMAIN AfterClose

\* Records of s that have not run.
Unread(s) ==
  IF Closing(s) THEN <<>>
  ELSE IF cpc \in {"run", "after"} /\ Cur = s /\ ~destroy
    THEN SubSeq(ring[s], pos + 1, Len(ring[s]))
    ELSE ring[s]

Values(seq) == [k \in 1..Len(seq) |-> IF seq[k].op = "log" THEN seq[k].n ELSE 0]

\* The messages in seq, where a number below 1 stands for anything else, are 1..n:
\* each of them once, and in order.
InOrder(seq, n) ==
  /\ \A k \in 1..Len(seq) : seq[k] \in Int /\ seq[k] <= n
  /\ \A m \in 1..n : \E k \in 1..Len(seq) : seq[k] = m
  /\ \A j, k \in 1..Len(seq) : j < k /\ seq[j] > 0 /\ seq[k] > 0 => seq[j] < seq[k]

\* Every message stored is printed or still waiting, once and in order, through
\* closing, clearing, copying and registering again (the residual data that
\* close() clears was already printed).
NoMessageLost ==
  \A s \in Sinks : InOrder((file[s] \o buf[s]) \o Values(Unread(s)), posted[s])

\* The messages of s are all written and synced.
AllSynced(s) == InOrder(SubSeq(file[s], 1, synced[s]), posted[s])

\* When sync() returns, all its sink's messages are written and synced.
SyncIsComplete == \A s \in Sinks : upc[s] = "sync" /\ notified[s] => AllSynced(s)

\* run_once uses a sink only while it is open, so never after close() may
\* have returned and the sink been destroyed, and runs nothing after close.
TouchesOpenSinks ==
  /\ \/ cpc = "visit" /\ i <= Len(sinks)
     \/ cpc \in {"run", "report"}
     \/ cpc = "after" /\ ~destroy
     => open[Cur] /\ ~Closing(Cur)
  /\ cpc = "run" => ~destroy

\* An open sink has one handle in sinks_ or one record that will add it, and
\* a closed one has none, whatever is copied, closed and registered when.
Handles(s) == {j \in 1..Len(sinks) : sinks[j].p = s /\ ~(cpc = "after" /\ destroy /\ j = i)}
Adds(s) == {x \in AllSinks \X (1..RingCap) :
              /\ x[2] <= Len(Unread(x[1]))
              /\ LET r == Unread(x[1])[x[2]] IN r.op \in {"add", "copy"} /\ r.sink = s}
OneHandle ==
  \A s \in AllSinks : Cardinality(Handles(s)) + Cardinality(Adds(s))
                        = IF open[s] /\ ~Closing(s) THEN 1 ELSE 0

\* The handlers of status and set_level, which run between two rounds over the
\* sinks, skip index 0 without looking: as long as control_ is open that is
\* control_, so they reach every other sink there is, whatever was swapped where;
\* and no sink they reach has been closed, or destroyed since.
CommandsReachSinks ==
  EndOfLoop =>
    /\ \A j \in CommandSinks : LET s == sinks[j].p IN s # control /\ open[s] /\ ~Closing(s)
    /\ open[control] /\ ~Closing(control) =>
         {sinks[j].p : j \in CommandSinks} = {s \in Sinks : Handles(s) # {}}

\* A message is printed with the name its sink had, for its user, when the
\* message was logged: set_name and operator= take effect in program order.
PrintedName ==
  cpc = "run" /\ ring[Cur][pos + 1].op = "log" => ring[Cur][pos + 1].was = sinks[i].name

\* The warnings in the log, and what dropped_count_ still holds, add up to the
\* messages dropped: run_once may read the count at any time between two
\* fetch_adds, and close() and operator= keep what was not reported.
Warned(seq) == SumFunction([k \in 1..Len(seq) |-> IF seq[k] < 0 THEN -seq[k] ELSE 0])

\* When ~logger returns, every message of every sink is written and synced.
GoneIsComplete ==
  lpc = "gone" => \A s \in Sinks : (~open[s] \/ Closing(s)) /\ AllSynced(s)

\* The documentation of ~logger: without a worker thread it blocks until
\* pump_io returns false.
DestructorWaitsForPump == lpc = "gone" => cpc = "returned"

\* sync(), close(), operator= and a log statement that drops return.
CallsReturn == \A s \in Sinks : upc[s] # "idle" ~> upc[s] = "idle"

\* ~logger returns once every sink has been closed.
DestructorReturns ==
  (lpc # "live" /\ \A s \in Sinks : ~open[s] /\ upc[s] # "adopt") ~> lpc = "gone"

\* The documentation of the log macros: "If a message is dropped a warning will
\* appear in the log."
DropsReported == \A s \in Sinks : dropped[s] > 0 ~> dropped[s] = 0

FlushedOrBusy == buf = Empty \/ \E s \in AllSinks : ring[s] # <<>>

\* run_once: once flush_count_ is set the buffer is flushed, unless the sinks
\* keep posting.
DueFlushHappens == flush_count > 0 ~> FlushedOrBusy
=============================================================================
