---------------------------- MODULE ControlSink -----------------------------
(***************************************************************************)
(* Threads that call functions of one logger.  Each call posts a record to *)
(* control_ under control_mutex_; set_command_path and set_log_level_style *)
(* then post a sync record without it.  A post is split where another      *)
(* thread's post can come in between: the span is computed, the record is  *)
(* copied, the writer's counter is loaded, and the sum is stored and       *)
(* published.  The consumer runs the records in order.                     *)
(***************************************************************************)
EXTENDS Integers, Sequences, FiniteSets

CONSTANTS Threads, None,
          Syncers,     \* threads that call the functions that also sync
          Overlap,     \* TRUE: calls that sync may overlap others
          Capacity,    \* records in the ring
          MaxCalls     \* bound: calls per thread

ASSUME ControlAssumption ==
  /\ Syncers \subseteq Threads /\ None \notin Threads /\ Overlap \in BOOLEAN
  /\ Capacity \in Nat \ {0} /\ MaxCalls \in Nat

VARIABLES pc,        \* where each thread is
          what,      \* the record a thread is posting: "call" or "sync"
          base,      \* wrnwritten_ when the thread computed its span
          sum,       \* wrnwritten_ as loaded for the addition
          calls,     \* calls made by each thread
          mutex,     \* control_mutex_: its owner or None
          wrnwritten, nwritten, nread, mem,
          ran,       \* records the consumer has run
          notified,  \* threads whose sync record has run
          posts      \* history: records in the order they were published

clientVars == <<pc, what, base, sum, calls>>
ringVars == <<wrnwritten, nwritten, mem, posts>>
vars == <<clientVars, ringVars, mutex, nread, ran, notified>>

Record(t) == <<t, what[t], calls[t]>>

Init ==
  /\ pc = [t \in Threads |-> "idle"] /\ what = [t \in Threads |-> "call"]
  /\ base = [t \in Threads |-> 0] /\ sum = [t \in Threads |-> 0]
  /\ calls = [t \in Threads |-> 0] /\ mutex = None
  /\ wrnwritten = 0 /\ nwritten = 0 /\ nread = 0
  /\ mem = [k \in 0..(Capacity - 1) |-> None]
  /\ ran = <<>> /\ notified = {} /\ posts = <<>>

-----------------------------------------------------------------------------
Goto(t, l) == pc' = [pc EXCEPT ![t] = l]

\* Whether calls of two threads may overlap; unless Overlap, a call that also
\* syncs has the logger to itself.
MayOverlap(t, u) == Overlap \/ {t, u} \cap Syncers = {}

\* get_sink, register_sink, set_command_path or set_log_level_style is called.
Call(t) ==
  /\ pc[t] = "idle" /\ calls[t] < MaxCalls
  /\ \A u \in Threads : pc[u] = "idle" \/ MayOverlap(t, u)
  /\ calls' = [calls EXCEPT ![t] = @ + 1]
  /\ what' = [what EXCEPT ![t] = "call"]
  /\ Goto(t, "lock")
  /\ UNCHANGED <<base, sum, ringVars, mutex, nread, ran, notified>>

MutLock(t) ==
  /\ pc[t] = "lock" /\ Goto(t, "span")
  /\ UNCHANGED <<what, base, sum, calls, ringVars, mutex, nread, ran, notified>>
Lock(t) ==
  /\ pc[t] = "lock" /\ mutex = None
  /\ mutex' = t
  /\ Goto(t, "span")
  /\ UNCHANGED <<what, base, sum, calls, ringVars, nread, ran, notified>>

\* write_span: blocks while there is no room.
Room == (nread + Capacity) - wrnwritten >= 1

Span(t) ==
  /\ pc[t] = "span" /\ Room
  /\ base' = [base EXCEPT ![t] = wrnwritten]
  /\ Goto(t, "copy")
  /\ UNCHANGED <<what, sum, calls, ringVars, mutex, nread, ran, notified>>

Copy(t) ==
  /\ pc[t] = "copy"
  /\ mem' = [mem EXCEPT ![base[t] % Capacity] = Record(t)]
  /\ Goto(t, "add")
  /\ UNCHANGED <<what, base, sum, calls, wrnwritten, nwritten, posts, mutex, nread, ran,
                 notified>>

\* reduce_writable: wrnwritten_ is not atomic.
Load(t) ==
  /\ pc[t] = "add"
  /\ sum' = [sum EXCEPT ![t] = wrnwritten]
  /\ Goto(t, "store")
  /\ UNCHANGED <<what, base, calls, ringVars, mutex, nread, ran, notified>>

Store(t) ==
  /\ pc[t] = "store"
  /\ wrnwritten' = sum[t] + 1 /\ nwritten' = sum[t] + 1
  /\ posts' = Append(posts, Record(t))
  /\ Goto(t, IF what[t] = "call" THEN "unlock" ELSE "wait")
  /\ UNCHANGED <<what, base, sum, calls, mem, mutex, nread, ran, notified>>

\* The call returns, or goes on to control_.sync() without the mutex.
Unlock(t) ==
  /\ pc[t] = "unlock"
  /\ mutex' = None
  /\ IF t \in Syncers
       THEN what' = [what EXCEPT ![t] = "sync"] /\ Goto(t, "span")
       ELSE Goto(t, "idle") /\ UNCHANGED what
  /\ UNCHANGED <<base, sum, calls, ringVars, nread, ran, notified>>

Synced(t) ==
  /\ pc[t] = "wait" /\ t \in notified
  /\ notified' = notified \ {t}
  /\ Goto(t, "idle")
  /\ UNCHANGED <<what, base, sum, calls, ringVars, mutex, nread, ran>>

\* The consumer runs the next record and releases it.
MutNotify(r) == {}
Notify(r) == IF r[2] = "sync" THEN {r[1]} ELSE {}

RunRecord ==
  /\ nread < nwritten
  /\ LET r == mem[nread % Capacity] IN
     /\ ran' = Append(ran, r)
     /\ notified' = IF r = None THEN notified ELSE notified \cup Notify(r)
  /\ nread' = nread + 1
  /\ UNCHANGED <<clientVars, ringVars, mutex>>

Step(t) == Lock(t) \/ Span(t) \/ Copy(t) \/ Load(t) \/ Store(t) \/ Unlock(t) \/ Synced(t)

Next == RunRecord \/ \E t \in Threads : Call(t) \/ Step(t)

\* The threads and the consumer run.  Nothing is assumed of the order in which
\* the mutex serves its waiters.
Fairness == WF_vars(RunRecord) /\ \A t \in Threads : WF_vars(Step(t))

Spec == Init /\ [][Next]_vars /\ Fairness

-----------------------------------------------------------------------------
\* logger::post: every record posted to control_ is run, whole, once and in the
\* order of publication; none is overwritten by another thread's post.
RecordsRunOnce ==
  ran \o [k \in 1..(nwritten - nread) |-> mem[(nread + k - 1) % Capacity]] = posts

\* Functions of the logger return, those that sync included.
CallsReturn == \A t \in Threads : pc[t] = "lock" ~> pc[t] = "idle"

\* "All functions in xtr::logger are thread-safe": calls that overlap do not
\* lose each other's records.
ThreadSafe == RecordsRunOnce
=============================================================================
