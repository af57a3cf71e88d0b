------------------------- MODULE ControlSinkProofs --------------------------
(***************************************************************************)
(* RecordsRunOnce for any number of threads, calls and records in the      *)
(* ring, provided that calls that sync do not overlap others (Overlap is   *)
(* FALSE).  At most one thread is then in the middle of a post: it holds   *)
(* control_mutex_, or it has the logger to itself.                         *)
(***************************************************************************)
EXTENDS ControlSink, TLAPS

Posting == {"span", "copy", "add", "store"}
Labels == Posting \cup {"idle", "lock", "unlock", "wait"}
Records == Threads \X {"call", "sync"} \X Nat

TypeOK ==
  /\ pc \in [Threads -> Labels] /\ what \in [Threads -> {"call", "sync"}]
  /\ base \in [Threads -> Nat] /\ sum \in [Threads -> Nat] /\ calls \in [Threads -> Nat]
  /\ mutex \in Threads \cup {None}
  /\ wrnwritten \in Nat /\ nwritten \in Nat /\ nread \in Nat
  /\ DOMAIN mem = 0..(Capacity - 1)
  /\ ran \in Seq(Records) /\ posts \in Seq(Records)

\* The mutex is held from lock to unlock; only a syncer goes on without it.
Exclusion ==
  /\ \A t \in Threads : what[t] = "call" /\ pc[t] \in Posting \cup {"unlock"} => mutex = t
  /\ \A t \in Threads : pc[t] = "unlock" => what[t] = "call"
  /\ \A t \in Threads : what[t] = "sync" /\ pc[t] # "idle" => t \in Syncers
  /\ \A t \in Threads, u \in Threads :
       t \in Syncers /\ u # t => pc[t] = "idle" \/ pc[u] = "idle"

\* A post in the making: its span is free, and the writer's counter stands still.
PostInv ==
  /\ wrnwritten = nwritten /\ nread <= nwritten /\ nwritten <= nread + Capacity
  /\ \A t \in Threads :
       /\ pc[t] \in {"copy", "add", "store"} => nwritten < nread + Capacity
       /\ pc[t] = "copy" => base[t] = nwritten
       /\ pc[t] \in {"add", "store"} => mem[nwritten % Capacity] = Record(t)
       /\ pc[t] = "store" => sum[t] = nwritten

\* What was run and what is in the ring, by its place in the order of publication.
Contents ==
  /\ Len(posts) = nwritten /\ Len(ran) = nread
  /\ \A k \in 1..nread : ran[k] = posts[k]
  /\ \A k \in nread..(nwritten - 1) : mem[k % Capacity] = posts[k + 1]

CInv == TypeOK /\ Exclusion /\ PostInv /\ Contents

-----------------------------------------------------------------------------
\* A function on 1..n is a sequence of length n.
LEMMA FunctionIsSeq ==
  ASSUME NEW S, NEW n \in Nat, NEW f, f = [k \in 1..n |-> f[k]], \A k \in 1..n : f[k] \in S
  PROVE  f \in Seq(S) /\ Len(f) = n
OBVIOUS

\* What the concatenation of two sequences consists of.
LEMMA ConcatFacts ==
  ASSUME NEW S, NEW f \in Seq(S), NEW g \in Seq(S)
  PROVE  /\ f \o g \in Seq(S) /\ Len(f \o g) = Len(f) + Len(g)
         /\ \A k \in 1..Len(f) : (f \o g)[k] = f[k]
         /\ \A k \in 1..Len(g) : (f \o g)[Len(f) + k] = g[k]
OBVIOUS

\* What appending to a sequence gives.
LEMMA AppendFacts ==
  ASSUME NEW S, NEW f \in Seq(S), NEW e \in S
  PROVE  /\ Append(f, e) \in Seq(S) /\ Len(Append(f, e)) = Len(f) + 1
         /\ Append(f, e)[Len(f) + 1] = e
         /\ \A k \in 1..Len(f) : Append(f, e)[k] = f[k]
OBVIOUS

\* Sequences of the same length with the same elements are equal.
LEMMA SameElements ==
  ASSUME NEW S, NEW f \in Seq(S), NEW g \in Seq(S), Len(f) = Len(g),
         \A k \in 1..Len(f) : f[k] = g[k]
  PROVE  f = g
OBVIOUS

\* Distinct counters less than a ring apart have distinct places in the ring.
LEMMA PlacesApart ==
  ASSUME NEW i \in Nat, NEW j \in Nat, i < j, j < i + Capacity
  PROVE  i % Capacity # j % Capacity
<1>1. /\ i = Capacity * (i \div Capacity) + (i % Capacity)
      /\ j = Capacity * (j \div Capacity) + (j % Capacity)
      /\ i \div Capacity \in Nat /\ j \div Capacity \in Nat
      /\ i % Capacity \in Nat /\ j % Capacity \in Nat
  BY ControlAssumption
<1> DEFINE d == (j \div Capacity) - (i \div Capacity)
<1> SUFFICES ASSUME i % Capacity = j % Capacity PROVE FALSE
  BY Zenon
<1>2. d \in Int /\ Capacity * d = j - i
  BY <1>1, ControlAssumption
<1> HIDE DEF d
<1>3. CASE d <= 0
  <2>1. Capacity * d <= 0
    BY <1>2, <1>3, ControlAssumption
  <2> QED BY <1>2, <2>1
<1>4. CASE d >= 1
  <2>1. Capacity * d >= Capacity
    BY <1>2, <1>4, ControlAssumption
  <2> QED BY <1>2, <2>1, ControlAssumption
<1> QED BY <1>2, <1>3, <1>4

\* Nothing is posted at first.
LEMMA InitCInv == Init => CInv
BY ControlAssumption DEF Init, CInv, TypeOK, Exclusion, PostInv, Contents, Labels, Posting,
                         Records

\* Two threads are never both in the middle of a post.
LEMMA OnePosts ==
  ASSUME CInv, NEW t \in Threads, NEW u \in Threads, t # u,
         pc[t] \in Posting \cup {"unlock"}
  PROVE  pc[u] \notin Posting \cup {"unlock"}
BY ControlAssumption, Zenon DEF CInv, TypeOK, Exclusion, Posting

\* A call begins: a syncer alone, others beside calls that do not sync.
LEMMA CallCInv ==
  ASSUME CInv, Overlap = FALSE, NEW t \in Threads, Call(t)
  PROVE  CInv'
<1>1. TypeOK'
  BY SMTT(30) DEF CInv, TypeOK, Call, Goto, ringVars, Labels, Posting
<1>2. Exclusion'
  <2>1. pc[t] = "idle" /\ pc'[t] = "lock" /\ what'[t] = "call" /\ mutex' = mutex
    BY Zenon DEF CInv, TypeOK, Call, Goto
  <2>2. \A u \in Threads \ {t} : pc'[u] = pc[u] /\ what'[u] = what[u]
    BY Zenon DEF CInv, TypeOK, Call, Goto
  <2>3. \A u \in Threads : pc[u] = "idle" \/ (t \notin Syncers /\ u \notin Syncers)
    BY Zenon DEF Call, MayOverlap
  <2> QED BY <2>1, <2>2, <2>3, ZenonT(40) DEF CInv, Exclusion, Posting
<1>3. PostInv' /\ Contents'
  BY Zenon DEF CInv, TypeOK, PostInv, Contents, Call, Goto, Record, ringVars, Posting
<1> QED BY <1>1, <1>2, <1>3, Zenon DEF CInv

\* Lock takes the free mutex.
LEMMA LockCInv ==
  ASSUME CInv, NEW t \in Threads, Lock(t)
  PROVE  CInv'
<1>1. TypeOK'
  BY Zenon DEF CInv, TypeOK, Lock, Goto, ringVars, Labels, Posting
<1>2. Exclusion'
  BY ControlAssumption, SMTT(30) DEF CInv, TypeOK, Exclusion, Lock, Goto, ringVars, Labels, Posting
<1>3. PostInv' /\ Contents'
  BY Zenon DEF CInv, TypeOK, PostInv, Contents, Lock, Goto, Record, ringVars, Posting
<1> QED BY <1>1, <1>2, <1>3, Zenon DEF CInv

\* write_span finds room after the last published record.
LEMMA SpanCInv ==
  ASSUME CInv, NEW t \in Threads, Span(t)
  PROVE  CInv'
<1>1. TypeOK'
  BY Zenon DEF CInv, TypeOK, Span, Goto, ringVars, Labels, Posting
<1>2. Exclusion'
  BY Zenon DEF CInv, TypeOK, Exclusion, Span, Goto, ringVars, Labels, Posting
<1>3. PostInv' /\ Contents'
  <2>1. /\ nread \in Nat /\ nwritten \in Nat /\ Capacity \in Nat /\ wrnwritten = nwritten
        /\ (nread + Capacity) - wrnwritten >= 1
    BY ControlAssumption, Zenon DEF CInv, TypeOK, PostInv, Span, Room
  <2>2. nwritten < nread + Capacity
    BY ONLY <2>1
  <2>3. UNCHANGED <<what, sum, calls, wrnwritten, nwritten, mem, posts, nread, ran>>
    BY Zenon DEF Span, ringVars
  <2>4. Contents'
    BY <2>3, Zenon DEF CInv, Contents
  <2>5. pc'[t] = "copy" /\ base'[t] = nwritten
    BY <2>1, Zenon DEF CInv, TypeOK, Span, Goto
  <2>6. \A u \in Threads \ {t} : pc'[u] = pc[u] /\ base'[u] = base[u]
    BY Zenon DEF CInv, TypeOK, Span, Goto
  <2>7. \A u \in Threads : Record(u)' = Record(u)
    BY <2>3, Zenon DEF Record
  <2> QED BY <2>2, <2>3, <2>4, <2>5, <2>6, <2>7, Zenon DEF CInv, PostInv
<1> QED BY <1>1, <1>2, <1>3, Zenon DEF CInv

\* The record is copied to the place after the last published one.
LEMMA CopyCInv ==
  ASSUME CInv, NEW t \in Threads, Copy(t)
  PROVE  CInv'
<1>1. TypeOK'
  BY Zenon DEF CInv, TypeOK, Copy, Goto, Labels, Posting
<1>2. Exclusion'
  BY Zenon DEF CInv, TypeOK, Exclusion, Copy, Goto, Labels, Posting
<1>3. /\ nwritten % Capacity \in 0..(Capacity - 1)
      /\ mem' = [mem EXCEPT ![nwritten % Capacity] = Record(t)] /\ nwritten < nread + Capacity
  <2>1. nwritten \in Nat /\ Capacity \in Nat \ {0}
    BY ControlAssumption, Zenon DEF CInv, TypeOK
  <2>2. base[t] = nwritten /\ nwritten < nread + Capacity
    BY Zenon DEF CInv, PostInv, Copy
  <2> QED BY <2>1, <2>2 DEF Copy
<1>4. PostInv'
  <2>1. \A u \in Threads \ {t} : pc'[u] = pc[u] /\ pc[u] \notin Posting
    BY OnePosts, Zenon DEF CInv, TypeOK, Copy, Goto, Posting
  <2>2. pc'[t] = "add" /\ Record(t)' = Record(t)
    BY Zenon DEF CInv, TypeOK, Copy, Goto, Record
  <2>3. mem'[nwritten % Capacity] = Record(t)
    BY <1>3, Zenon DEF CInv, TypeOK
  <2> QED BY <1>3, <2>1, <2>2, <2>3 DEF CInv, PostInv, Copy, Posting
<1>5. Contents'
  <2>1. ASSUME NEW k \in nread..(nwritten - 1) PROVE mem'[k % Capacity] = mem[k % Capacity]
    <3>1. k % Capacity # nwritten % Capacity
      <4>1. k \in Nat /\ k < nwritten /\ nwritten < k + Capacity /\ nwritten \in Nat
        BY <1>3, ControlAssumption DEF CInv, TypeOK
      <4> QED BY <4>1, PlacesApart, Zenon
    <3>2. k % Capacity \in 0..(Capacity - 1)
      BY ControlAssumption DEF CInv, TypeOK
    <3> QED BY <1>3, <3>1, <3>2, Zenon DEF CInv, TypeOK
  <2> QED BY <2>1, Zenon DEF CInv, Contents, Copy
<1> QED BY <1>1, <1>2, <1>4, <1>5, Zenon DEF CInv

\* The counter loaded for the addition is the published one.
LEMMA LoadCInv ==
  ASSUME CInv, NEW t \in Threads, Load(t)
  PROVE  CInv'
<1>1. TypeOK'
  BY Zenon DEF CInv, TypeOK, Load, Goto, ringVars, Labels, Posting
<1>2. Exclusion'
  BY Zenon DEF CInv, TypeOK, Exclusion, Load, Goto, ringVars, Labels, Posting
<1>3. PostInv' /\ Contents'
  BY Zenon DEF CInv, TypeOK, PostInv, Contents, Load, Goto, Record, ringVars, Posting
<1> QED BY <1>1, <1>2, <1>3, Zenon DEF CInv

\* Publication: nobody else has a post in the making whose counter would change.
LEMMA StoreCInv ==
  ASSUME CInv, NEW t \in Threads, Store(t)
  PROVE  CInv'
<1>1. Record(t) \in Records
  BY Zenon DEF CInv, TypeOK, Record, Records
<1>2. TypeOK'
  <2>1. posts' \in Seq(Records)
    <3>1. posts \in Seq(Records) /\ posts' = Append(posts, Record(t))
      BY Zenon DEF CInv, TypeOK, Store
    <3> QED BY ONLY <1>1, <3>1, AppendFacts, SMT
  <2>2. wrnwritten' \in Nat /\ nwritten' \in Nat
    <3>1. sum[t] \in Nat /\ wrnwritten' = sum[t] + 1 /\ nwritten' = sum[t] + 1
      BY Zenon DEF CInv, TypeOK, Store
    <3> QED BY ONLY <3>1
  <2>3. pc' \in [Threads -> Labels]
    BY Zenon DEF CInv, TypeOK, Store, Goto, Labels, Posting
  <2> QED BY <2>1, <2>2, <2>3, Zenon DEF CInv, TypeOK, Store
<1>3. Exclusion'
  BY Zenon DEF CInv, TypeOK, Exclusion, Store, Goto, Labels, Posting
<1>4. wrnwritten' = nwritten + 1 /\ nwritten' = nwritten + 1 /\ nwritten < nread + Capacity
  BY Zenon DEF CInv, PostInv, Store
<1>5. PostInv'
  <2>1. \A u \in Threads \ {t} : pc'[u] = pc[u] /\ pc[u] \notin Posting
    BY OnePosts, Zenon DEF CInv, TypeOK, Store, Goto, Posting
  <2>2. pc'[t] \in {"unlock", "wait"}
    BY Zenon DEF CInv, TypeOK, Store, Goto
  <2>3. \A u \in Threads : pc'[u] \notin Posting
    BY <2>1, <2>2, Zenon DEF Posting
  <2>4. nread' = nread /\ nread \in Nat /\ nwritten \in Nat /\ nread <= nwritten /\ Capacity \in Nat
    BY ControlAssumption, Zenon DEF CInv, TypeOK, PostInv, Store
  <2> QED BY <1>4, <2>3, <2>4 DEF PostInv, Posting
<1>6. Contents'
  <2>1. /\ posts' = Append(posts, Record(t)) /\ Len(posts) = nwritten
        /\ mem[nwritten % Capacity] = Record(t)
    BY Zenon DEF CInv, PostInv, Contents, Store
  <2>2. /\ Len(posts') = nwritten + 1 /\ posts'[nwritten + 1] = Record(t)
        /\ \A k \in 1..nwritten : posts'[k] = posts[k]
    <3>1. posts \in Seq(Records)
      BY Zenon DEF CInv, TypeOK
    <3> QED BY ONLY <1>1, <2>1, <3>1, AppendFacts, SMT
  <2>3. /\ nread \in Nat /\ nwritten \in Nat /\ nread <= nwritten /\ Len(ran) = nread
        /\ nread' = nread /\ ran' = ran /\ mem' = mem
        /\ \A k \in 1..nread : ran[k] = posts[k]
        /\ \A k \in nread..(nwritten - 1) : mem[k % Capacity] = posts[k + 1]
    BY Zenon DEF CInv, TypeOK, PostInv, Contents, Store
  <2>4. ASSUME NEW k \in nread..(nwritten' - 1) PROVE mem[k % Capacity] = posts'[k + 1]
    <3>1. k = nwritten \/ (k \in nread..(nwritten - 1) /\ k + 1 \in 1..nwritten)
      BY ONLY <1>4, <2>3, k \in nread..(nwritten' - 1)
    <3> QED BY ONLY <2>1, <2>2, <2>3, <3>1, Zenon
  <2>5. \A k \in 1..nread : k \in 1..nwritten
    BY ONLY <2>3
  <2> QED BY ONLY <1>4, <2>2, <2>3, <2>4, <2>5, Zenon DEF Contents
<1> QED BY <1>2, <1>3, <1>5, <1>6, Zenon DEF CInv

\* A syncer goes on without the mutex, but alone.
LEMMA UnlockCInv ==
  ASSUME CInv, NEW t \in Threads, Unlock(t)
  PROVE  CInv'
<1>1. TypeOK'
  BY Zenon DEF CInv, TypeOK, Unlock, Goto, ringVars, Labels, Posting
<1>2. Exclusion'
  <2>1. \A u \in Threads \ {t} : /\ pc'[u] = pc[u] /\ what'[u] = what[u]
                                /\ pc[u] \notin Posting \cup {"unlock"}
    BY OnePosts, Zenon DEF CInv, TypeOK, Unlock, Goto, Posting
  <2>2. pc'[t] = "idle" \/ (t \in Syncers /\ pc'[t] = "span" /\ what'[t] = "sync")
    BY Zenon DEF CInv, TypeOK, Unlock, Goto
  <2> QED BY <2>1, <2>2 DEF CInv, Exclusion, Unlock, Posting
<1>3. PostInv' /\ Contents'
  <2>2. UNCHANGED <<base, sum, wrnwritten, nwritten, mem, posts, nread, ran>>
    BY Zenon DEF Unlock, ringVars
  <2>3. Contents'
    BY <2>2, Zenon DEF CInv, Contents
  <2>4. PostInv'
    <3>1. ASSUME NEW u \in Threads, pc'[u] \in {"copy", "add", "store"}
          PROVE  pc'[u] = pc[u] /\ Record(u)' = Record(u)
      BY <3>1, Zenon DEF CInv, TypeOK, Unlock, Goto, Record
    <3> QED BY <2>2, <3>1, Zenon DEF CInv, PostInv
  <2> QED BY <2>3, <2>4, Zenon
<1> QED BY <1>1, <1>2, <1>3, Zenon DEF CInv

\* A sync that was waited for returns.
LEMMA SyncedCInv ==
  ASSUME CInv, NEW t \in Threads, Synced(t)
  PROVE  CInv'
<1>1. TypeOK'
  BY Zenon DEF CInv, TypeOK, Synced, Goto, ringVars, Labels, Posting
<1>2. Exclusion'
  BY Zenon DEF CInv, TypeOK, Exclusion, Synced, Goto, ringVars, Labels, Posting
<1>3. PostInv' /\ Contents'
  BY Zenon DEF CInv, TypeOK, PostInv, Contents, Synced, Goto, Record, ringVars, Posting
<1> QED BY <1>1, <1>2, <1>3, Zenon DEF CInv

\* The consumer runs the oldest record.
LEMMA RunRecordCInv ==
  ASSUME CInv, RunRecord
  PROVE  CInv'
<1>0. nread \in Nat /\ nwritten \in Nat /\ Capacity \in Nat
  BY ControlAssumption, Zenon DEF CInv, TypeOK
<1>1. /\ nread < nwritten /\ nread' = nread + 1 /\ mem[nread % Capacity] = posts[nread + 1]
      /\ ran' = Append(ran, posts[nread + 1]) /\ posts[nread + 1] \in Records
  <2>1. nread < nwritten /\ nread' = nread + 1 /\ ran' = Append(ran, mem[nread % Capacity])
    BY Zenon DEF RunRecord
  <2>2. nread \in nread..(nwritten - 1) /\ nread + 1 \in 1..nwritten
    BY ONLY <1>0, <2>1
  <2>3. mem[nread % Capacity] = posts[nread + 1]
    BY <2>2, Zenon DEF CInv, Contents
  <2>4. posts \in Seq(Records) /\ Len(posts) = nwritten
    BY Zenon DEF CInv, TypeOK, Contents
  <2>5. posts[nread + 1] \in Records
    BY ONLY <2>2, <2>4
  <2> QED BY ONLY <2>1, <2>3, <2>5, Zenon
<1>2. TypeOK'
  <2>1. ran' \in Seq(Records) /\ nread' \in Nat
    <3>1. ran \in Seq(Records) /\ nread \in Nat
      BY Zenon DEF CInv, TypeOK
    <3>2. nread + 1 \in Nat
      BY ONLY <3>1
    <3> QED BY ONLY <1>1, <3>1, <3>2, AppendFacts, Zenon
  <2> QED BY <2>1, Zenon DEF CInv, TypeOK, RunRecord, clientVars, ringVars
<1>3. Exclusion'
  BY Zenon DEF CInv, Exclusion, RunRecord, clientVars
<1>4. PostInv'
  <2>1. \A t \in Threads : Record(t)' = Record(t)
    BY Zenon DEF RunRecord, Record, clientVars
  <2>2. /\ nread' <= nwritten /\ nwritten <= nread' + Capacity
        /\ nwritten < nread + Capacity => nwritten < nread' + Capacity
    <3>1. nwritten <= nread + Capacity
      BY Zenon DEF CInv, PostInv
    <3> QED BY ONLY <1>0, <1>1, <3>1
  <2> QED BY <2>1, <2>2, Zenon DEF CInv, PostInv, RunRecord, clientVars, ringVars
<1>5. Contents'
  <2>1. ran \in Seq(Records) /\ Len(ran) = nread /\ \A k \in 1..nread : ran[k] = posts[k]
    BY Zenon DEF CInv, TypeOK, Contents
  <2>2. /\ Len(ran') = nread + 1 /\ ran'[nread + 1] = posts[nread + 1]
        /\ \A k \in 1..nread : ran'[k] = posts[k]
    BY ONLY <1>1, <2>1, AppendFacts, SMT
  <2>3. ASSUME NEW k \in 1..(nread + 1) PROVE ran'[k] = posts[k]
    <3>1. k \in 1..nread \/ k = nread + 1
      BY ONLY <1>0, k \in 1..(nread + 1)
    <3> QED BY ONLY <2>2, <3>1, Zenon
  <2>4. ASSUME NEW k \in (nread + 1)..(nwritten - 1) PROVE mem[k % Capacity] = posts[k + 1]
    <3>1. k \in nread..(nwritten - 1)
      BY ONLY <1>0, k \in (nread + 1)..(nwritten - 1)
    <3> QED BY <3>1, Zenon DEF CInv, Contents
  <2>5. /\ nread' = nread + 1 /\ nwritten' = nwritten /\ posts' = posts /\ mem' = mem
        /\ Len(posts) = nwritten
    BY Zenon DEF CInv, Contents, RunRecord, ringVars
  <2> QED BY ONLY <2>2, <2>3, <2>4, <2>5, Zenon DEF Contents
<1> QED BY <1>2, <1>3, <1>4, <1>5, Zenon DEF CInv

\* CInv is inductive as long as calls that sync have the logger to themselves.
THEOREM ControlInvariance ==
  ASSUME Overlap = FALSE
  PROVE  Spec => []CInv
<1>1. CInv /\ [Next]_vars => CInv'
  <2> SUFFICES ASSUME CInv, [Next]_vars PROVE CInv'
    BY Zenon
  <2>1. CASE UNCHANGED vars
    BY <2>1, Zenon DEF CInv, TypeOK, Exclusion, PostInv, Contents, Record, vars, clientVars, ringVars
  <2>2. CASE RunRecord
    BY <2>2, RunRecordCInv, Zenon
  <2>3. ASSUME NEW t \in Threads, Call(t) \/ Step(t) PROVE CInv'
    BY <2>3, CallCInv, LockCInv, SpanCInv, CopyCInv, LoadCInv, StoreCInv, UnlockCInv,
           SyncedCInv, Zenon
       DEF Step
  <2> QED BY <2>1, <2>2, <2>3, Zenon DEF Next
<1> QED BY InitCInv, <1>1, PTL DEF Spec

\* logger::post: with any number of threads, records posted to control_ are run
\* once, whole and in order, if calls that sync do not overlap others.
THEOREM ControlRecordsRunOnce ==
  ASSUME Overlap = FALSE
  PROVE  Spec => []RecordsRunOnce
<1>1. CInv => RecordsRunOnce
  <2> SUFFICES ASSUME CInv PROVE RecordsRunOnce
    BY Zenon
  <2> DEFINE rest == [k \in 1..(nwritten - nread) |-> mem[(nread + k - 1) % Capacity]]
  <2>1. nread \in Nat /\ nwritten \in Nat /\ nread <= nwritten
    BY Zenon DEF CInv, TypeOK, PostInv
  <2>2. ASSUME NEW k \in 1..(nwritten - nread)
        PROVE  rest[k] = posts[nread + k] /\ nread + k \in 1..nwritten
    <3>1. /\ (nread + k) - 1 \in nread..(nwritten - 1) /\ ((nread + k) - 1) + 1 = nread + k
          /\ nread + k - 1 = (nread + k) - 1 /\ nread + k \in 1..nwritten
      BY ONLY <2>1, k \in 1..(nwritten - nread)
    <3>2. rest[k] = mem[((nread + k) - 1) % Capacity]
      BY <3>1, Zenon
    <3> QED BY <3>1, <3>2, Zenon DEF CInv, Contents
  <2>3. /\ ran \in Seq(Records) /\ Len(ran) = nread /\ \A k \in 1..nread : ran[k] = posts[k]
        /\ posts \in Seq(Records) /\ Len(posts) = nwritten
    BY Zenon DEF CInv, TypeOK, Contents
  <2>4. nwritten - nread \in Nat /\ \A k \in 1..nwritten : posts[k] \in Records
    BY ONLY <2>1, <2>3
  <2>5. rest = [k \in 1..(nwritten - nread) |-> rest[k]]
    BY Zenon
  <2> HIDE DEF rest
  <2>6. rest \in Seq(Records) /\ Len(rest) = nwritten - nread
    <3>1. \A k \in 1..(nwritten - nread) : rest[k] \in Records
      BY ONLY <2>2, <2>4, Zenon
    <3> QED BY ONLY <2>4, <2>5, <3>1, FunctionIsSeq, Zenon
  <2>7. /\ ran \o rest \in Seq(Records) /\ Len(ran \o rest) = nread + (nwritten - nread)
        /\ \A k \in 1..nread : (ran \o rest)[k] = ran[k]
        /\ \A k \in 1..(nwritten - nread) : (ran \o rest)[nread + k] = rest[k]
    BY ONLY <2>3, <2>6, ConcatFacts, SMTT(30)
  <2>8. ran \o rest = posts
    <3>1. nread + (nwritten - nread) = nwritten
      BY ONLY <2>1
    <3>2. ASSUME NEW k \in 1..nwritten PROVE (ran \o rest)[k] = posts[k]
      <4>1. k \in 1..nread \/ (k - nread \in 1..(nwritten - nread) /\ nread + (k - nread) = k)
        BY ONLY <2>1, k \in 1..nwritten
      <4>2. CASE k \in 1..nread
        BY ONLY <2>3, <2>7, <4>2, Zenon
      <4>3. CASE k - nread \in 1..(nwritten - nread) /\ nread + (k - nread) = k
        <5>1. (ran \o rest)[nread + (k - nread)] = rest[k - nread]
          BY ONLY <2>7, <4>3, Zenon
        <5>2. rest[k - nread] = posts[nread + (k - nread)]
          BY ONLY <2>2, <4>3, Zenon
        <5> QED BY ONLY <4>3, <5>1, <5>2, Zenon
      <4> QED BY ONLY <4>1, <4>2, <4>3, Zenon
    <3> QED BY ONLY <2>3, <2>7, <3>1, <3>2, SameElements, SMTT(30)
  <2> QED BY <2>8, Zenon DEF rest, RecordsRunOnce
<1> QED BY <1>1, ControlInvariance, PTL
=============================================================================
