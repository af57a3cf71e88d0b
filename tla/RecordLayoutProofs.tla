------------------------- MODULE RecordLayoutProofs -------------------------
(***************************************************************************)
(* The three properties of RecordLayout for every size of function         *)
(* pointers, ring, lambdas and arguments, and for statements with any      *)
(* number of arguments.  The invariant says of every argument where it     *)
(* was put relative to the end of the one before it; the consumer's walk   *)
(* follows the same rule one argument at a time.                           *)
(***************************************************************************)
EXTENDS RecordLayout, TLAPS

Entry == [pos : Nat, len : Nat \cup {Truncated}]
Mult(x) == x \in Nat /\ \E k \in Nat : x = k * Ptr

LamOK(l) ==
  /\ l \in [size : Nat, align : Nat \ {0}]
  /\ l.align > Ptr => l.align % Ptr = 0

Job == [kind : {"none", "bare", "fixed", "variable"}, lam : [size : Nat, align : Nat \ {0}],
        args : Seq(Arguments), blocking : BOOLEAN, entries : Seq(Entry)]

JobOK(j) ==
  /\ j.kind # "none" /\ LamOK(j.lam) /\ Len(j.entries) <= Len(j.args)
  /\ j.kind # "variable" => j.args = <<>>

EntryEnd(e) == IF e.len = Truncated THEN e.pos ELSE e.pos + e.len

\* Where the argument before the k-th one ends.
Prev(start, j, k) == IF k = 1 THEN HeadEnd(start, j) ELSE EntryEnd(j.entries[k - 1])

\* transform_args put the arguments of j one behind the other.
LaidOut(start, j) ==
  \A k \in 1..Len(j.entries) :
    /\ j.entries[k].pos = ArgPos(j.args[k], Prev(start, j, k))
    /\ j.entries[k].len \in {j.args[k].len, Truncated}
    /\ j.blocking /\ j.entries[k].len = Truncated =>
         j.entries[k].pos + j.args[k].len > start + Capacity

\* Only strings are truncated; a statement with a vcopy that does not fit is dropped.
StringsCut(j) ==
  \A k \in 1..Len(j.entries) : j.entries[k].len = Truncated => j.args[k].kind = "string"

RecordOK(r, written) ==
  /\ JobOK(r.job) /\ Len(r.job.entries) = Len(r.job.args)
  /\ Mult(r.start) /\ Mult(r.next) /\ r.start < r.next /\ r.next <= written
  /\ LaidOut(r.start, r.job) /\ StringsCut(r.job)
  /\ r.next = align(Prev(r.start, r.job, Len(r.job.entries) + 1), Ptr)

Rec == [start : Nat, next : Nat, job : Job]

TypeOK ==
  /\ pc \in {"idle", "span", "args"} /\ job \in Job /\ cur \in Nat /\ overflow \in BOOLEAN
  /\ ring \in Seq(Rec)
  /\ rend \in Nat /\ walk \in [n : Int, pos : Nat] /\ posts \in Nat /\ dropped \in Nat
  /\ Mult(nwritten) /\ Mult(nread) /\ Mult(limit) /\ Mult(end) /\ Mult(rpos)

CountersInv ==
  /\ nread <= rpos /\ rpos <= nwritten /\ nwritten <= nread + Capacity
  /\ limit <= nread + Capacity /\ rend <= nwritten

WriterInv ==
  /\ pc # "idle" => JobOK(job)
  /\ pc = "span" => job.entries = <<>>
  /\ pc = "args" => /\ cur = Prev(nwritten, job, Len(job.entries) + 1) /\ end <= limit
                    /\ cur > nwritten
                    /\ LaidOut(nwritten, job)
                    /\ ~overflow => StringsCut(job) /\ cur <= end

ChainInv ==
  /\ \A i \in 1..Len(ring) : RecordOK(ring[i], nwritten)
  /\ \A i \in 1..(Len(ring) - 1) : ring[i].next = ring[i + 1].start
  /\ ring = <<>> => rpos = nwritten
  /\ ring # <<>> => ring[1].start = rpos /\ ring[Len(ring)].next = nwritten

ReaderInv ==
  Walking => /\ ring # <<>> /\ rpos < rend
             /\ walk.n \in 0..Len(ring[1].job.entries) /\ ring[1].job.kind = "variable"
             /\ walk.pos = Prev(rpos, ring[1].job, walk.n + 1)

LInv == TypeOK /\ CountersInv /\ WriterInv /\ ChainInv /\ ReaderInv

-----------------------------------------------------------------------------
\* Multiples of the size of a function pointer, and rounding up.

\* A product that is not less than a smaller number of the same factor.
LEMMA MultBound ==
  ASSUME NEW a \in Nat \ {0}, NEW p \in Int, NEW q \in Int, a * p < a * q + a
  PROVE  p <= q
<1> SUFFICES ASSUME p - q >= 1 PROVE FALSE
  OBVIOUS
<1>1. a * (p - q) < a
  OBVIOUS
<1>2. a * (p - q) >= a
  OBVIOUS
<1> QED BY <1>1, <1>2

\* Multiples of Ptr are closed under addition.
LEMMA MultSum ==
  ASSUME NEW x, NEW y, Mult(x), Mult(y)
  PROVE  Mult(x + y)
<1>1. PICK k \in Nat : x = k * Ptr
  BY Zenon DEF Mult
<1>2. PICK l \in Nat : y = l * Ptr
  BY Zenon DEF Mult
<1>3. k + l \in Nat /\ x + y = (k + l) * Ptr /\ x + y \in Nat
  BY <1>1, <1>2, LayoutAssumption DEF Mult
<1> QED BY <1>3, Zenon DEF Mult

\* A number that leaves no remainder is a multiple, and the other way round.
LEMMA MultOfMod ==
  ASSUME NEW x \in Nat, x % Ptr = 0
  PROVE  Mult(x)
<1>1. x = Ptr * (x \div Ptr) + (x % Ptr) /\ x \div Ptr \in Nat
  BY LayoutAssumption
<1>2. x = (x \div Ptr) * Ptr
  BY <1>1, LayoutAssumption
<1> QED BY <1>1, <1>2, Zenon DEF Mult

\* A multiple of the size of a function pointer leaves no remainder.
LEMMA ModOfMult ==
  ASSUME NEW x, Mult(x)
  PROVE  x % Ptr = 0
<1>1. PICK k \in Nat : x = k * Ptr
  BY Zenon DEF Mult
<1>2. /\ x = Ptr * (x \div Ptr) + (x % Ptr) /\ x \div Ptr \in Int
      /\ x % Ptr \in 0..(Ptr - 1)
  BY LayoutAssumption DEF Mult
<1>3. Ptr * k = Ptr * (x \div Ptr) + (x % Ptr)
  BY <1>1, <1>2, LayoutAssumption
<1>4. k <= x \div Ptr
  BY <1>2, <1>3, MultBound, LayoutAssumption
<1>5. x \div Ptr <= k
  BY <1>2, <1>3, MultBound, LayoutAssumption
<1>6. k = x \div Ptr
  BY <1>2, <1>4, <1>5
<1>7. Ptr * k = Ptr * k + (x % Ptr) /\ Ptr * k \in Int
  BY <1>3, <1>6, LayoutAssumption
<1> QED BY <1>2, <1>7

\* Zero, one function pointer and the whole ring are multiples.
LEMMA MultConstants == Mult(0) /\ Mult(Ptr) /\ Mult(Capacity)
<1>1. 0 % Ptr = 0 /\ Ptr % Ptr = 0
  BY LayoutAssumption
<1>2. Mult(0) /\ Mult(Ptr)
  BY <1>1, MultOfMod, LayoutAssumption, Zenon
<1>3. Mult(Capacity)
  BY MultOfMod, LayoutAssumption, Zenon
<1> QED BY <1>2, <1>3, Zenon

\* align rounds up, to no more than any multiple above.
LEMMA AlignFacts ==
  ASSUME NEW v \in Nat, NEW a \in Nat \ {0}
  PROVE  /\ align(v, a) \in Nat /\ align(v, a) >= v
         /\ \E q \in Nat : align(v, a) = q * a /\ a * q <= v + a - 1
<1> DEFINE w == v + a - 1
           q == w \div a
<1>1. w \in Nat
  OBVIOUS
<1> HIDE DEF w
<1>2. w = a * q + (w % a) /\ w % a \in 0..(a - 1) /\ q \in Nat
  BY <1>1
<1>3. align(v, a) = q * a
  BY Zenon DEF align, w
<1> HIDE DEF q
<1>4. q * a \in Nat /\ q * a = a * q
  BY <1>2
<1>5. a * q <= v + a - 1 /\ a * q >= v
  BY <1>2, <1>4 DEF w
<1> QED BY <1>2, <1>3, <1>4, <1>5, Zenon

\* Rounding up to a function pointer yields a multiple no larger than any multiple
\* that is at least the value: why publish stays inside the span that was free.
LEMMA AlignPtr ==
  ASSUME NEW v \in Nat
  PROVE  /\ Mult(align(v, Ptr)) /\ align(v, Ptr) >= v
         /\ \A e : Mult(e) /\ v <= e => align(v, Ptr) <= e
         /\ Mult(v) => align(v, Ptr) = v
<1>1. /\ align(v, Ptr) \in Nat /\ align(v, Ptr) >= v
  BY AlignFacts, LayoutAssumption, Zenon
<1>2. PICK q \in Nat : align(v, Ptr) = q * Ptr /\ Ptr * q <= v + Ptr - 1
  BY AlignFacts, LayoutAssumption, Zenon
<1>3. ASSUME NEW e, Mult(e), v <= e PROVE align(v, Ptr) <= e
  <2>1. PICK k \in Nat : e = k * Ptr
    BY <1>3, Zenon DEF Mult
  <2>2. Ptr * q < Ptr * k + Ptr
    BY <1>2, <1>3, <2>1, LayoutAssumption DEF Mult
  <2>3. q <= k
    BY <2>2, MultBound, LayoutAssumption
  <2>4. Ptr * q <= Ptr * k
    BY <2>3, LayoutAssumption
  <2> QED BY <1>2, <2>1, <2>4, LayoutAssumption
<1>4. Mult(v) => align(v, Ptr) = v
  BY <1>1, <1>3
<1> QED BY <1>1, <1>2, <1>3, <1>4, Zenon DEF Mult

\* Rounding up to a multiple of a multiple.
LEMMA AlignOver ==
  ASSUME NEW v \in Nat, NEW a \in Nat \ {0}, a % Ptr = 0
  PROVE  Mult(align(v, a))
<1>1. PICK k \in Nat : a = k * Ptr
  BY MultOfMod, Zenon DEF Mult
<1>2. PICK q \in Nat : align(v, a) = q * a
  BY AlignFacts, Zenon
<1>3. q * k \in Nat /\ q * a = (q * k) * Ptr /\ align(v, a) \in Nat
  BY <1>1, <1>2, AlignFacts, LayoutAssumption
<1> QED BY <1>2, <1>3, Zenon DEF Mult

-----------------------------------------------------------------------------
\* Positions.

\* The lambda and the fixed part of a record.
LEMMA HeadFacts ==
  ASSUME NEW start, Mult(start), NEW j \in Job, JobOK(j)
  PROVE  /\ HeadEnd(start, j) \in Nat /\ HeadEnd(start, j) > start
         /\ j.kind # "variable" => Mult(HeadEnd(start, j))
<1>1. Mult(start + Ptr) /\ start \in Nat /\ Ptr \in Nat \ {0}
  BY MultSum, MultConstants, LayoutAssumption, Zenon DEF Mult
<1>2. j.lam.size \in Nat /\ j.lam.align \in Nat \ {0} /\ start + Ptr \in Nat
  BY <1>1 DEF JobOK, LamOK
<1>3. Mult(FuncPos(start, j.lam)) /\ FuncPos(start, j.lam) >= start + Ptr
  <2>1. CASE j.lam.align > Ptr
    BY <1>1, <1>2, <2>1, AlignFacts, AlignOver, Zenon DEF FuncPos, JobOK, LamOK
  <2>2. CASE ~(j.lam.align > Ptr)
    BY <1>1, <1>2, <2>2 DEF FuncPos
  <2> QED BY <2>1, <2>2, Zenon
<1>4. Mult(align(j.lam.size, Ptr)) /\ align(j.lam.size, Ptr) \in Nat
  BY <1>2, AlignPtr, Zenon DEF Mult
<1>5. Mult(FuncPos(start, j.lam) + align(j.lam.size, Ptr))
  BY <1>3, <1>4, MultSum, Zenon
<1>6. FuncPos(start, j.lam) \in Nat
  BY <1>3, Zenon DEF Mult
<1>7. CASE j.kind = "bare"
  BY <1>1, <1>7 DEF HeadEnd, Mult
<1>8. CASE j.kind = "fixed"
  BY <1>1, <1>3, <1>4, <1>5, <1>6, <1>8 DEF HeadEnd
<1>9. CASE j.kind = "variable"
  BY <1>1, <1>2, <1>3, <1>6, <1>9 DEF HeadEnd
<1> QED BY <1>7, <1>8, <1>9, Zenon DEF Job, JobOK

\* Arguments begin at or behind the end of the one before.
LEMMA ArgFacts ==
  ASSUME NEW a \in Arguments, NEW p \in Nat
  PROVE  ArgPos(a, p) \in Nat /\ ArgPos(a, p) >= p /\ a.len \in Nat
<1>1. a.align \in Nat \ {0} /\ a.len \in Nat
  BY LayoutAssumption, Zenon
<1>2. align(p, a.align) \in Nat /\ align(p, a.align) >= p
  BY <1>1, AlignFacts, Zenon
<1> QED BY <1>1, <1>2 DEF ArgPos

\* The end of the argument before the next one is a position.
LEMMA PrevFacts ==
  ASSUME NEW start, Mult(start), NEW j \in Job, JobOK(j), NEW k \in 1..(Len(j.entries) + 1)
  PROVE  Prev(start, j, k) \in Nat
<1>1. CASE k = 1
  BY <1>1, HeadFacts, Zenon DEF Prev
<1>2. CASE k # 1
  <2>1. k - 1 \in 1..Len(j.entries)
    BY <1>2 DEF Job
  <2>2. j.entries[k - 1] \in Entry
    BY <2>1 DEF Job
  <2> QED BY <1>2, <2>2 DEF Prev, EntryEnd, Entry
<1> QED BY <1>1, <1>2, Zenon

\* What was laid out stays where it is when another entry is added.
LEMMA PrevOfAppend ==
  ASSUME NEW start, NEW j \in Job, NEW i \in Job, NEW e \in Entry,
         i.kind = j.kind, i.lam = j.lam, i.entries = Append(j.entries, e)
  PROVE  /\ Len(i.entries) = Len(j.entries) + 1 /\ Len(j.entries) \in Nat
         /\ i.entries[Len(j.entries) + 1] = e
         /\ \A k \in 1..Len(j.entries) : i.entries[k] = j.entries[k]
         /\ \A k \in 1..(Len(j.entries) + 1) : Prev(start, i, k) = Prev(start, j, k)
         /\ Prev(start, i, Len(j.entries) + 2) = EntryEnd(e)
<1>1. j.entries \in Seq(Entry)
  BY Zenon DEF Job
<1>2. /\ Len(i.entries) = Len(j.entries) + 1 /\ Len(j.entries) \in Nat
      /\ i.entries[Len(j.entries) + 1] = e
      /\ \A k \in 1..Len(j.entries) : i.entries[k] = j.entries[k]
  BY <1>1
<1>3. HeadEnd(start, i) = HeadEnd(start, j)
  BY Zenon DEF HeadEnd
<1>4. \A k \in 1..(Len(j.entries) + 1) : Prev(start, i, k) = Prev(start, j, k)
  <2> TAKE k \in 1..(Len(j.entries) + 1)
  <2>1. CASE k = 1
    BY <1>3, <2>1, Zenon DEF Prev
  <2>2. CASE k # 1
    <3>1. k - 1 \in 1..Len(j.entries)
      BY <1>2, <2>2
    <3> QED BY <1>2, <2>2, <3>1, Zenon DEF Prev
  <2> QED BY <2>1, <2>2, Zenon
<1>5. Prev(start, i, Len(j.entries) + 2) = EntryEnd(e)
  <2>1. (Len(j.entries) + 2) - 1 = Len(j.entries) + 1 /\ Len(j.entries) + 2 # 1
    BY <1>2
  <2> QED BY <1>2, <2>1, Zenon DEF Prev
<1> QED BY <1>2, <1>4, <1>5, Zenon

\* The records in the ring.
LEMMA RecordsInRing ==
  ASSUME LInv
  PROVE  /\ Len(ring) \in Nat /\ (ring = <<>> <=> Len(ring) = 0) /\ DOMAIN ring = 1..Len(ring)
         /\ \A i \in 1..Len(ring) : /\ ring[i] \in Rec /\ RecordOK(ring[i], nwritten)
                                   /\ ring[i].job \in Job /\ ring[i].start \in Nat
                                   /\ ring[i].next \in Nat
<1>1. ring \in Seq(Rec)
  BY Zenon DEF LInv, TypeOK
<1>2. /\ Len(ring) \in Nat /\ (ring = <<>> <=> Len(ring) = 0) /\ DOMAIN ring = 1..Len(ring)
      /\ \A i \in 1..Len(ring) : ring[i] \in Rec
  BY <1>1
<1> QED BY <1>2, Zenon DEF Rec, LInv, ChainInv

-----------------------------------------------------------------------------
\* The steps of the writer.

\* Nothing has been posted.
LEMMA InitLInv == Init => LInv
<1> SUFFICES ASSUME Init PROVE LInv
  BY Zenon
<1>1. NoJob \in Job
  <2>1. <<>> \in Seq(Arguments) /\ <<>> \in Seq(Entry)
    OBVIOUS
  <2> QED BY <2>1 DEF NoJob, Job
<1>2. TypeOK
  <2>1. <<>> \in Seq(Rec)
    OBVIOUS
  <2>2. NoWalk \in [n : Int, pos : Nat]
    BY DEF NoWalk
  <2>3. Mult(nwritten) /\ Mult(nread) /\ Mult(limit) /\ Mult(end) /\ Mult(rpos)
    BY MultConstants, Zenon DEF Init
  <2> QED BY <1>1, <2>1, <2>2, <2>3, Zenon DEF Init, TypeOK
<1>3. CountersInv /\ WriterInv /\ ChainInv /\ ReaderInv
  BY LayoutAssumption DEF Init, CountersInv, WriterInv, ChainInv, ReaderInv, Walking
<1> QED BY <1>2, <1>3, Zenon DEF LInv

\* A statement.
LEMMA LogLInv ==
  ASSUME LInv, NEW j \in Statements, log(j)
  PROVE  LInv'
<1>1. j \in Job /\ JobOK(j) /\ j.entries = <<>>
  <2>1. LamOK(NoJob.lam) /\ \A l \in Lambdas : LamOK(l)
    BY LayoutAssumption DEF LamOK, NoJob
  <2>2. <<>> \in Seq(Entry) /\ <<>> \in Seq(Arguments)
    OBVIOUS
  <2>3. \A n \in 1..MaxArgs : [1..n -> Arguments] \subseteq Seq(Arguments)
    BY LayoutAssumption
  <2>4. j.args \in Seq(Arguments) /\ j.entries = <<>> /\ LamOK(j.lam)
    BY <2>1, <2>2, <2>3, Zenon DEF Statements
  <2>5. j \in Job
    BY <2>2, <2>4, Zenon DEF Statements, Job, LamOK
  <2>6. JobOK(j)
    BY <2>4, <2>5 DEF Statements, JobOK, Job
  <2> QED BY <2>4, <2>5, <2>6, Zenon
<1>2. TypeOK' /\ CountersInv'
  BY <1>1 DEF LInv, TypeOK, CountersInv, log, readerVars
<1>3. WriterInv'
  BY <1>1, Zenon DEF log, WriterInv
<1>4. ChainInv' /\ ReaderInv'
  BY Zenon DEF LInv, ChainInv, RecordOK, ReaderInv, Walking, log, readerVars
<1> QED BY <1>2, <1>3, <1>4, Zenon DEF LInv

\* The record is given up.
LEMMA DropLInv ==
  ASSUME LInv, Drop, nwritten' = nwritten, ring' = ring, UNCHANGED readerVars, posts' = posts,
         Mult(limit'), limit' <= nread + Capacity, cur' \in Nat, Mult(end'), overflow' \in BOOLEAN
  PROVE  LInv'
<1>1. NoJob \in Job
  <2>1. <<>> \in Seq(Arguments) /\ <<>> \in Seq(Entry)
    OBVIOUS
  <2> QED BY <2>1 DEF NoJob, Job
<1>2. TypeOK' /\ CountersInv'
  BY <1>1 DEF LInv, TypeOK, CountersInv, Drop, readerVars
<1>3. WriterInv'
  BY Zenon DEF Drop, WriterInv
<1>4. ChainInv' /\ ReaderInv'
  BY Zenon DEF LInv, ChainInv, RecordOK, ReaderInv, Walking, readerVars
<1> QED BY <1>2, <1>3, <1>4, Zenon DEF LInv

\* write_span: the head of the record fits below limit.
LEMMA WriteSpanLInv ==
  ASSUME LInv, write_span
  PROVE  LInv'
<1>1. Mult(limit') /\ limit' <= nread + Capacity /\ limit' >= limit
  <2>1. Mult(nread + Capacity) /\ limit \in Nat /\ Mult(limit) /\ limit <= nread + Capacity
    <3>1. Mult(nread) /\ Mult(limit) /\ limit <= nread + Capacity
      BY Zenon DEF LInv, TypeOK, CountersInv
    <3>2. Mult(nread + Capacity)
      BY <3>1, MultSum, MultConstants, Zenon
    <3> QED BY <3>1, <3>2, Zenon DEF Mult
  <2>2. limit' = limit \/ limit' = nread + Capacity
    BY Zenon DEF write_span
  <2>3. nread + Capacity \in Nat
    BY <2>1, Zenon DEF Mult
  <2> QED BY <2>1, <2>2, <2>3
<1>2. CASE Need(job) <= limit'
  <2>1. /\ pc' = "args" /\ cur' = HeadEnd(nwritten, job) /\ end' = limit' /\ overflow' = FALSE
        /\ UNCHANGED <<job, dropped, nwritten, posts, readerVars, ring>> /\ pc = "span"
    BY <1>2, Zenon DEF write_span
  <2>2. JobOK(job) /\ job.entries = <<>> /\ job \in Job /\ Mult(nwritten)
    BY <2>1, Zenon DEF LInv, TypeOK, WriterInv
  <2>3. cur' \in Nat /\ cur' <= end' /\ cur' > nwritten
    BY <1>2, <2>1, <2>2, HeadFacts, Zenon DEF Need
  <2>4. TypeOK' /\ CountersInv'
    BY <1>1, <2>1, <2>3, Zenon DEF LInv, TypeOK, CountersInv, readerVars
  <2>5. Len(job.entries) = 0
    BY <2>2
  <2>6. WriterInv'
    BY <1>1, <2>1, <2>2, <2>3, <2>5 DEF WriterInv, Prev, LaidOut, StringsCut, Mult
  <2>7. ChainInv' /\ ReaderInv'
    BY <2>1, Zenon DEF LInv, ChainInv, RecordOK, ReaderInv, Walking, readerVars
  <2> QED BY <2>4, <2>6, <2>7, Zenon DEF LInv
<1>3. CASE ~(Need(job) <= limit') /\ job.blocking
  <2>1. UNCHANGED <<pc, job, dropped, cur, end, overflow, nwritten, posts, readerVars, ring>>
        /\ pc = "span"
    BY <1>3, Zenon DEF write_span
  <2>2. TypeOK' /\ CountersInv'
    BY <1>1, <2>1, Zenon DEF LInv, TypeOK, CountersInv, readerVars
  <2>3. WriterInv'
    BY <2>1, Zenon DEF LInv, WriterInv
  <2>4. ChainInv' /\ ReaderInv'
    BY <2>1, Zenon DEF LInv, ChainInv, RecordOK, ReaderInv, Walking, readerVars
  <2> QED BY <2>2, <2>3, <2>4, Zenon DEF LInv
<1>4. CASE ~(Need(job) <= limit') /\ ~job.blocking
  <2>1. Drop /\ UNCHANGED <<cur, end, overflow, nwritten, posts, readerVars, ring>>
    BY <1>4, Zenon DEF write_span
  <2> QED BY <1>1, <2>1, DropLInv, Zenon DEF LInv, TypeOK
<1> QED BY <1>2, <1>3, <1>4, Zenon

\* transform_args: the next argument is put behind the one before it, cut, or the
\* writer looks again.
LEMMA TransformLInv ==
  ASSUME LInv, transform_args
  PROVE  LInv'
<1> DEFINE m == Len(job.entries)
           pos == ArgPos(Arg, cur)
           value_end == pos + Arg.len
<1>1. /\ pc = "args" /\ pc' = "args" /\ m < Len(job.args) /\ m \in Nat /\ Len(job.args) \in Nat
      /\ UNCHANGED <<nwritten, posts, dropped, readerVars, ring>>
      /\ job \in Job /\ JobOK(job) /\ Mult(nwritten) /\ cur \in Nat /\ nwritten \in Nat
      /\ cur = Prev(nwritten, job, m + 1) /\ LaidOut(nwritten, job) /\ Mult(end) /\ end <= limit
      /\ ~overflow => StringsCut(job) /\ cur <= end
      /\ overflow \in BOOLEAN /\ end \in Nat /\ cur > nwritten
  <2>1. pc = "args" /\ m < Len(job.args)
    BY Zenon DEF transform_args
  <2>2. /\ job \in Job /\ Mult(nwritten) /\ Mult(end) /\ cur \in Nat /\ overflow \in BOOLEAN
    BY Zenon DEF LInv, TypeOK
  <2>3. /\ JobOK(job) /\ cur = Prev(nwritten, job, m + 1) /\ LaidOut(nwritten, job)
        /\ end <= limit /\ (~overflow => StringsCut(job) /\ cur <= end) /\ cur > nwritten
    BY <2>1, Zenon DEF LInv, WriterInv
  <2>4. m \in Nat /\ Len(job.args) \in Nat
    BY <2>2 DEF Job
  <2>5. nwritten \in Nat /\ end \in Nat
    BY <2>2, Zenon DEF Mult
  <2>6. pc' = "args" /\ UNCHANGED <<nwritten, posts, dropped, readerVars, ring>>
    BY <2>1, Zenon DEF transform_args
  <2> QED BY <2>1, <2>2, <2>3, <2>4, <2>5, <2>6, Zenon
<1>2. Arg = job.args[m + 1] /\ Arg \in Arguments
  BY <1>1 DEF Arg, Job
<1>3. pos \in Nat /\ pos >= cur /\ Arg.len \in Nat /\ value_end \in Nat
  <2>1. cur \in Nat
    BY <1>1, Zenon
  <2>2. pos \in Nat /\ pos >= cur /\ Arg.len \in Nat
    BY <1>2, <2>1, ArgFacts, Zenon
  <2> QED BY <2>2
<1>4. /\ Mult(limit) /\ Mult(limit') /\ limit' <= nread + Capacity /\ limit' >= limit
      /\ limit \in Nat /\ limit' \in Nat /\ nread \in Nat
      /\ end < value_end => limit' = nread + Capacity
  <2>1. /\ Mult(nread) /\ Mult(limit) /\ limit <= nread + Capacity
        /\ limit' = IF end < value_end THEN nread + Capacity ELSE limit
    BY Zenon DEF LInv, TypeOK, CountersInv, transform_args
  <2>2. Mult(nread + Capacity)
    BY <2>1, MultSum, MultConstants, Zenon
  <2> QED BY <2>1, <2>2 DEF Mult
<1>5. ChainInv' /\ ReaderInv'
  BY <1>1, Zenon DEF LInv, ChainInv, RecordOK, ReaderInv, Walking, readerVars
<1>6. CASE end < value_end /\ limit' < value_end /\ ~GiveUp /\ end' = limit'
           /\ UNCHANGED <<job, cur, overflow>>
  <2>1. TypeOK' /\ CountersInv'
    BY <1>1, <1>4, <1>6, Zenon DEF LInv, TypeOK, CountersInv, readerVars
  <2>2. WriterInv'
    BY <1>1, <1>4, <1>6 DEF LInv, WriterInv
  <2> QED BY <1>5, <2>1, <2>2, Zenon DEF LInv
<1>7. ASSUME NEW len \in Nat \cup {Truncated}, AddEntry(pos, len), len \in {Arg.len, Truncated},
             job.blocking /\ len = Truncated => pos + Arg.len > nwritten + Capacity,
             cur' = EntryEnd([pos |-> pos, len |-> len]), Mult(end'), end' <= limit',
             overflow' \in BOOLEAN,
             ~overflow' => ~overflow /\ cur' <= end' /\ (len = Truncated => Arg.kind = "string")
      PROVE  LInv'
  <2> DEFINE e == [pos |-> pos, len |-> len]
  <2>1. e \in Entry /\ e.pos = pos /\ e.len = len
    BY <1>3, <1>7, Zenon DEF Entry
  <2> HIDE DEF e
  <2>2. job' = [job EXCEPT !.entries = Append(@, e)]
    BY <1>7, Zenon DEF AddEntry, e
  <2>3. job' \in Job
    <3>0. job \in Job
      BY <1>1, Zenon
    <3>1. job.entries \in Seq(Entry)
      BY ONLY <3>0, Zenon DEF Job
    <3>2. Append(job.entries, e) \in Seq(Entry)
      BY ONLY <2>1, <3>1
    <3> QED BY ONLY <2>2, <3>0, <3>2, Zenon DEF Job
  <2>4. /\ Len(job'.entries) = m + 1 /\ job'.entries[m + 1] = e
        /\ \A k \in 1..m : job'.entries[k] = job.entries[k]
        /\ \A k \in 1..(m + 1) : Prev(nwritten, job', k) = Prev(nwritten, job, k)
        /\ Prev(nwritten, job', m + 2) = EntryEnd(e)
        /\ job'.kind = job.kind /\ job'.lam = job.lam /\ job'.args = job.args
        /\ job'.blocking = job.blocking
    <3>1. job \in Job /\ job' \in Job /\ e \in Entry
      BY <1>1, <2>1, <2>3, Zenon
    <3>2. /\ job'.kind = job.kind /\ job'.lam = job.lam /\ job'.args = job.args
          /\ job'.blocking = job.blocking /\ job'.entries = Append(job.entries, e)
      BY <2>2, <3>1, Zenon DEF Job
    <3>3. /\ Len(job'.entries) = m + 1 /\ job'.entries[m + 1] = e
          /\ \A k \in 1..m : job'.entries[k] = job.entries[k]
          /\ \A k \in 1..(m + 1) : Prev(nwritten, job', k) = Prev(nwritten, job, k)
          /\ Prev(nwritten, job', m + 2) = EntryEnd(e)
      <4>1. ASSUME NEW i \in Job, i.kind = job.kind, i.lam = job.lam,
                   i.entries = Append(job.entries, e)
            PROVE  /\ Len(i.entries) = Len(job.entries) + 1
                   /\ i.entries[Len(job.entries) + 1] = e
                   /\ \A k \in 1..Len(job.entries) : i.entries[k] = job.entries[k]
                   /\ \A k \in 1..(Len(job.entries) + 1) :
                        Prev(nwritten, i, k) = Prev(nwritten, job, k)
                   /\ Prev(nwritten, i, Len(job.entries) + 2) = EntryEnd(e)
        BY ONLY <3>1, <4>1, PrevOfAppend
      <4> QED BY ONLY <3>1, <3>2, <4>1, Zenon
    <3> QED BY <3>2, <3>3, Zenon
  <2>5. cur' \in Nat /\ cur' > nwritten
    BY <1>1, <1>3, <1>7 DEF EntryEnd
  <2>6. TypeOK' /\ CountersInv'
    BY <1>1, <1>4, <1>7, <2>3, <2>5, Zenon DEF LInv, TypeOK, CountersInv, readerVars
  <2>7. JobOK(job')
    BY <1>1, <2>4 DEF JobOK
  <2>8. LaidOut(nwritten, job')
    <3>1. ASSUME NEW k \in 1..(m + 1)
          PROVE  /\ job'.entries[k].pos = ArgPos(job'.args[k], Prev(nwritten, job', k))
                 /\ job'.entries[k].len \in {job'.args[k].len, Truncated}
                 /\ job'.blocking /\ job'.entries[k].len = Truncated =>
                      job'.entries[k].pos + job'.args[k].len > nwritten + Capacity
      <4>1. CASE k = m + 1
        BY <1>1, <1>2, <1>7, <2>1, <2>4, <4>1, Zenon
      <4>2. CASE k # m + 1
        <5>1. k \in 1..m /\ k \in 1..Len(job.entries)
          BY <1>1, <4>2
        <5> QED BY <1>1, <2>4, <5>1, Zenon DEF LaidOut
      <4> QED BY <4>1, <4>2, Zenon
    <3> QED BY <2>4, <3>1, Zenon DEF LaidOut
  <2>9. ~overflow' => StringsCut(job')
    <3> SUFFICES ASSUME ~overflow', NEW k \in 1..(m + 1), job'.entries[k].len = Truncated
                 PROVE  job'.args[k].kind = "string"
      BY <2>4, Zenon DEF StringsCut
    <3>1. CASE k = m + 1
      BY <1>2, <1>7, <2>1, <2>4, <3>1, Zenon
    <3>2. CASE k # m + 1
      <4>1. k \in 1..Len(job.entries) /\ StringsCut(job)
        BY <1>1, <1>7, <3>2
      <4> QED BY <2>4, <4>1, Zenon DEF StringsCut
    <3> QED BY <3>1, <3>2, Zenon
  <2>10. cur' = Prev(nwritten, job', Len(job'.entries) + 1)
    <3>1. Len(job'.entries) + 1 = m + 2
      BY <1>1, <2>4
    <3> QED BY <1>7, <2>4, <3>1, Zenon DEF e
  <2>11. WriterInv'
    BY <1>1, <1>7, <2>5, <2>7, <2>8, <2>9, <2>10, Zenon DEF WriterInv
  <2> QED BY <1>5, <2>6, <2>11, Zenon DEF LInv
<1>8. CASE /\ value_end <= end \/ value_end <= limit'
           /\ AddEntry(pos, Arg.len) /\ cur' = value_end
           /\ end' = IF end < value_end THEN limit' ELSE end
           /\ overflow' = overflow
  <2>1. Arg.len # Truncated
    BY <1>3 DEF Truncated
  <2>2. cur' = EntryEnd([pos |-> pos, len |-> Arg.len])
    BY <1>8, <2>1, Zenon DEF EntryEnd
  <2>3. Mult(end') /\ end' <= limit' /\ cur' <= end'
    BY <1>1, <1>3, <1>4, <1>8
  <2> QED BY <1>1, <1>3, <1>7, <1>8, <2>1, <2>2, <2>3, Zenon
<1>9. CASE /\ end < value_end /\ limit' < value_end /\ GiveUp
           /\ AddEntry(pos, Truncated) /\ cur' = pos /\ end' = end
           /\ overflow' = (overflow \/ Arg.kind = "vcopy")
  <2>1. cur' = EntryEnd([pos |-> pos, len |-> Truncated])
    BY <1>9, Zenon DEF EntryEnd
  <2>2. job.blocking => pos + Arg.len > nwritten + Capacity
    BY <1>1, <1>3, <1>4, <1>9, Zenon DEF GiveUp
  <2>3. overflow' \in BOOLEAN /\ Mult(end') /\ end' <= limit'
    BY <1>1, <1>3, <1>4, <1>9
  <2>4. ~overflow' => ~overflow /\ Arg.kind = "string" /\ cur' <= end'
    <3>1. Arg.kind \in {"string", "vcopy"}
      BY <1>2, LayoutAssumption, Zenon
    <3>2. Arg.kind = "string" => pos = cur
      BY Zenon DEF ArgPos
    <3> QED BY <1>1, <1>9, <3>1, <3>2, Zenon
  <2> QED BY <1>7, <1>9, <2>1, <2>2, <2>3, <2>4, Zenon
<1> QED BY <1>6, <1>8, <1>9, Zenon DEF transform_args

\* Publication: the end rounded up is still inside the span that was free.
LEMMA PublishLInv ==
  ASSUME LInv, publish
  PROVE  LInv'
<1>1. /\ pc = "args" /\ Len(job.entries) = Len(job.args)
      /\ UNCHANGED <<limit, posts, readerVars>> /\ cur' = 0 /\ end' = 0 /\ overflow' = FALSE
  BY Zenon DEF publish
<1>2. /\ Mult(limit) /\ limit <= nread + Capacity /\ Mult(nwritten) /\ Mult(end) /\ Mult(nread)
      /\ cur \in Nat /\ overflow \in BOOLEAN /\ job \in Job
      /\ ring \in Seq(Rec)
  BY Zenon DEF LInv, TypeOK, CountersInv
<1>3. CASE overflow
  <2>1. Drop /\ nwritten' = nwritten /\ ring' = ring
    BY <1>3, Zenon DEF publish
  <2> QED BY <1>1, <1>2, <2>1, DropLInv, MultConstants, Zenon
<1>4. CASE ~overflow
  <2> DEFINE r == [start |-> nwritten, next |-> nwritten', job |-> job]
             l == Len(ring)
  <2>1. /\ nwritten' = align(cur, Ptr) /\ ring' = Append(ring, r)
        /\ pc' = "idle" /\ job' = NoJob /\ dropped' = dropped
    BY <1>4, Zenon DEF publish, Published
  <2>2. /\ JobOK(job) /\ cur = Prev(nwritten, job, Len(job.entries) + 1) /\ LaidOut(nwritten, job)
        /\ StringsCut(job) /\ cur <= end /\ end <= limit /\ cur > nwritten
    BY <1>1, <1>4, Zenon DEF LInv, WriterInv
  <2>3. /\ Mult(nwritten') /\ nwritten' >= cur /\ nwritten' <= end
    BY <1>2, <2>1, <2>2, AlignPtr, Zenon
  <2>4. /\ nwritten \in Nat /\ nwritten' \in Nat /\ nread \in Nat /\ end \in Nat /\ limit \in Nat
        /\ Capacity \in Nat
    BY <1>2, <2>3, LayoutAssumption, Zenon DEF Mult
  <2>5. nwritten < nwritten' /\ nwritten' <= nread + Capacity
    BY <1>2, <2>2, <2>3, <2>4
  <2>6. /\ r \in Rec
        /\ r.start = nwritten /\ r.next = nwritten' /\ r.job = job
    BY <1>2, <2>4, Zenon DEF Rec
  <2> HIDE DEF r
  <2>7. /\ ring' \in Seq(Rec)
        /\ Len(ring') = l + 1 /\ l \in Nat /\ ring'[l + 1] = r
        /\ \A i \in 1..l : ring'[i] = ring[i]
    BY <1>2, <2>1, <2>6
  <2>8. NoJob \in Job
    <3>1. <<>> \in Seq(Arguments) /\ <<>> \in Seq(Entry)
      OBVIOUS
    <3> QED BY <3>1 DEF NoJob, Job
  <2>9. TypeOK'
    BY <1>1, <1>2, <2>1, <2>3, <2>7, <2>8, MultConstants, Zenon DEF LInv, TypeOK, readerVars
  <2>10. CountersInv'
    <3>1. nread <= rpos /\ rpos <= nwritten /\ rend <= nwritten /\ rpos \in Nat /\ rend \in Nat
      BY Zenon DEF LInv, TypeOK, CountersInv, Mult
    <3> QED BY <1>1, <1>2, <2>4, <2>5, <3>1 DEF CountersInv, readerVars
  <2>11. WriterInv'
    BY <2>1, Zenon DEF WriterInv
  <2>12. RecordOK(r, nwritten')
    <3>1. JobOK(r.job) /\ Len(r.job.entries) = Len(r.job.args)
      BY <1>1, <2>2, <2>6, Zenon
    <3>2. Mult(r.start) /\ Mult(r.next) /\ r.start < r.next /\ r.next <= nwritten'
      BY <1>2, <2>3, <2>4, <2>5, <2>6
    <3>3. LaidOut(r.start, r.job) /\ StringsCut(r.job)
      BY <2>2, <2>6, Zenon
    <3>4. r.next = align(Prev(r.start, r.job, Len(r.job.entries) + 1), Ptr)
      BY <2>1, <2>2, <2>6, Zenon
    <3> QED BY <3>1, <3>2, <3>3, <3>4, Zenon DEF RecordOK
  <2>13. ASSUME NEW i \in 1..l PROVE RecordOK(ring[i], nwritten')
    <3>1. RecordOK(ring[i], nwritten) /\ ring[i].next \in Nat
      BY RecordsInRing, Zenon
    <3>2. ring[i].next <= nwritten'
      BY <2>4, <2>5, <3>1 DEF RecordOK
    <3> QED BY <3>1, <3>2, Zenon DEF RecordOK
  <2>14. /\ \A i \in 1..(l - 1) : ring[i].next = ring[i + 1].start
         /\ l = 0 => rpos = nwritten
         /\ l # 0 => ring[1].start = rpos /\ ring[l].next = nwritten
    <3>1. ring = <<>> <=> l = 0
      BY <1>2
    <3> QED BY <3>1, Zenon DEF LInv, ChainInv
  <2>15. ChainInv'
    <3>1. \A i \in 1..(l + 1) : RecordOK(ring'[i], nwritten')
      BY <2>7, <2>12, <2>13
    <3>2. ASSUME NEW i \in 1..l PROVE ring'[i].next = ring'[i + 1].start
      <4>1. CASE i = l
        BY <2>6, <2>7, <2>14, <4>1
      <4>2. CASE i # l
        <5>1. i \in 1..(l - 1) /\ i + 1 \in 1..l
          BY <2>7, <4>2
        <5> QED BY <2>7, <2>14, <5>1, Zenon
      <4> QED BY <4>1, <4>2, Zenon
    <3>3. ring'[1].start = rpos
      <4>1. CASE l = 0
        BY <2>6, <2>7, <2>14, <4>1
      <4>2. CASE l # 0
        BY <2>7, <2>14, <4>2
      <4> QED BY <4>1, <4>2, Zenon
    <3>4. ring' # <<>> /\ rpos' = rpos /\ Len(ring') - 1 = l
      BY <1>1, <2>7 DEF readerVars
    <3> QED BY <2>6, <2>7, <3>1, <3>2, <3>3, <3>4, Zenon DEF ChainInv
  <2>16. ReaderInv'
    <3>1. ring # <<>> => ring'[1] = ring[1] /\ ring' # <<>>
      BY <1>2, <2>7
    <3> QED BY <1>1, <3>1, Zenon DEF LInv, ReaderInv, Walking, readerVars
  <2> QED BY <2>9, <2>10, <2>11, <2>15, <2>16, Zenon DEF LInv
<1> QED BY <1>2, <1>3, <1>4, Zenon

-----------------------------------------------------------------------------
\* The steps of the consumer.

\* The oldest record has been run, and pos is where the next one begins.
LEMMA PopLInv ==
  ASSUME LInv, ring # <<>>, ring' = Tail(ring), rpos' = ring[1].next, walk' = NoWalk,
         UNCHANGED <<nwritten, writerVars, nread, rend>>
  PROVE  LInv'
<1> DEFINE l == Len(ring)
<1>1. /\ ring \in Seq(Rec) /\ l \in Nat /\ l >= 1
      /\ ring' \in Seq(Rec)
      /\ Len(ring') = l - 1 /\ \A i \in 1..(l - 1) : ring'[i] = ring[i + 1]
  BY DEF LInv, TypeOK
<1>2. RecordOK(ring[1], nwritten)
  <2>1. 1 \in 1..Len(ring)
    BY <1>1
  <2> QED BY <2>1, Zenon DEF LInv, ChainInv
<1>3. Mult(rpos') /\ rpos' <= nwritten /\ rpos < rpos'
  BY <1>2, Zenon DEF RecordOK, LInv, ChainInv
<1>4. NoWalk \in [n : Int, pos : Nat]
  BY DEF NoWalk
<1>5. TypeOK'
  BY <1>1, <1>3, <1>4, Zenon DEF LInv, TypeOK, writerVars
<1>6. CountersInv'
  <2>1. nread \in Nat /\ rpos \in Nat /\ rpos' \in Nat
    BY <1>3, Zenon DEF LInv, TypeOK, Mult
  <2> QED BY <1>3, <2>1 DEF LInv, CountersInv, writerVars
<1>7. WriterInv' /\ ReaderInv'
  BY Zenon DEF LInv, WriterInv, ReaderInv, Walking, writerVars
<1>8. ChainInv'
  <2>1. ASSUME NEW i \in 1..(l - 1) PROVE RecordOK(ring'[i], nwritten)
    <3>1. i + 1 \in 1..l
      BY <1>1
    <3> QED BY <1>1, <3>1, Zenon DEF LInv, ChainInv
  <2>2. ASSUME NEW i \in 1..((l - 1) - 1) PROVE ring'[i].next = ring'[i + 1].start
    <3>1. i + 1 \in 1..(l - 1) /\ i \in 1..(l - 1)
      BY <1>1
    <3> QED BY <1>1, <3>1, Zenon DEF LInv, ChainInv
  <2>3. CASE l = 1
    <3>1. ring' = <<>> /\ rpos' = nwritten'
      BY <1>1, <2>3 DEF LInv, ChainInv
    <3>2. Len(ring') = 0 /\ Len(ring') - 1 = -1
      BY <1>1, <2>3
    <3>3. 1..Len(ring') = {} /\ 1..(Len(ring') - 1) = {}
      BY ONLY <3>2
    <3> QED BY ONLY <3>1, <3>3, Zenon DEF ChainInv
  <2>4. CASE l # 1
    <3>1. 1 \in 1..(l - 1) /\ l - 1 \in 1..(l - 1) /\ (l - 1) + 1 = l
      BY <1>1, <2>4
    <3>2. ring'[1].start = rpos' /\ ring'[l - 1].next = nwritten
      BY <1>1, <3>1, Zenon DEF LInv, ChainInv
    <3>3. ring' # <<>>
      <4>1. Len(ring') # 0
        BY <1>1, <3>1
      <4>2. Len(<<>>) = 0
        BY ONLY TRUE, Zenon
      <4> QED BY ONLY <4>1, <4>2, Zenon
    <3> QED BY <1>1, <2>1, <2>2, <3>1, <3>2, <3>3, Zenon DEF ChainInv
  <2> QED BY <2>3, <2>4, Zenon
<1> QED BY <1>5, <1>6, <1>7, <1>8, Zenon DEF LInv

\* Where the trampolines of records without variable-length arguments return to.
LEMMA NextOfFixed ==
  ASSUME NEW r, r.job \in Job, RecordOK(r, nwritten), r.job.kind # "variable"
  PROVE  r.next = HeadEnd(r.start, r.job)
<1>1. Len(r.job.entries) = 0
  BY Zenon DEF RecordOK, JobOK
<1>2. Prev(r.start, r.job, Len(r.job.entries) + 1) = HeadEnd(r.start, r.job)
  BY <1>1 DEF Prev
<1> QED BY <1>2, HeadFacts, AlignPtr, Zenon DEF RecordOK

\* CallTrampoline preserves the invariant: the two short trampolines arrive where
\* post had put the next record, the long one begins where the arguments begin.
LEMMA CallLInv ==
  ASSUME LInv, CallTrampoline
  PROVE  LInv'
<1> DEFINE r == ring[1]
           j == r.job
<1>1. /\ ring # <<>> /\ NextRecord = r /\ r.start = rpos /\ walk = NoWalk /\ rpos < rend
      /\ ring \in Seq(Rec)
      /\ UNCHANGED <<nwritten, writerVars, nread, rend>>
  BY DEF LInv, TypeOK, CallTrampoline, NextRecord, Walking
<1>2. 1 \in 1..Len(ring)
  BY <1>1, RecordsInRing
<1>3. RecordOK(r, nwritten) /\ j \in Job
  BY <1>2, RecordsInRing, Zenon
<1>4. CASE j.kind = "bare"
  <2>1. rpos' = HeadEnd(rpos, j) /\ ring' = Tail(ring) /\ walk' = NoWalk
    BY <1>1, <1>4, Zenon DEF CallTrampoline, HeadEnd
  <2> QED BY <1>1, <1>3, <1>4, <2>1, NextOfFixed, PopLInv, Zenon
<1>5. CASE j.kind = "fixed"
  <2>1. rpos' = HeadEnd(rpos, j) /\ ring' = Tail(ring) /\ walk' = NoWalk
    BY <1>1, <1>5, Zenon DEF CallTrampoline, HeadEnd, TrampolineFunc, FuncPos
  <2> QED BY <1>1, <1>3, <1>5, <2>1, NextOfFixed, PopLInv, Zenon
<1>6. CASE j.kind = "variable"
  <2>1. walk' = [n |-> 0, pos |-> HeadEnd(rpos, j)] /\ UNCHANGED <<rpos, ring>>
    BY <1>1, <1>6, Zenon DEF CallTrampoline, HeadEnd, TrampolineFunc, FuncPos
  <2>2. HeadEnd(rpos, j) \in Nat /\ Len(j.entries) \in Nat
    <3>1. Mult(rpos) /\ JobOK(j) /\ Len(j.entries) \in Nat
      BY <1>1, <1>3 DEF RecordOK, Job
    <3> QED BY <1>3, <3>1, HeadFacts, Zenon
  <2> HIDE DEF j
  <2>3. TypeOK' /\ CountersInv' /\ WriterInv' /\ ChainInv'
    <3>1. walk' \in [n : Int, pos : Nat]
      BY <2>1, <2>2
    <3> QED BY <1>1, <2>1, <3>1, Zenon DEF LInv, TypeOK, CountersInv, WriterInv, ChainInv, writerVars
  <2>4. ReaderInv'
    <3>1. walk'.n = 0 /\ walk'.pos = HeadEnd(rpos, j) /\ Prev(rpos, j, 0 + 1) = HeadEnd(rpos, j)
      BY <2>1 DEF Prev
    <3> QED BY <1>1, <1>6, <2>1, <2>2, <3>1, SMTT(30) DEF ReaderInv, j
  <2> QED BY <2>3, <2>4, Zenon DEF LInv
<1> QED BY <1>1, <1>4, <1>5, <1>6, Zenon DEF CallTrampoline

\* reconstruct_args arrives at the end of the next argument.
LEMMA WalkStep ==
  ASSUME LInv, Walking, walk.n < Len(ring[1].job.entries)
  PROVE  LET j == ring[1].job
             k == walk.n + 1
         IN  /\ k \in 1..Len(j.entries) /\ walk.pos = Prev(rpos, j, k) /\ walk.pos \in Nat
             /\ j \in Job /\ j.entries[k] \in Entry
             /\ j.entries[k].len # Truncated => ReadPos(j.args[k], walk.pos) = j.entries[k].pos
             /\ j.entries[k].len = Truncated => walk.pos = j.entries[k].pos
<1> DEFINE j == ring[1].job
           k == walk.n + 1
<1>1. /\ ring # <<>> /\ walk.n \in 0..Len(j.entries) /\ walk.pos = Prev(rpos, j, k)
      /\ ring \in Seq(Rec) /\ ring[1].start = rpos
      /\ walk.pos \in Nat
  BY Zenon DEF LInv, TypeOK, ReaderInv, ChainInv
<1>2. 1 \in 1..Len(ring)
  BY <1>1, RecordsInRing
<1>3. RecordOK(ring[1], nwritten) /\ j \in Job
  BY <1>2, RecordsInRing, Zenon
<1>4. k \in 1..Len(j.entries)
  <2>1. Len(j.entries) \in Nat
    BY <1>3 DEF Job
  <2> QED BY <1>1, <2>1
<1>5. j.entries[k] \in Entry
  BY <1>3, <1>4 DEF Job
<1>6. /\ j.entries[k].pos = ArgPos(j.args[k], Prev(rpos, j, k))
      /\ j.entries[k].len = Truncated => j.args[k].kind = "string"
  BY <1>1, <1>3, <1>4, Zenon DEF RecordOK, LaidOut, StringsCut
<1> QED BY <1>1, <1>3, <1>4, <1>5, <1>6, Zenon DEF ReadPos, ArgPos

\* reconstruct_args arrives at the end the writer had reached with the argument.
LEMMA ReconstructLInv ==
  ASSUME LInv, reconstruct_args
  PROVE  LInv'
<1> DEFINE j == ring[1].job
           k == walk.n + 1
<1>1. /\ Walking /\ walk.n < Len(j.entries)
      /\ walk' = [n |-> k, pos |-> IF j.entries[k].len = Truncated THEN walk.pos
                                   ELSE ReadPos(j.args[k], walk.pos) + j.entries[k].len]
      /\ UNCHANGED <<nwritten, writerVars, nread, rpos, rend, ring>>
  <2>1. NextRecord = ring[1]
    BY ONLY TRUE DEF NextRecord
  <2>2. reconstruct_args
    BY Zenon
  <2> QED BY ONLY <2>1, <2>2, Zenon DEF reconstruct_args
<1>2. /\ k \in 1..Len(j.entries) /\ walk.pos \in Nat /\ j \in Job /\ j.entries[k] \in Entry
      /\ j.entries[k].len # Truncated => ReadPos(j.args[k], walk.pos) = j.entries[k].pos
      /\ j.entries[k].len = Truncated => walk.pos = j.entries[k].pos
  BY <1>1, WalkStep, Zenon
<1>3. walk'.n = k /\ walk'.pos = EntryEnd(j.entries[k])
  BY <1>1, <1>2, Zenon DEF EntryEnd
<1>4. walk' \in [n : Int, pos : Nat]
  <2>1. EntryEnd(j.entries[k]) \in Nat
    <3>1. j.entries[k] \in Entry
      BY <1>2, Zenon
    <3> HIDE DEF j, k
    <3> QED BY ONLY <3>1, SMTT(30) DEF EntryEnd, Entry
  <2>2. walk' = [n |-> k, pos |-> EntryEnd(j.entries[k])]
    BY <1>1, <1>2, Zenon DEF EntryEnd
  <2>3. k \in Int
    BY <1>2
  <2> HIDE DEF j, k
  <2> QED BY ONLY <2>1, <2>2, <2>3, Zenon
<1>5. TypeOK' /\ CountersInv' /\ WriterInv' /\ ChainInv'
  BY <1>1, <1>4, Zenon DEF LInv, TypeOK, CountersInv, WriterInv, ChainInv, writerVars
<1>6. Prev(rpos, j, k + 1) = EntryEnd(j.entries[k])
  <2>0. k \in 1..Len(j.entries)
    BY <1>2, Zenon
  <2>1. k + 1 # 1 /\ (k + 1) - 1 = k
    <3> HIDE DEF j, k
    <3> QED BY ONLY <2>0
  <2> QED BY <2>1, Zenon DEF Prev
<1>7. ReaderInv'
  <2>1. /\ ring' = ring /\ rpos' = rpos /\ rend' = rend /\ ring # <<>> /\ rpos < rend
        /\ ring[1].job.kind = "variable" /\ Len(j.entries) \in Nat
    <3>1. /\ ring # <<>> /\ rpos < rend /\ ring[1].job.kind = "variable"
      BY <1>1, Zenon DEF LInv, ReaderInv
    <3>2. j \in Job
      BY <1>2, Zenon
    <3>3. Len(j.entries) \in Nat
      BY ONLY <3>2 DEF Job
    <3> QED BY <1>1, <3>1, <3>3, Zenon
  <2>2. walk'.n \in 0..Len(j.entries) /\ walk'.pos = Prev(rpos, j, walk'.n + 1)
    <3>1. k \in 1..Len(j.entries) /\ Len(j.entries) \in Nat
      BY <1>2, <2>1, Zenon
    <3> HIDE DEF j, k
    <3>2. k \in 0..Len(j.entries)
      BY ONLY <3>1
    <3>3. walk'.n \in 0..Len(j.entries)
      BY ONLY <1>3, <3>2, Zenon
    <3>4. walk'.pos = Prev(rpos, j, walk'.n + 1)
      BY ONLY <1>3, <1>6, Zenon
    <3> QED BY <3>3, <3>4, Zenon
  <2> QED BY ONLY <2>1, <2>2, Zenon DEF ReaderInv
<1> QED BY <1>5, <1>7, Zenon DEF LInv

\* trampolineV returns the position reduce_writable had published.
LEMMA ReturnLInv ==
  ASSUME LInv, TrampolineReturns
  PROVE  LInv'
<1> DEFINE r == ring[1]
           j == r.job
<1>1. /\ Walking /\ walk.n = Len(j.entries) /\ rpos' = align(walk.pos, Ptr)
      /\ ring' = Tail(ring) /\ walk' = NoWalk /\ UNCHANGED <<nwritten, writerVars, nread, rend>>
  BY DEF TrampolineReturns, NextRecord
<1>2. /\ ring # <<>> /\ walk.pos = Prev(rpos, j, Len(j.entries) + 1) /\ r.start = rpos
      /\ ring \in Seq(Rec)
  BY <1>1, Zenon DEF LInv, TypeOK, ReaderInv, ChainInv
<1>3. 1 \in 1..Len(ring)
  BY <1>2
<1>4. r.next = align(Prev(rpos, j, Len(j.entries) + 1), Ptr)
  BY <1>2, <1>3, Zenon DEF LInv, ChainInv, RecordOK
<1> QED BY <1>1, <1>2, <1>4, PopLInv, Zenon

\* The consumer begins and ends its loop over a span.
LEMMA SpanLInv ==
  ASSUME LInv, read_span \/ reduce_readable
  PROVE  LInv'
<1>1. /\ nread \in Nat /\ rpos \in Nat /\ nwritten \in Nat /\ rend \in Nat /\ limit \in Nat
      /\ Capacity \in Nat \ {0}
  BY LayoutAssumption, Zenon DEF LInv, TypeOK, Mult
<1>2. CASE read_span
  <2>1. MappingEnd(nread) \in Nat
    <3>1. nread \div Capacity \in Nat
      BY <1>1
    <3> QED BY <1>1, <3>1 DEF MappingEnd
  <2>2. /\ rend' \in Nat /\ rend' <= nwritten /\ rpos = rend
        /\ UNCHANGED <<nwritten, writerVars, nread, rpos, walk, ring>>
    BY <1>1, <1>2, <2>1 DEF read_span
  <2>3. TypeOK' /\ CountersInv' /\ WriterInv' /\ ChainInv'
    BY <2>2, Zenon DEF LInv, TypeOK, CountersInv, WriterInv, ChainInv, writerVars
  <2>4. ~Walking
    BY <1>1, <2>2 DEF LInv, ReaderInv
  <2>5. ReaderInv'
    BY <2>2, <2>4, Zenon DEF ReaderInv, Walking
  <2> QED BY <2>3, <2>5, Zenon DEF LInv
<1>3. CASE reduce_readable
  <2>1. /\ rpos >= rend /\ nread' = rpos /\ rend' = rpos /\ rpos > nread
        /\ UNCHANGED <<nwritten, writerVars, rpos, walk, ring>>
    BY <1>3, Zenon DEF reduce_readable
  <2>2. TypeOK' /\ CountersInv' /\ WriterInv' /\ ChainInv'
    <3>1. TypeOK' /\ WriterInv' /\ ChainInv'
      BY <1>1, <2>1, Zenon DEF LInv, TypeOK, WriterInv, ChainInv, writerVars
    <3>2. CountersInv /\ limit' = limit /\ Capacity \in Nat
      BY <1>1, <2>1, Zenon DEF LInv, writerVars
    <3>3. CountersInv'
      BY ONLY <1>1, <2>1, <3>2 DEF CountersInv
    <3> QED BY <3>1, <3>3, Zenon
  <2>3. ~Walking
    BY <1>1, <2>1 DEF LInv, ReaderInv
  <2>4. ReaderInv'
    BY <2>1, <2>3, Zenon DEF ReaderInv, Walking
  <2> QED BY <2>2, <2>4, Zenon DEF LInv
<1> QED BY <1>2, <1>3, Zenon

-----------------------------------------------------------------------------
\* LInv is inductive.
THEOREM LayoutInvariance == Spec => []LInv
<1>1. LInv /\ [Next]_vars => LInv'
  <2> SUFFICES ASSUME LInv, [Next]_vars PROVE LInv'
    BY Zenon
  <2>1. CASE UNCHANGED vars
    BY <2>1, Zenon DEF LInv, TypeOK, CountersInv, WriterInv, ChainInv, ReaderInv, Walking, vars,
                writerVars, readerVars
  <2>2. CASE Next
    BY <2>2, LogLInv, WriteSpanLInv, TransformLInv, PublishLInv, CallLInv, ReconstructLInv,
       ReturnLInv, SpanLInv, Zenon DEF Next
  <2> QED BY <2>1, <2>2, Zenon
<1> QED BY InitLInv, <1>1, PTL DEF Spec

\* Trampolines and reconstruct_args find what post and transform_args laid out.
THEOREM ReaderAgrees == Spec => []ReaderAgreesWithWriter
<1>1. LInv => ReaderAgreesWithWriter
  <2> SUFFICES ASSUME LInv PROVE ReaderAgreesWithWriter
    BY Zenon
  <2>1. rpos % Ptr = 0 /\ rpos \in Nat /\ rend \in Nat /\ nwritten \in Nat
    BY ModOfMult, Zenon DEF LInv, TypeOK, Mult
  <2>2. rpos = IF ring = <<>> THEN nwritten ELSE NextRecord.start
    BY SMTT(30) DEF LInv, TypeOK, ChainInv, NextRecord
  <2>3. rpos < rend => ring # <<>>
    BY <2>1 DEF LInv, CountersInv, ChainInv
  <2>4. ASSUME Walking, NEW k \in DOMAIN NextRecord.job.entries, k = walk.n + 1,
               NextRecord.job.entries[k].len # Truncated
        PROVE  ReadPos(NextRecord.job.args[k], walk.pos) = NextRecord.job.entries[k].pos
    <3>1. ring # <<>> /\ walk.n \in Int /\ NextRecord = ring[1]
      BY <2>4 DEF LInv, TypeOK, ReaderInv, NextRecord
    <3>2. DOMAIN ring[1].job.entries = 1..Len(ring[1].job.entries) /\ Len(ring[1].job.entries) \in Nat
      <4>1. 1 \in 1..Len(ring)
        BY <3>1, RecordsInRing
      <4>2. ring[1].job \in Job
        BY <4>1, RecordsInRing, Zenon
      <4> QED BY <4>2 DEF Job
    <3>3. walk.n < Len(ring[1].job.entries)
      BY <2>4, <3>1, <3>2
    <3> QED BY <2>4, <3>1, <3>3, WalkStep, Zenon
  <2> QED BY <2>1, <2>2, <2>3, <2>4, Zenon DEF ReaderAgreesWithWriter
<1> QED BY <1>1, LayoutInvariance, PTL

\* Nothing is written where the consumer has not released, rounding included.
THEOREM UnreadIsSafe == Spec => []NeverOverwritesUnread
<1>1. LInv => NeverOverwritesUnread
  <2> SUFFICES ASSUME LInv PROVE NeverOverwritesUnread
    BY Zenon
  <2>1. ASSUME pc = "args", ~overflow PROVE Published(cur) <= nread + Capacity
    <3>1. /\ cur \in Nat /\ cur <= end /\ Mult(end) /\ end <= limit /\ limit <= nread + Capacity
          /\ Mult(limit) /\ Mult(nread)
      BY <2>1, Zenon DEF LInv, TypeOK, WriterInv, CountersInv
    <3>2. align(cur, Ptr) <= end /\ align(cur, Ptr) \in Nat
      BY <3>1, AlignPtr, Zenon DEF Mult
    <3> QED BY <3>1, <3>2, LayoutAssumption DEF Published, Mult
  <2> QED BY <2>1, Zenon DEF LInv, CountersInv, NeverOverwritesUnread
<1> QED BY <1>1, LayoutInvariance, PTL

\* A blocking statement cuts a string only if it cannot fit into an empty ring.
THEOREM OnlyTooLongIsTruncated == Spec => []TruncatesOnlyTooLong
<1>1. LInv => TruncatesOnlyTooLong
  <2> SUFFICES ASSUME LInv, NEW n \in DOMAIN ring, ring[n].job.blocking,
                      NEW k \in DOMAIN ring[n].job.entries,
                      ring[n].job.entries[k].len = Truncated
               PROVE  ring[n].job.entries[k].pos + ring[n].job.args[k].len
                        > ring[n].start + Capacity
    BY Zenon DEF TruncatesOnlyTooLong
  <2>1. RecordOK(ring[n], nwritten) /\ ring[n].job \in Job
    BY RecordsInRing, Zenon
  <2>2. DOMAIN ring[n].job.entries = 1..Len(ring[n].job.entries)
    BY <2>1 DEF Job
  <2> QED BY <2>1, <2>2, Zenon DEF RecordOK, LaidOut
<1> QED BY <1>1, LayoutInvariance, PTL
=============================================================================
